----------------------------- MODULE TextProofs -----------------------------
(***************************************************************************)
(* Proofs about Parser, for every text: an accepted program is, token by   *)
(* token, what its tree says (TreeIsTheText); its operators have operands  *)
(* that bind tightly enough (PrecedenceClimbs); and if it is plain, it is  *)
(* its own dump (DumpIsTheText).                                           *)
(*                                                                         *)
(* The properties fold functions over the tree.  The folds are shown to go *)
(* on from each node to the next, so that a step of the parser, which      *)
(* appends one node at most, takes what has been written and the levels of *)
(* the operands one step on as well (State, After).                        *)
(*                                                                         *)
(* The inductive invariant (TextInv) says that the tokens that have been   *)
(* read are those that the tree has written, followed by those that the    *)
(* waiting goals have read and not appended yet: a goal holds a piece of   *)
(* text, and the operands that it will take from those that wait.  The     *)
(* goals of an expression join one another: a goal that leaves one more    *)
(* operand is followed by one that takes it, and an operator claims no     *)
(* operand that its neighbours are due (Climbs).                           *)
(***************************************************************************)
EXTENDS ParserProofs, SequenceTheorems, NaturalsInduction, WellFoundedInduction

-----------------------------------------------------------------------------
(* Folds.  A fold is a recursive function on the sets of positions, which  *)
(* is shown to exist, and to have the values that a function on positions  *)
(* has which goes on from each to the next.                                *)

(* Every set of numbers with 0, and with what follows its members up to n. *)
LEMMA UpTo ==
  ASSUME NEW n \in Nat, NEW S, 0 \in S, \A i \in 0 .. n - 1 : i \in S => i + 1 \in S
  PROVE  \A i \in 0 .. n : i \in S
<1>. DEFINE T == {i \in 0 .. n : i \notin S}
<1>. SUFFICES ASSUME T # {} PROVE FALSE
  OBVIOUS
<1>1. IsWellFoundedOn(OpToRel(<, Nat), Nat)
  BY NatLessThanWellFounded
<1>2. T \subseteq Nat
  OBVIOUS
<1>3. PICK x \in T : \A y \in T : ~ (<<y, x>> \in OpToRel(<, Nat))
  <2>. HIDE DEF OpToRel, T
  <2>. QED  BY <1>1, <1>2, WFMin
<1>4. \A y \in T : ~ (y < x)
  BY <1>2, <1>3 DEF OpToRel
<1>5. x # 0 /\ x - 1 \in 0 .. n - 1 /\ x - 1 \notin T
  BY <1>4
<1>. QED  BY <1>5

(* The greatest of the positions up to n.                                  *)
LEMMA MaxUpTo ==
  ASSUME NEW n \in Nat, NEW s \in SUBSET (1 .. n), n \in s
  PROVE  Max(s) = n
<1>1. \A y \in s : n >= y
  OBVIOUS
<1>2. \A x \in s : (\A y \in s : x >= y) => x = n
  OBVIOUS
<1>. QED  BY <1>1, <1>2 DEF Max

\* The folds of the model, by kind: how they start, and go on with an item.
Start(kind) == IF kind \in {"source", "dump"} THEN Nothing ELSE <<>>

Step(kind, y, item) ==
  CASE kind = "source" -> PrintNode(y, item, TRUE)
    [] kind = "dump"   -> PrintNode(y, item, FALSE)
    [] kind = "levels" -> Binding(y, item)
    [] kind = "list"   -> IF y = <<>> THEN item ELSE y \o <<",">> \o item

\* The recursive function of a fold over the first n items.
Folds(f, n, items, kind) ==
  f = [s \in SUBSET (1 .. n) |->
         IF s = {} THEN Start(kind) ELSE Step(kind, f[s \ {Max(s)}], items[Max(s)])]

Folded(items, n, kind) == (CHOOSE f : Folds(f, n, items, kind))[1 .. n]

LEMMA FoldsExist ==
  ASSUME NEW items, NEW kind, NEW n \in Nat
  PROVE  \E f : Folds(f, n, items, kind)
<1>. DEFINE S == {i \in 0 .. n : \E f : Folds(f, i, items, kind)}
<1>1. 0 \in S
  <2>. DEFINE f == [s \in SUBSET (1 .. 0) |-> Start(kind)]
  <2>1. 1 .. 0 = {}
    OBVIOUS
  <2>2. Folds(f, 0, items, kind)
    BY <2>1 DEF Folds
  <2>. QED  BY <2>2
<1>2. ASSUME NEW i \in 0 .. n - 1, i \in S PROVE i + 1 \in S
  <2>1. PICK f : Folds(f, i, items, kind)
    BY <1>2
  <2>. DEFINE h == [s \in SUBSET (1 .. i + 1) |->
                      IF i + 1 \in s THEN Step(kind, f[s \ {i + 1}], items[i + 1]) ELSE f[s]]
  <2>2. ASSUME NEW s \in SUBSET (1 .. i + 1), s # {}
        PROVE  h[s] = Step(kind, h[s \ {Max(s)}], items[Max(s)])
    <3>1. CASE i + 1 \in s
      <4>1. Max(s) = i + 1
        BY <3>1, MaxUpTo
      <4>2. s \ {i + 1} \in SUBSET (1 .. i + 1) /\ i + 1 \notin s \ {i + 1}
        OBVIOUS
      <4>3. h[s \ {i + 1}] = f[s \ {i + 1}]
        BY <4>2
      <4>4. h[s] = Step(kind, f[s \ {i + 1}], items[i + 1])
        BY <3>1
      <4>. HIDE DEF h
      <4>. QED  BY <4>1, <4>3, <4>4
    <3>2. CASE i + 1 \notin s
      <4>1. s \in SUBSET (1 .. i)
        BY <3>2
      <4>2. f[s] = Step(kind, f[s \ {Max(s)}], items[Max(s)])
        BY <2>1, <2>2, <4>1 DEF Folds
      <4>3. s \ {Max(s)} \in SUBSET (1 .. i + 1) /\ i + 1 \notin s \ {Max(s)}
        BY <3>2
      <4>4. h[s \ {Max(s)}] = f[s \ {Max(s)}] /\ h[s] = f[s]
        BY <3>2, <4>3
      <4>. HIDE DEF h
      <4>. QED  BY <4>2, <4>4
    <3>. QED  BY <3>1, <3>2
  <2>3. h[{}] = Start(kind)
    BY <2>1 DEF Folds
  <2>4. Folds(h, i + 1, items, kind)
    <3>. DEFINE e == [s \in SUBSET (1 .. i + 1) |->
           IF s = {} THEN Start(kind) ELSE Step(kind, h[s \ {Max(s)}], items[Max(s)])]
    <3>1. \A s \in SUBSET (1 .. i + 1) : h[s] = e[s]
      <4>. SUFFICES ASSUME NEW s \in SUBSET (1 .. i + 1) PROVE h[s] = e[s]
        OBVIOUS
      <4>1. e[s] = IF s = {} THEN Start(kind) ELSE Step(kind, h[s \ {Max(s)}], items[Max(s)])
        OBVIOUS
      <4>. HIDE DEF h, e
      <4>. QED  BY <2>2, <2>3, <4>1
    <3>2. h = e
      BY <3>1
    <3>. QED  BY <3>2 DEF Folds
  <2>. QED  BY <2>4
<1>. HIDE DEF S
<1>3. n \in S
  BY <1>1, <1>2, UpTo
<1>. QED  BY <1>3 DEF S

(* A fold goes on from each item to the next.                              *)
LEMMA FoldValues ==
  ASSUME NEW items, NEW kind, NEW n \in Nat
  PROVE  \E g : /\ g[0] = Start(kind)
                /\ \A i \in 1 .. n : g[i] = Step(kind, g[i - 1], items[i])
                /\ g[n] = Folded(items, n, kind)
<1>. DEFINE f == CHOOSE h : Folds(h, n, items, kind)
            g == [i \in 0 .. n |-> f[1 .. i]]
<1>1. Folds(f, n, items, kind)
  BY FoldsExist
<1>2. g[0] = Start(kind)
  <2>1. 1 .. 0 = {} /\ {} \in SUBSET (1 .. n)
    OBVIOUS
  <2>2. g[0] = f[{}]
    BY <2>1
  <2>. HIDE DEF f, g
  <2>. QED  BY <1>1, <2>1, <2>2 DEF Folds
<1>3. ASSUME NEW i \in 1 .. n PROVE g[i] = Step(kind, g[i - 1], items[i])
  <2>. DEFINE s == 1 .. i
  <2>1. s \in SUBSET (1 .. n) /\ s # {} /\ i \in s /\ s \ {i} = 1 .. i - 1 /\ s \in SUBSET (1 .. i)
    OBVIOUS
  <2>2. Max(s) = i
    <3>. HIDE DEF s
    <3>. QED  BY <2>1, MaxUpTo
  <2>3. g[i] = f[s] /\ g[i - 1] = f[1 .. i - 1]
    OBVIOUS
  <2>4. f[s] = Step(kind, f[s \ {Max(s)}], items[Max(s)])
    <3>. HIDE DEF f, s
    <3>. QED  BY <1>1, <2>1 DEF Folds
  <2>. HIDE DEF f, g, s
  <2>. QED  BY <2>1, <2>2, <2>3, <2>4
<1>4. g[n] = Folded(items, n, kind)
  BY DEF Folded
<1>. HIDE DEF g
<1>. QED  BY <1>2, <1>3, <1>4

(* Folds over items that they treat alike.                                 *)
LEMMA SameFold ==
  ASSUME NEW a, NEW b, NEW j, NEW k, NEW n \in Nat, Start(j) = Start(k),
         \A i \in 1 .. n : \A y : Step(j, y, a[i]) = Step(k, y, b[i])
  PROVE  Folded(a, n, j) = Folded(b, n, k)
<1>1. PICK g : /\ g[0] = Start(j)
               /\ \A i \in 1 .. n : g[i] = Step(j, g[i - 1], a[i])
               /\ g[n] = Folded(a, n, j)
  BY FoldValues
<1>2. PICK h : /\ h[0] = Start(k)
               /\ \A i \in 1 .. n : h[i] = Step(k, h[i - 1], b[i])
               /\ h[n] = Folded(b, n, k)
  BY FoldValues
<1>. DEFINE S == {i \in 0 .. n : g[i] = h[i]}
<1>3. 0 \in S
  BY <1>1, <1>2
<1>4. ASSUME NEW i \in 0 .. n - 1, i \in S PROVE i + 1 \in S
  <2>1. i + 1 \in 1 .. n /\ (i + 1) - 1 = i /\ g[i] = h[i]
    BY <1>4
  <2>2. g[i + 1] = Step(j, g[i], a[i + 1]) /\ h[i + 1] = Step(k, h[i], b[i + 1])
    BY <1>1, <1>2, <2>1
  <2>. QED  BY <2>1, <2>2
<1>. HIDE DEF S
<1>5. n \in S
  BY <1>3, <1>4, UpTo
<1>. QED  BY <1>1, <1>2, <1>5 DEF S

(* A fold over no items, and over one more.                                *)
LEMMA FoldEmpty ==
  ASSUME NEW items, NEW kind
  PROVE  Folded(items, 0, kind) = Start(kind)
  BY FoldValues

LEMMA FoldNext ==
  ASSUME NEW items, NEW kind, NEW n \in Nat
  PROVE  Folded(items, n + 1, kind) = Step(kind, Folded(items, n, kind), items[n + 1])
<1>1. PICK g : /\ g[0] = Start(kind)
               /\ \A i \in 1 .. n + 1 : g[i] = Step(kind, g[i - 1], items[i])
               /\ g[n + 1] = Folded(items, n + 1, kind)
  BY FoldValues
<1>2. PICK h : /\ h[0] = Start(kind)
               /\ \A i \in 1 .. n : h[i] = Step(kind, h[i - 1], items[i])
               /\ h[n] = Folded(items, n, kind)
  BY FoldValues
<1>. DEFINE S == {i \in 0 .. n : g[i] = h[i]}
<1>3. 0 \in S
  BY <1>1, <1>2
<1>4. ASSUME NEW i \in 0 .. n - 1, i \in S PROVE i + 1 \in S
  <2>1. i + 1 \in 1 .. n /\ i + 1 \in 1 .. n + 1 /\ (i + 1) - 1 = i /\ g[i] = h[i]
    BY <1>4
  <2>2. g[i + 1] = Step(kind, g[i], items[i + 1]) /\ h[i + 1] = Step(kind, h[i], items[i + 1])
    BY <1>1, <1>2, <2>1
  <2>. QED  BY <2>1, <2>2
<1>. HIDE DEF S
<1>5. n \in S
  BY <1>3, <1>4, UpTo
<1>6. g[n + 1] = Step(kind, g[n], items[n + 1])
  <2>1. n + 1 \in 1 .. n + 1 /\ (n + 1) - 1 = n
    OBVIOUS
  <2>. QED  BY <1>1, <2>1
<1>. QED  BY <1>1, <1>2, <1>5, <1>6 DEF S

(* The folds of the model.                                                 *)
Written(nodes) == Folded(nodes, Len(nodes), "source")
Levels(nodes)  == Folded(nodes, Len(nodes), "levels")

LEMMA TextIsFolded ==
  ASSUME NEW nodes \in Seq(TreeNodes)
  PROVE  /\ Text(nodes, TRUE) = Written(nodes).printed
         /\ Text(nodes, FALSE) = Folded(nodes, Len(nodes), "dump").printed
<1>1. DOMAIN nodes = 1 .. Len(nodes)
  OBVIOUS
<1>. QED  BY <1>1 DEF Text, FoldLeft, MapThenFoldSet, Written, Folded, Folds, Step, Start

LEMMA LevelsAreFolded ==
  ASSUME NEW nodes \in Seq(TreeNodes)
  PROVE  FoldLeft(Binding, <<>>, nodes) = Levels(nodes)
<1>1. DOMAIN nodes = 1 .. Len(nodes)
  OBVIOUS
<1>. QED  BY <1>1 DEF FoldLeft, MapThenFoldSet, Levels, Folded, Folds, Step, Start

LEMMA ListIsFolded ==
  ASSUME NEW S, NEW texts \in Seq(S)
  PROVE  CommaList(texts) = Folded(texts, Len(texts), "list")
<1>1. DOMAIN texts = 1 .. Len(texts)
  OBVIOUS
<1>. QED  BY <1>1 DEF CommaList, FoldLeft, MapThenFoldSet, Folded, Folds, Step, Start

-----------------------------------------------------------------------------
(* The text that has been read is that of the tree, followed by what the   *)
(* waiting goals have read and not appended yet: the pieces of the goals,  *)
(* the last one first.  The goals of expressions wait for operands, which  *)
(* have been appended.                                                     *)

\* What texts consist of.
Words == Tokens \cup VarNames \cup FuncNames

Texts == Seq(Words) \ {<<>>}

\* What the tree says, and how tightly its operands bind.
State(nodes) == [written |-> Written(nodes), levels |-> Levels(nodes)]

States ==
  {st \in [written : [printed : Seq(Words), operands : Seq(Texts), close : Seq(Words)],
           levels : Seq(Precedences)] :
     Len(st.levels) = Len(st.written.operands)}

After(st, node) ==
  [written |-> PrintNode(st.written, node, TRUE), levels |-> Binding(st.levels, node)]

\* Goals by what they read and append.
Kind(g) ==
  CASE g.do = "Skip" -> IF g.nodes = <<>> THEN "Ahead"
                        ELSE IF g.nodes[1].n # "Call" THEN g.nodes[1].n
                        ELSE IF g.nodes[1].args = 0 THEN "NoArgs" ELSE "LastArg"
    [] g.do = "Emit" -> IF g.node.n = "Call" THEN g.node.form ELSE "Mark"
    [] g.do = "MoreArgs" -> IF g.args = 0 THEN "FirstArg" ELSE "NextArg"
    [] g.do = "Seq" -> "Braces"
    [] OTHER -> g.do

\* Goals that end with one more operand, as those of primary expressions do
\* and those of operators; goals that follow such a goal; goals that nothing
\* has been read for.
PrimaryKinds  == {"Primary", "UnaryOp", "VarOrCall", "Args", "FirstArg", "NextArg", "prefix",
                  "Paren", "LastArg", "NoArgs"}
YieldingKinds == PrimaryKinds \cup {"Remaining", "RightOf", "infix"}
TakingKinds   == {"Remaining", "RightOf", "infix", "prefix", "Paren", "EndExp", "LastArg", "NextArg"}
BottomKinds   == {"Program", "Braces", "Stmts", "Stmt", "Else", "Mark"}

Yields(g)   == Kind(g) \in YieldingKinds
Takes(g)    == Kind(g) \in TakingKinds
IsBottom(g) == Kind(g) \in BottomKinds

\* The skips and nodes that the parser has goals for.
Shaped(g) ==
  /\ g.do = "Skip" =>
       \/ g.nodes = <<>>
       \/ \E node \in TreeNodes :
            /\ g.nodes = <<node>>
            /\ \/ g.token = "{" /\ node.n = "Seq"
               \/ node.n = "EndExp"
               \/ g.token = ")" /\ node.n = "Paren"
               \/ g.token = ")" /\ node.n = "Call" /\ node.form = "args"
               \/ g.token = ";" /\ node.n = "Func" /\ ~node.def.body
  /\ g.do = "Emit" =>
       \/ g.node.n \in {"EndFunc", "EndIf", "EndWhile"}
       \/ g.node.n = "Call" /\ g.node.form = "infix" /\ g.node.args = 2 /\ g.node.name \in InfixOps
       \/ g.node.n = "Call" /\ g.node.form = "prefix" /\ g.node.args = 1

\* The operands that a goal will take, but for the one that it follows.
Uses(g) ==
  CASE Kind(g) \in {"RightOf", "infix"} -> 1
    [] Kind(g) = "NextArg" -> g.args - 1
    [] Kind(g) = "LastArg" -> g.nodes[1].args - 1
    [] OTHER -> 0

\* A definition up to its last parameter, and up to the next one.
VarTexts(def) == [i \in DOMAIN def.params |-> VarText(def.params[i])]

Signed(def) ==
  <<def.ret>> \o (IF IsOperator(def.name) THEN <<"operator">> ELSE <<>>)
    \o <<def.name, "(">> \o CommaList(VarTexts(def))

NextVar(of) ==
  IF of = Null THEN <<>> ELSE Signed(of) \o IF of.params = <<>> THEN <<>> ELSE <<",">>

\* A call up to its next argument.
ArgsSoFar(name, args) ==
  <<name, "(">> \o IF args = <<>> THEN <<>> ELSE CommaList(args) \o <<",">>

\* What a goal has read and not appended.
Piece(g, args) ==
  CASE Kind(g) = "FuncId"       -> <<g.ret>>
    [] Kind(g) = "OperatorId"   -> <<g.ret, "operator">>
    [] Kind(g) = "ParamList"    -> Signed(g.def)
    [] Kind(g) = "Body"         -> Signed(g.def) \o <<")">>
    [] Kind(g) = "Func"         -> Signed(g.nodes[1].def) \o <<")">>
    [] Kind(g) = "VarDecl"      -> NextVar(g.of)
    [] Kind(g) = "VarId"        -> NextVar(g.of) \o <<g.type>>
    [] Kind(g) = "Local"        -> <<g.type, g.name>>
    [] Kind(g) \in {"AssignOrCall", "VarOrCall", "Args"} -> <<g.name>>
    [] Kind(g) = "UnaryOp"      -> <<"-">>
    [] Kind(g) \in {"FirstArg", "NextArg"} -> ArgsSoFar(g.name, args)
    [] Kind(g) \in {"NoArgs", "LastArg"}   -> ArgsSoFar(g.nodes[1].name, args)
    [] Kind(g) = "Paren"        -> <<"(", "(">>
    [] Kind(g) = "RightOf"      -> args[1] \o <<g.op>>
    [] Kind(g) = "infix"        -> args[1] \o <<g.node.name>>
    [] Kind(g) = "prefix"       -> <<"-", g.node.name>>
    [] OTHER                    -> <<>>

\* The precedence of an operator whose left operand has been read.
Level(g) == Precedence(IF g.do = "RightOf" THEN g.op ELSE g.node.name)

\* How tightly operators bind what they take.
Climbs(g, h) ==
  /\ Kind(h) = "infix" => g.do = "Remaining" /\ g.prec = Level(h) + 1
  /\ Kind(h) \in {"prefix", "RightOf"} => Kind(g) \in PrimaryKinds
  /\ h.do = "Remaining" =>
       \/ Kind(g) \in PrimaryKinds
       \/ Kind(g) \in {"infix", "RightOf"} /\ Level(g) >= h.prec

\* The goals that a goal may be followed by.
Joins(g, h) ==
  /\ Kind(h) # "Ahead"
  /\ Yields(g) <=> Takes(h)
  /\ ~Yields(g) /\ Kind(g) # "Ahead" => IsBottom(h)
  /\ Climbs(g, h)

Links(g, h, st, t, s) ==
  LET operands == st.written.operands IN
  /\ Joins(g, h)
  /\ t.used = s.used + Uses(g) /\ t.used <= Len(operands)
  /\ t.text = s.text \o Piece(g, SubSeq(operands, s.used + 1, t.used))
  /\ Kind(g) \in {"infix", "RightOf"} => st.levels[t.used] >= Level(g)
  /\ Kind(g) = "EndExp" => st.written.close = <<g.token>>

Place(text, used) == [text |-> text, used |-> used]
Places == [text : Seq(Words), used : Nat]

Chained(goals, st, T) ==
  /\ goals \in Seq(Goals) /\ goals # <<>> /\ IsBottom(goals[Len(goals)])
  /\ T \in [DOMAIN goals -> Places]
  /\ \A i \in DOMAIN goals :
       /\ Shaped(goals[i])
       /\ IsBottom(goals[i]) => T[i] = Place(st.written.printed, 0)
       /\ i + 1 \in DOMAIN goals => Links(goals[i], goals[i + 1], st, T[i], T[i + 1])
  /\ \A i, j \in DOMAIN goals : i <= j => T[j].used <= T[i].used

\* The goals wait for a text, and will take that many operands.
Waits(goals, st, text, used) ==
  \E T : Chained(goals, st, T) /\ T[1] = Place(text, used)

\* What may be taken by a goal, and what may follow it.
Held(g, level, ahead) ==
  /\ g.do = "Remaining" => level >= g.prec /\ level >= Precedence(ahead)
  /\ Kind(g) \in {"RightOf", "prefix"} => level = Primary
  /\ Kind(g) = "infix" => level > Level(g) /\ Precedence(ahead) <= Level(g)

\* A token to be skipped belongs to the text.
Due(goals, text) == IF Kind(goals[1]) = "Ahead" THEN text \o <<goals[1].token>> ELSE text

HeadWaits(goals, st, x, u, text, ahead) ==
  IF Takes(goals[1])
  THEN /\ Len(st.levels) = u + 1
       /\ Due(goals, text) = x \o st.written.operands[u + 1]
       /\ Held(goals[1], st.levels[u + 1], ahead)
  ELSE Len(st.levels) = u /\ Due(goals, text) = x

Stands(goals, st, text, ahead) ==
  /\ st \in States
  /\ \E x \in Seq(Words), u \in Nat : Waits(goals, st, x, u) /\ HeadWaits(goals, st, x, u, text, ahead)

TextInv ==
  /\ status = "running" => Stands(todo, State(tree), read, lookahead)
  /\ status = "ok" =>
       State(tree) \in States /\ read = Written(tree).printed /\ lookahead = EOF

-----------------------------------------------------------------------------
(* Goals that wait                                                         *)

LEMMA PlainKind ==
  ASSUME NEW g, g.do \notin {"Skip", "Emit", "MoreArgs", "Seq"}
  PROVE  Kind(g) = g.do
  BY DEF Kind

\* Kinds are told apart.
LEMMA KindSets ==
  /\ \A g : IsBottom(g) => ~Yields(g) /\ Kind(g) # "Ahead" /\ ~Takes(g)
                           /\ Kind(g) \notin {"infix", "RightOf", "EndExp", "prefix"}
  /\ \A g : IsBottom(g) => Uses(g) = 0 /\ \A args : Piece(g, args) = <<>>
  /\ \A g : Kind(g) = "Ahead" => ~Yields(g) /\ ~Takes(g) /\ Uses(g) = 0 /\ \A args : Piece(g, args) = <<>>
<1>1. \A g : IsBottom(g) => ~Yields(g) /\ Kind(g) # "Ahead" /\ ~Takes(g)
                           /\ Kind(g) \notin {"infix", "RightOf", "EndExp", "prefix"}
  BY DEF IsBottom, BottomKinds, Yields, YieldingKinds, PrimaryKinds, Takes, TakingKinds
<1>2. \A g : IsBottom(g) => Uses(g) = 0 /\ \A args : Piece(g, args) = <<>>
  BY DEF IsBottom, BottomKinds, Uses, Piece
<1>3. \A g : Kind(g) = "Ahead" => ~Yields(g) /\ ~Takes(g) /\ Uses(g) = 0 /\ \A args : Piece(g, args) = <<>>
  BY DEF Yields, YieldingKinds, PrimaryKinds, Takes, TakingKinds, Uses, Piece
<1>. QED  BY <1>1, <1>2, <1>3

(* Below a goal that nothing was read for there are only such goals.       *)
LEMMA BottomBelow ==
  ASSUME NEW goals, NEW st, NEW T, Chained(goals, st, T), IsBottom(goals[1])
  PROVE  \A i \in DOMAIN goals : IsBottom(goals[i])
<1>. DEFINE n == Len(goals) - 1
            S == {i \in 0 .. n : IsBottom(goals[i + 1])}
<1>1. goals \in Seq(Goals) /\ n \in Nat /\ DOMAIN goals = 1 .. n + 1
  BY DEF Chained
<1>2. 0 \in S
  BY <1>1
<1>3. ASSUME NEW i \in 0 .. n - 1, i \in S PROVE i + 1 \in S
  <2>1. i + 1 \in DOMAIN goals /\ (i + 1) + 1 \in DOMAIN goals /\ IsBottom(goals[i + 1])
    BY <1>1, <1>3
  <2>2. Joins(goals[i + 1], goals[(i + 1) + 1])
    BY <2>1 DEF Chained, Links
  <2>3. IsBottom(goals[(i + 1) + 1])
    BY <2>1, <2>2, KindSets DEF Joins
  <2>. QED  BY <2>3, <1>1
<1>. HIDE DEF S, n
<1>4. \A i \in 0 .. n : i \in S
  BY <1>1, <1>2, <1>3, UpTo
<1>5. ASSUME NEW i \in DOMAIN goals PROVE IsBottom(goals[i])
  <2>1. i - 1 \in 0 .. n /\ (i - 1) + 1 = i
    BY <1>1
  <2>. QED  BY <2>1, <1>4 DEF S
<1>. QED  BY <1>5

LEMMA BottomWaits ==
  ASSUME NEW goals, NEW st, NEW x, NEW u, Waits(goals, st, x, u), IsBottom(goals[1])
  PROVE  /\ x = st.written.printed /\ u = 0
         /\ \A new \in States : Waits(goals, new, new.written.printed, 0)
<1>1. PICK T : Chained(goals, st, T) /\ T[1] = Place(x, u)
  BY DEF Waits
<1>2. 1 \in DOMAIN goals /\ DOMAIN goals = 1 .. Len(goals) /\ Len(goals) \in Nat
  BY <1>1 DEF Chained
<1>3. T[1] = Place(st.written.printed, 0)
  BY <1>1, <1>2 DEF Chained
<1>4. x = st.written.printed /\ u = 0
  BY <1>1, <1>3 DEF Place
<1>5. ASSUME NEW new \in States PROVE Waits(goals, new, new.written.printed, 0)
  <2>. DEFINE P == Place(new.written.printed, 0)
              C == [i \in DOMAIN goals |-> P]
  <2>1. \A i \in DOMAIN goals : IsBottom(goals[i])
    BY <1>1, BottomBelow
  <2>2. P \in Places /\ new.written.printed \in Seq(Words) /\ P.used = 0
        /\ P.text = new.written.printed /\ Len(new.written.operands) \in Nat
    BY DEF Place, Places, States
  <2>3. ASSUME NEW i \in DOMAIN goals, i + 1 \in DOMAIN goals
        PROVE  Links(goals[i], goals[i + 1], new, C[i], C[i + 1])
    <3>1. Joins(goals[i], goals[i + 1])
      BY <1>1, <2>3 DEF Chained, Links
    <3>2. C[i] = P /\ C[i + 1] = P
      BY <2>3
    <3>3. /\ Uses(goals[i]) = 0 /\ Kind(goals[i]) \notin {"infix", "RightOf", "EndExp"}
          /\ \A args : Piece(goals[i], args) = <<>>
      BY <2>1, KindSets
    <3>4. P.text \o <<>> = P.text
      BY <2>2
    <3>. DEFINE args == SubSeq(new.written.operands, P.used + 1, P.used)
    <3>5. P.text = P.text \o Piece(goals[i], args)
      BY <3>3, <3>4
    <3>6. P.used = P.used + Uses(goals[i]) /\ P.used <= Len(new.written.operands)
      BY <2>2, <3>3
    <3>7. Links(goals[i], goals[i + 1], new, P, P)
      <4>. HIDE DEF P
      <4>. QED  BY <3>1, <3>3, <3>5, <3>6 DEF Links
    <3>. QED  BY <3>2, <3>7
  <2>4. \A i, j \in DOMAIN goals : i <= j => C[j].used <= C[i].used
    BY <2>2
  <2>5. C \in [DOMAIN goals -> Places] /\ \A i \in DOMAIN goals : C[i] = P
    BY <2>2
  <2>6. C[1] = P
    BY <1>2
  <2>. HIDE DEF C
  <2>7. Chained(goals, new, C)
    BY <1>1, <2>3, <2>4, <2>5 DEF Chained
  <2>. QED  BY <2>6, <2>7 DEF Waits
<1>. QED  BY <1>4, <1>5

(* A goal in front of others.                                              *)
LEMMA InFront ==
  ASSUME NEW S, NEW g \in S, NEW goals \in Seq(S)
  PROVE  LET new == <<g>> \o goals IN
         /\ new \in Seq(S) /\ Len(new) = Len(goals) + 1 /\ new[1] = g
         /\ new # <<>> /\ Tail(new) = goals
         /\ DOMAIN new = 1 .. Len(goals) + 1
         /\ \A i \in 2 .. Len(goals) + 1 : i - 1 \in 1 .. Len(goals) /\ new[i] = goals[i - 1]
<1>. DEFINE new == <<g>> \o goals
<1>1. /\ new \in Seq(S) /\ Len(new) = Len(goals) + 1 /\ new[1] = g /\ new # <<>>
      /\ \A i \in 2 .. Len(goals) + 1 : i - 1 \in 1 .. Len(goals) /\ new[i] = goals[i - 1]
  OBVIOUS
<1>2. Tail(new) \in Seq(S) /\ Len(Tail(new)) = Len(goals)
      /\ \A i \in 1 .. Len(goals) : Tail(new)[i] = new[i + 1]
  BY <1>1, HeadTailProperties
<1>3. \A i \in 1 .. Len(goals) : new[i + 1] = goals[i]
  BY <1>1
<1>4. Tail(new) = goals
  <2>. HIDE DEF new
  <2>. QED  BY <1>2, <1>3, SeqEqual
<1>5. DOMAIN new = 1 .. Len(new)
  BY <1>1
<1>. QED  BY <1>1, <1>4, <1>5

LEMMA Push ==
  ASSUME NEW g \in Goals, NEW goals, NEW st \in States, NEW x \in Seq(Words), NEW u \in Nat,
         Waits(goals, st, x, u), Shaped(g), Joins(g, goals[1]),
         NEW y \in Seq(Words), NEW v \in Nat, v = u + Uses(g), v <= Len(st.written.operands),
         u <= v, y = x \o Piece(g, SubSeq(st.written.operands, u + 1, v)),
         Kind(g) \in {"infix", "RightOf"} => st.levels[v] >= Level(g),
         Kind(g) = "EndExp" => st.written.close = <<g.token>>
  PROVE  Waits(<<g>> \o goals, st, y, v)
<1>1. PICK T : Chained(goals, st, T) /\ T[1] = Place(x, u)
  BY DEF Waits
<1>. DEFINE new == <<g>> \o goals
            n == Len(goals)
            C == [i \in 1 .. n + 1 |-> IF i = 1 THEN Place(y, v) ELSE T[i - 1]]
<1>2. goals \in Seq(Goals) /\ goals # <<>> /\ n \in Nat /\ n >= 1 /\ DOMAIN goals = 1 .. n
  BY <1>1 DEF Chained
<1>3. /\ new \in Seq(Goals) /\ Len(new) = n + 1 /\ new[1] = g /\ new # <<>>
      /\ DOMAIN new = 1 .. n + 1
      /\ \A i \in 2 .. n + 1 : i - 1 \in 1 .. n /\ new[i] = goals[i - 1]
  BY <1>2, InFront
<1>4. Place(x, u) \in Places /\ Place(y, v) \in Places /\ Place(x, u).used = u /\ Place(y, v).used = v
      /\ Place(x, u).text = x /\ Place(y, v).text = y
  BY DEF Place, Places
<1>5. C[1] = Place(y, v) /\ \A i \in 2 .. n + 1 : C[i] = T[i - 1]
  BY <1>2
<1>6. T \in [1 .. n -> Places] /\ \A i \in 1 .. n : T[i].used <= u
  <2>1. T \in [1 .. n -> Places]
    BY <1>1, <1>2 DEF Chained
  <2>2. \A i \in 1 .. n : T[i].used <= T[1].used
    <3>1. \A i, j \in 1 .. n : i <= j => T[j].used <= T[i].used
      BY <1>1, <1>2 DEF Chained
    <3>2. 1 \in 1 .. n /\ \A i \in 1 .. n : 1 <= i
      BY <1>2
    <3>. HIDE DEF n, C, new
    <3>. QED  BY <3>1, <3>2
  <2>. QED  BY <2>1, <2>2, <1>1, <1>4
<1>7. C \in [1 .. n + 1 -> Places]
  BY <1>2, <1>4, <1>6
<1>. HIDE DEF C, new
<1>8. ASSUME NEW i \in 1 .. n + 1
      PROVE  /\ Shaped(new[i])
             /\ IsBottom(new[i]) => C[i] = Place(st.written.printed, 0)
             /\ i + 1 \in 1 .. n + 1 => Links(new[i], new[i + 1], st, C[i], C[i + 1])
  <2>1. CASE i = 1
    <3>1. 2 \in 2 .. n + 1 /\ 2 - 1 = 1 /\ i + 1 = 2
      BY <1>2, <2>1
    <3>2. new[1] = g /\ new[2] = goals[1] /\ C[1] = Place(y, v) /\ C[2] = Place(x, u)
      BY <1>1, <1>3, <1>5, <3>1
    <3>3. Links(g, goals[1], st, Place(y, v), Place(x, u))
      BY <1>4 DEF Links
    <3>4. ASSUME IsBottom(g) PROVE y = st.written.printed /\ v = 0
      <4>1. IsBottom(goals[1])
        BY <3>4, KindSets DEF Joins
      <4>2. x = st.written.printed /\ u = 0
        BY <4>1, BottomWaits
      <4>3. Uses(g) = 0 /\ \A args : Piece(g, args) = <<>>
        BY <3>4, KindSets
      <4>4. v = 0
        BY <4>2, <4>3
      <4>5. x \o <<>> = x
        OBVIOUS
      <4>6. y = x
        BY <4>3, <4>5
      <4>. QED  BY <4>2, <4>4, <4>6
    <3>. QED  BY <2>1, <3>1, <3>2, <3>3, <3>4
  <2>2. CASE i # 1
    <3>1. i \in 2 .. n + 1 /\ i - 1 \in 1 .. n /\ (i + 1) - 1 = i /\ (i - 1) + 1 = i
      <4>1. n \in Nat
        BY <1>2
      <4>. HIDE DEF n
      <4>. QED  BY <2>2, <4>1
    <3>2. new[i] = goals[i - 1] /\ C[i] = T[i - 1]
      BY <1>3, <1>5, <3>1
    <3>3. i + 1 \in 1 .. n + 1 => i \in 1 .. n /\ new[i + 1] = goals[i] /\ C[i + 1] = T[i]
      <4>. SUFFICES ASSUME i + 1 \in 1 .. n + 1
                    PROVE  i \in 1 .. n /\ new[i + 1] = goals[i] /\ C[i + 1] = T[i]
        OBVIOUS
      <4>1. i + 1 \in 2 .. n + 1 /\ i \in 1 .. n
        BY <3>1
      <4>. QED  BY <4>1, <1>3, <1>5, <3>1
    <3>4. /\ Shaped(goals[i - 1])
          /\ IsBottom(goals[i - 1]) => T[i - 1] = Place(st.written.printed, 0)
          /\ i \in 1 .. n => Links(goals[i - 1], goals[i], st, T[i - 1], T[i])
      BY <1>1, <1>2, <3>1 DEF Chained
    <3>. QED  BY <3>2, <3>3, <3>4
  <2>. QED  BY <2>1, <2>2
<1>9. ASSUME NEW i \in 1 .. n + 1, NEW j \in 1 .. n + 1, i <= j PROVE C[j].used <= C[i].used
  <2>1. CASE i = 1 /\ j = 1
    BY <2>1, <1>4, <1>5
  <2>2. CASE i = 1 /\ j # 1
    <3>1. j \in 2 .. n + 1 /\ j - 1 \in 1 .. n
      BY <2>2
    <3>2. C[j] = T[j - 1] /\ T[j - 1].used <= u /\ T[j - 1].used \in Nat
      BY <3>1, <1>5, <1>6 DEF Places
    <3>. QED  BY <2>2, <3>2, <1>4, <1>5
  <2>3. CASE i # 1
    <3>1. i \in 2 .. n + 1 /\ j \in 2 .. n + 1 /\ i - 1 \in 1 .. n /\ j - 1 \in 1 .. n /\ i - 1 <= j - 1
      BY <1>9, <2>3
    <3>2. C[i] = T[i - 1] /\ C[j] = T[j - 1]
      BY <3>1, <1>5
    <3>. QED  BY <1>1, <1>2, <3>1, <3>2 DEF Chained
  <2>. QED  BY <2>1, <2>2, <2>3
<1>10. IsBottom(new[n + 1])
  <2>1. n + 1 \in 2 .. n + 1 /\ (n + 1) - 1 = n
    BY <1>2
  <2>2. new[n + 1] = goals[n]
    BY <1>3, <2>1
  <2>. QED  BY <1>1, <2>2 DEF Chained
<1>11. Chained(new, st, C)
  BY <1>3, <1>7, <1>8, <1>9, <1>10 DEF Chained
<1>. QED  BY <1>5, <1>11 DEF Waits, new

(* The goals behind the first one.                                         *)
LEMMA Pop ==
  ASSUME NEW goals, NEW st, NEW x, NEW u, Waits(goals, st, x, u), Len(goals) >= 2
  PROVE  /\ Shaped(goals[1])
         /\ \E y \in Seq(Words), v \in Nat :
              /\ Waits(Tail(goals), st, y, v)
              /\ Links(goals[1], goals[2], st, Place(x, u), Place(y, v))
<1>1. PICK T : Chained(goals, st, T) /\ T[1] = Place(x, u)
  BY DEF Waits
<1>. DEFINE n == Len(goals)
            C == [i \in 1 .. n - 1 |-> T[i + 1]]
            new == Tail(goals)
<1>2. goals \in Seq(Goals) /\ n \in Nat /\ n >= 2 /\ DOMAIN goals = 1 .. n
      /\ 1 \in 1 .. n /\ 2 \in 1 .. n /\ 1 + 1 = 2
  BY <1>1 DEF Chained
<1>3. /\ new \in Seq(Goals) /\ Len(new) = n - 1 /\ new # <<>> /\ DOMAIN new = 1 .. n - 1
      /\ \A i \in 1 .. n - 1 : new[i] = goals[i + 1]
  <2>1. goals # <<>>
    BY <1>2
  <2>2. new \in Seq(Goals) /\ Len(new) = n - 1 /\ \A i \in 1 .. Len(new) : new[i] = goals[i + 1]
    BY <1>2, <2>1, HeadTailProperties
  <2>. HIDE DEF new
  <2>. QED  BY <1>2, <2>2
<1>4. T \in [1 .. n -> Places] /\ T[2] \in Places
  BY <1>1, <1>2 DEF Chained
<1>5. PICK y \in Seq(Words), v \in Nat : T[2] = Place(y, v)
  BY <1>4 DEF Places, Place
<1>6. Shaped(goals[1]) /\ Links(goals[1], goals[2], st, Place(x, u), Place(y, v))
  BY <1>1, <1>2, <1>5 DEF Chained
<1>7. C \in [1 .. n - 1 -> Places] /\ C[1] = Place(y, v) /\ \A i \in 1 .. n - 1 : C[i] = T[i + 1]
  BY <1>2, <1>4, <1>5
<1>. HIDE DEF C, new
<1>8. ASSUME NEW i \in 1 .. n - 1
      PROVE  /\ Shaped(new[i])
             /\ IsBottom(new[i]) => C[i] = Place(st.written.printed, 0)
             /\ i + 1 \in 1 .. n - 1 => Links(new[i], new[i + 1], st, C[i], C[i + 1])
  <2>1. i + 1 \in 1 .. n
    BY <1>2
  <2>2. i + 1 \in 1 .. n - 1 => (i + 1) + 1 \in 1 .. n
    BY <1>2
  <2>3. /\ Shaped(goals[i + 1])
        /\ IsBottom(goals[i + 1]) => T[i + 1] = Place(st.written.printed, 0)
        /\ (i + 1) + 1 \in 1 .. n =>
             Links(goals[i + 1], goals[(i + 1) + 1], st, T[i + 1], T[(i + 1) + 1])
    BY <1>1, <1>2, <2>1 DEF Chained
  <2>. QED  BY <1>3, <1>7, <2>2, <2>3
<1>9. \A i, j \in 1 .. n - 1 : i <= j => C[j].used <= C[i].used
  <2>. SUFFICES ASSUME NEW i \in 1 .. n - 1, NEW j \in 1 .. n - 1, i <= j
                PROVE  C[j].used <= C[i].used
    OBVIOUS
  <2>1. i + 1 \in 1 .. n /\ j + 1 \in 1 .. n /\ i + 1 <= j + 1
    BY <1>2
  <2>. QED  BY <1>1, <1>2, <1>7, <2>1 DEF Chained
<1>10. IsBottom(new[n - 1])
  <2>1. n - 1 \in 1 .. n - 1 /\ (n - 1) + 1 = n
    BY <1>2
  <2>. QED  BY <1>1, <1>3, <2>1 DEF Chained
<1>11. Chained(new, st, C)
  BY <1>3, <1>7, <1>8, <1>9, <1>10 DEF Chained
<1>. QED  BY <1>5, <1>6, <1>7, <1>11 DEF Waits, new

(* Goals depend on the operands that they will take alone.                 *)
LEMMA SameSubSeq ==
  ASSUME NEW a, NEW b, NEW i \in Nat, NEW j \in Nat, \A k \in 1 .. j : a[k] = b[k], i >= 1
  PROVE  SubSeq(a, i, j) = SubSeq(b, i, j)
<1>. DEFINE S == {a[k] : k \in 1 .. j}
            x == SubSeq(a, i, j)
            y == SubSeq(b, i, j)
<1>1. (\A k \in i .. j : a[k] \in S) /\ (\A k \in i .. j : b[k] \in S)
  OBVIOUS
<1>. HIDE DEF S
<1>2. /\ x \in Seq(S) /\ Len(x) = (IF i <= j THEN j - i + 1 ELSE 0)
      /\ \A k \in 1 .. j - i + 1 : x[k] = a[i + k - 1]
  BY <1>1, SubSeqProperties
<1>3. /\ y \in Seq(S) /\ Len(y) = (IF i <= j THEN j - i + 1 ELSE 0)
      /\ \A k \in 1 .. j - i + 1 : y[k] = b[i + k - 1]
  BY <1>1, SubSeqProperties
<1>4. \A k \in 1 .. j - i + 1 : i + k - 1 \in 1 .. j
  OBVIOUS
<1>. HIDE DEF x, y
<1>5. \A k \in 1 .. Len(x) : x[k] = y[k]
  BY <1>2, <1>3, <1>4
<1>6. x = y
  BY <1>2, <1>3, <1>5, SeqEqual
<1>. QED  BY <1>6 DEF x, y

LEMMA SameBelow ==
  ASSUME NEW goals, NEW st \in States, NEW x, NEW u \in Nat, Waits(goals, st, x, u),
         NEW new \in States, new.written.printed = st.written.printed,
         new.written.close = st.written.close, u <= Len(new.written.operands),
         \A k \in 1 .. u : /\ new.written.operands[k] = st.written.operands[k]
                           /\ new.levels[k] = st.levels[k]
  PROVE  Waits(goals, new, x, u)
<1>1. PICK T : Chained(goals, st, T) /\ T[1] = Place(x, u)
  BY DEF Waits
<1>2. goals \in Seq(Goals) /\ goals # <<>> /\ 1 \in DOMAIN goals /\ DOMAIN goals = 1 .. Len(goals)
      /\ T \in [DOMAIN goals -> Places]
  BY <1>1 DEF Chained
<1>3. \A i \in DOMAIN goals : T[i].used <= u /\ T[i].used \in Nat
  <2>1. \A i \in DOMAIN goals : T[i].used <= T[1].used
    BY <1>1, <1>2 DEF Chained
  <2>2. T[1].used = u
    BY <1>1 DEF Place
  <2>. QED  BY <1>2, <2>1, <2>2 DEF Places
<1>4. ASSUME NEW i \in DOMAIN goals, i + 1 \in DOMAIN goals
      PROVE  Links(goals[i], goals[i + 1], new, T[i], T[i + 1])
  <2>. DEFINE g == goals[i]
              t == T[i]
              s == T[i + 1]
              a == st.written.operands
              b == new.written.operands
  <2>1. Links(g, goals[i + 1], st, t, s)
    BY <1>1, <1>4 DEF Chained
  <2>2. t.used \in Nat /\ s.used \in Nat /\ t.used <= u /\ s.used <= t.used
    BY <1>1, <1>2, <1>3, <1>4 DEF Chained
  <2>3. SubSeq(a, s.used + 1, t.used) = SubSeq(b, s.used + 1, t.used)
    <3>1. \A k \in 1 .. t.used : a[k] = b[k]
      BY <2>2
    <3>2. s.used + 1 \in Nat /\ s.used + 1 >= 1
      BY <2>2
    <3>. DEFINE v == s.used + 1
                w == t.used
    <3>3. v \in Nat /\ w \in Nat /\ v >= 1 /\ \A k \in 1 .. w : a[k] = b[k]
      BY <2>2, <3>1, <3>2
    <3>. HIDE DEF a, b, s, t, v, w
    <3>4. SubSeq(a, v, w) = SubSeq(b, v, w)
      BY <3>3, SameSubSeq
    <3>. QED  BY <3>4 DEF v, w
  <2>4. Len(b) \in Nat
    BY DEF States
  <2>5. Kind(g) \in {"infix", "RightOf"} => new.levels[t.used] >= Level(g)
    <3>. SUFFICES ASSUME Kind(g) \in {"infix", "RightOf"} PROVE new.levels[t.used] >= Level(g)
      OBVIOUS
    <3>1. Uses(g) = 1
      BY DEF Uses
    <3>2. t.used >= 1 /\ st.levels[t.used] >= Level(g)
      BY <2>1, <2>2, <3>1 DEF Links
    <3>3. t.used \in 1 .. u
      BY <2>2, <3>2
    <3>. QED  BY <3>2, <3>3
  <2>. HIDE DEF g, t, s
  <2>6. t.used <= Len(b)
    BY <2>2, <2>4
  <2>7. Links(g, goals[i + 1], new, t, s)
    BY <2>1, <2>3, <2>5, <2>6 DEF Links
  <2>. QED  BY <2>7 DEF g, t, s
<1>5. Chained(goals, new, T)
  BY <1>1, <1>4 DEF Chained
<1>. QED  BY <1>1, <1>5 DEF Waits

-----------------------------------------------------------------------------
(* Texts and the nodes that they are of                                    *)

LEMMA TokenWords ==
  /\ Tokens \subseteq Words /\ VarNames \subseteq Words /\ FuncNames \subseteq Words
  /\ Types \subseteq Words /\ Punctuation \subseteq Words /\ InfixOps \subseteq Words
  /\ {"-", "operator", "return", "if", "while", "else"} \subseteq Words
  /\ Seq(Tokens) \subseteq Seq(Words)
<1>1. Tokens \subseteq Words /\ VarNames \subseteq Words /\ FuncNames \subseteq Words
  BY DEF Words
<1>2. Types \subseteq Tokens /\ Punctuation \subseteq Tokens /\ InfixOps \subseteq Tokens
      /\ {"-", "operator", "return", "if", "while", "else"} \subseteq Tokens
  BY DEF Types, Punctuation, InfixOps, Tokens, Keywords, Operators
<1>3. Seq(Tokens) \subseteq Seq(Words)
  BY <1>1
<1>. QED  BY <1>1, <1>2, <1>3

LEMMA OneWord ==
  ASSUME NEW S, NEW x \in S
  PROVE  <<x>> \in Seq(S)
  OBVIOUS

LEMMA TwoWords ==
  ASSUME NEW S, NEW x \in S, NEW y \in S
  PROVE  <<x, y>> \in Seq(S)
  OBVIOUS

LEMMA ThreeWords ==
  ASSUME NEW S, NEW x \in S, NEW y \in S, NEW z \in S
  PROVE  <<x, y, z>> \in Seq(S)
  OBVIOUS

(* What a node of some kind has.                                           *)
LEMMA TreeFields ==
  ASSUME NEW node \in TreeNodes
  PROVE  /\ node.n = "Func" => node.def \in FuncDefs
         /\ node.n = "Decl" => node.name \in VarNames /\ node.type \in Types /\ node.init \in BOOLEAN
         /\ node.n \in {"Assign", "Var"} => node.name \in VarNames
         /\ node.n = "Const" => node.text \in Tokens
         /\ node.n = "Call" => node.name \in Tokens /\ node.args \in Nat /\ node.form \in Forms
         /\ node.n \in Marks \cup {"Paren", "Func", "Decl", "Assign", "If", "Const", "Var", "Call"}
<1>1. node.n = "Func" => node.def \in FuncDefs
  BY DEF TreeNodes, Marks
<1>2. node.n = "Decl" => node.name \in VarNames /\ node.type \in Types /\ node.init \in BOOLEAN
  BY DEF TreeNodes, Marks
<1>3. node.n \in {"Assign", "Var"} => node.name \in VarNames
  BY DEF TreeNodes, Marks
<1>4. node.n = "Const" => node.text \in Tokens
  BY DEF TreeNodes, Marks
<1>5. node.n = "Call" => node.name \in Tokens /\ node.args \in Nat /\ node.form \in Forms
  BY DEF TreeNodes, Marks
<1>6. node.n \in Marks \cup {"Paren", "Func", "Decl", "Assign", "If", "Const", "Var", "Call"}
  BY DEF TreeNodes
<1>. QED  BY <1>1, <1>2, <1>3, <1>4, <1>5, <1>6

(* The state of a tree with one more node.                                 *)
LEMMA StateEmpty == State(<<>>) = [written |-> Nothing, levels |-> <<>>] /\ State(<<>>) \in States
<1>1. Folded(<<>>, 0, "source") = Nothing /\ Folded(<<>>, 0, "levels") = <<>>
  BY FoldEmpty DEF Start
<1>2. Len(<<>>) = 0
  OBVIOUS
<1>3. State(<<>>) = [written |-> Nothing, levels |-> <<>>]
  BY <1>1, <1>2 DEF State, Written, Levels
<1>4. [written |-> Nothing, levels |-> <<>>] \in States
  BY DEF Nothing, States
<1>. QED  BY <1>3, <1>4

LEMMA StateNext ==
  ASSUME NEW nodes \in Seq(TreeNodes), NEW node \in TreeNodes
  PROVE  State(nodes \o <<node>>) = After(State(nodes), node)
<1>. DEFINE new == nodes \o <<node>>
            n == Len(nodes)
<1>1. n \in Nat /\ Len(new) = n + 1 /\ new[n + 1] = node /\ \A i \in 1 .. n : new[i] = nodes[i]
  OBVIOUS
<1>. HIDE DEF new, n
<1>2. ASSUME NEW kind PROVE Folded(new, n + 1, kind) = Step(kind, Folded(nodes, n, kind), node)
  <2>1. Folded(new, n, kind) = Folded(nodes, n, kind)
    BY <1>1, SameFold
  <2>2. Folded(new, n + 1, kind) = Step(kind, Folded(new, n, kind), new[n + 1])
    BY <1>1, FoldNext
  <2>. QED  BY <1>1, <2>1, <2>2
<1>3. Written(new) = PrintNode(Written(nodes), node, TRUE)
  <2>1. Written(new) = Step("source", Written(nodes), node)
    BY <1>1, <1>2 DEF Written, n
  <2>. QED  BY <2>1 DEF Step
<1>4. Levels(new) = Binding(Levels(nodes), node)
  <2>1. Levels(new) = Step("levels", Levels(nodes), node)
    BY <1>1, <1>2 DEF Levels, n
  <2>. QED  BY <2>1 DEF Step
<1>. QED  BY <1>3, <1>4 DEF State, After, new

(* An if gets its else branch.                                             *)
LEMMA StateElse ==
  ASSUME NEW nodes \in Seq(TreeNodes), NEW k \in DOMAIN nodes, nodes[k].n = "If"
  PROVE  LET new == [nodes EXCEPT ![k].else = TRUE] IN
         new \in Seq(TreeNodes) /\ State(new) = State(nodes)
<1>. DEFINE new == [nodes EXCEPT ![k].else = TRUE]
            n == Len(nodes)
<1>1. nodes[k] \in TreeNodes
  OBVIOUS
<1>2. [nodes[k] EXCEPT !.else = TRUE] \in TreeNodes /\ [nodes[k] EXCEPT !.else = TRUE].n = "If"
  BY <1>1, ElseKeepsIf
<1>3. /\ new \in Seq(TreeNodes) /\ Len(new) = n
      /\ \A i \in 1 .. n : new[i] = nodes[i] \/ (nodes[i].n = "If" /\ new[i].n = "If")
  <2>1. new = [nodes EXCEPT ![k] = [nodes[k] EXCEPT !.else = TRUE]]
    OBVIOUS
  <2>2. k \in 1 .. n
    OBVIOUS
  <2>3. /\ new \in Seq(TreeNodes) /\ Len(new) = n
        /\ \A i \in 1 .. n : new[i] = IF i = k THEN [nodes[k] EXCEPT !.else = TRUE] ELSE nodes[i]
    BY <1>2, <2>1, <2>2, ExceptSeq
  <2>. HIDE DEF new
  <2>. QED  BY <1>2, <2>3
<1>. HIDE DEF new
<1>4. ASSUME NEW a, NEW b, a = b \/ (a.n = "If" /\ b.n = "If")
      PROVE  /\ \A y : Step("source", y, a) = Step("source", y, b)
             /\ \A y : Step("levels", y, a) = Step("levels", y, b)
  <2>1. CASE a = b
    BY <2>1
  <2>2. CASE a.n = "If" /\ b.n = "If"
    <3>1. \A y : PrintNode(y, a, TRUE) = PrintNode(y, b, TRUE)
      BY <2>2 DEF PrintNode
    <3>2. \A y : Binding(y, a) = Binding(y, b)
      BY <2>2 DEF Binding
    <3>. QED  BY <3>1, <3>2 DEF Step
  <2>. QED  BY <1>4, <2>1, <2>2
<1>5. n \in Nat
  OBVIOUS
<1>6. Folded(new, n, "source") = Folded(nodes, n, "source")
  <2>1. \A i \in 1 .. n : \A y : Step("source", y, new[i]) = Step("source", y, nodes[i])
    BY <1>3, <1>4
  <2>. HIDE DEF n
  <2>. QED  BY <1>5, <2>1, SameFold
<1>7. Folded(new, n, "levels") = Folded(nodes, n, "levels")
  <2>1. \A i \in 1 .. n : \A y : Step("levels", y, new[i]) = Step("levels", y, nodes[i])
    BY <1>3, <1>4
  <2>. HIDE DEF n
  <2>. QED  BY <1>5, <2>1, SameFold
<1>. QED  BY <1>3, <1>6, <1>7 DEF State, Written, Levels, new

-----------------------------------------------------------------------------
(* Lists of texts                                                          *)

LEMMA ListFolds ==
  ASSUME NEW S, NEW texts \in Seq(S), NEW t \in S
  PROVE  CommaList(Append(texts, t)) = Step("list", CommaList(texts), t)
<1>. DEFINE new == Append(texts, t)
            n == Len(texts)
<1>1. new \in Seq(S) /\ n \in Nat /\ Len(new) = n + 1 /\ new[n + 1] = t
      /\ \A i \in 1 .. n : new[i] = texts[i]
  OBVIOUS
<1>2. CommaList(new) = Folded(new, n + 1, "list") /\ CommaList(texts) = Folded(texts, n, "list")
  BY <1>1, ListIsFolded
<1>. HIDE DEF new, n
<1>3. Folded(new, n, "list") = Folded(texts, n, "list")
  BY <1>1, SameFold
<1>4. Folded(new, n + 1, "list") = Step("list", Folded(new, n, "list"), new[n + 1])
  BY <1>1, FoldNext
<1>. QED  BY <1>1, <1>2, <1>3, <1>4 DEF new

LEMMA ListEmpty == CommaList(<<>>) = <<>>
<1>1. <<>> \in Seq({}) /\ Len(<<>>) = 0
  OBVIOUS
<1>2. CommaList(<<>>) = Folded(<<>>, 0, "list")
  BY <1>1, ListIsFolded
<1>. QED  BY <1>2, FoldEmpty DEF Start

(* A list of texts is a text, and it is empty if there are none.           *)
LEMMA ListTyped ==
  ASSUME NEW texts \in Seq(Texts)
  PROVE  CommaList(texts) \in Seq(Words) /\ (texts # <<>> => CommaList(texts) # <<>>)
<1>. DEFINE n == Len(texts)
<1>1. n \in Nat /\ \A i \in 1 .. n : texts[i] \in Texts
  OBVIOUS
<1>2. PICK g : /\ g[0] = Start("list")
               /\ \A i \in 1 .. n : g[i] = Step("list", g[i - 1], texts[i])
               /\ g[n] = Folded(texts, n, "list")
  BY <1>1, FoldValues
<1>. DEFINE S == {i \in 0 .. n : g[i] \in Seq(Words) /\ (i # 0 => g[i] # <<>>)}
<1>3. 0 \in S
  <2>1. g[0] = <<>>
    BY <1>2 DEF Start
  <2>2. <<>> \in Seq(Words) /\ 0 \in 0 .. n
    BY <1>1
  <2>. QED  BY <2>1, <2>2
<1>4. ASSUME NEW i \in 0 .. n - 1, i \in S PROVE i + 1 \in S
  <2>1. i + 1 \in 1 .. n /\ (i + 1) - 1 = i /\ g[i] \in Seq(Words)
    BY <1>4
  <2>. DEFINE t == texts[i + 1]
              y == g[i]
  <2>2. t \in Seq(Words) /\ t # <<>>
    BY <1>1, <2>1 DEF Texts
  <2>3. g[i + 1] = IF y = <<>> THEN t ELSE y \o <<",">> \o t
    BY <1>2, <2>1 DEF Step
  <2>4. <<",">> \in Seq(Words)
    <3>1. "," \in Words
      BY TokenWords DEF Punctuation
    <3>. QED  BY <3>1, OneWord
  <2>. HIDE DEF t, y
  <2>5. ASSUME NEW a \in Seq(Words), NEW b \in Seq(Words), b # <<>>
        PROVE  a \o b \in Seq(Words) /\ a \o b # <<>>
    BY <2>5
  <2>6. y \o <<",">> \o t \in Seq(Words) /\ y \o <<",">> \o t # <<>>
    BY <2>1, <2>2, <2>4, <2>5 DEF y
  <2>7. g[i + 1] \in Seq(Words) /\ g[i + 1] # <<>> /\ i + 1 \in 0 .. n
    <3>1. i + 1 \in 0 .. n
      BY <1>1
    <3>2. g[i + 1] = t \/ g[i + 1] = y \o <<",">> \o t
      BY <2>3
    <3>. QED  BY <2>2, <2>6, <3>1, <3>2
  <2>. QED  BY <2>7
<1>. HIDE DEF S, n
<1>5. n \in S
  <2>1. \A i \in 0 .. n : i \in S
    BY <1>1, <1>3, <1>4, UpTo
  <2>. QED  BY <1>1, <2>1
<1>6. CommaList(texts) = Folded(texts, n, "list")
  BY ListIsFolded DEF n
<1>7. texts # <<>> => n # 0
  BY DEF n
<1>. QED  BY <1>2, <1>5, <1>6, <1>7 DEF S

LEMMA ListNext ==
  ASSUME NEW texts \in Seq(Texts), NEW t \in Texts
  PROVE  CommaList(Append(texts, t)) =
           IF texts = <<>> THEN t ELSE CommaList(texts) \o <<",">> \o t
<1>1. CommaList(Append(texts, t)) = Step("list", CommaList(texts), t)
  BY ListFolds
<1>2. CommaList(texts) = <<>> <=> texts = <<>>
  BY ListTyped, ListEmpty
<1>. QED  BY <1>1, <1>2 DEF Step

-----------------------------------------------------------------------------
(* What a node adds to the state                                           *)

LEMMA StateFields ==
  ASSUME NEW st \in States
  PROVE  /\ st = [written |-> st.written, levels |-> st.levels]
         /\ st.written = [printed |-> st.written.printed, operands |-> st.written.operands,
                          close |-> st.written.close]
         /\ st.written.printed \in Seq(Words) /\ st.written.close \in Seq(Words)
         /\ st.written.operands \in Seq(Texts) /\ st.levels \in Seq(Precedences)
         /\ Len(st.levels) = Len(st.written.operands) /\ Len(st.levels) \in Nat
         /\ st.levels # Loose
<1>1. /\ st = [written |-> st.written, levels |-> st.levels]
      /\ st.written = [printed |-> st.written.printed, operands |-> st.written.operands,
                       close |-> st.written.close]
      /\ st.written.printed \in Seq(Words) /\ st.written.close \in Seq(Words)
      /\ st.written.operands \in Seq(Texts) /\ st.levels \in Seq(Precedences)
      /\ Len(st.levels) = Len(st.written.operands)
  BY DEF States
<1>2. st.levels # Loose
  <2>. SUFFICES ASSUME st.levels = Loose PROVE FALSE
    OBVIOUS
  <2>1. Len(st.levels) = 1 /\ st.levels[1] = -1
    BY DEF Loose
  <2>. DEFINE a == st.levels
  <2>2. a[1] \in Precedences
    <3>1. a \in Seq(Precedences) /\ 1 \in 1 .. Len(a)
      BY <1>1, <2>1
    <3>. HIDE DEF a
    <3>. QED  BY <3>1, ElementOfSeq
  <2>. QED  BY <2>1, <2>2 DEF Precedences
<1>3. Len(st.levels) \in Nat
  BY <1>1
<1>. QED  BY <1>1, <1>2, <1>3

\* The operands from v on have become one more, a text that binds as tightly as
\* that.
Valued(st, new, v, text, level) ==
  /\ new \in States
  /\ new.written.printed = st.written.printed /\ new.written.close = st.written.close
  /\ Len(new.levels) = v + 1
  /\ \A k \in 1 .. v : /\ new.written.operands[k] = st.written.operands[k]
                       /\ new.levels[k] = st.levels[k]
  /\ new.written.operands[v + 1] = text /\ new.levels[v + 1] = level

\* A text has been printed, and there are no operands.
Stated(st, new, text) ==
  /\ new \in States /\ new.levels = <<>>
  /\ new.written.printed = st.written.printed \o text

LEMMA Replacing ==
  ASSUME NEW S, NEW s \in Seq(S), NEW v \in 0 .. Len(s), NEW x \in S
  PROVE  LET new == Append(SubSeq(s, 1, v), x) IN
         /\ new \in Seq(S) /\ Len(new) = v + 1 /\ new[v + 1] = x
         /\ \A k \in 1 .. v : new[k] = s[k]
<1>. DEFINE a == SubSeq(s, 1, v)
            new == Append(a, x)
<1>1. \A i \in 1 .. v : s[i] \in S
  OBVIOUS
<1>2. a \in Seq(S) /\ Len(a) = v /\ \A k \in 1 .. v : a[k] = s[k]
  <2>1. /\ a \in Seq(S) /\ Len(a) = (IF 1 <= v THEN v - 1 + 1 ELSE 0)
        /\ \A k \in 1 .. v - 1 + 1 : a[k] = s[1 + k - 1]
    BY <1>1, SubSeqProperties
  <2>2. v \in Nat
    OBVIOUS
  <2>3. Len(a) = v
    BY <2>1, <2>2
  <2>4. \A k \in 1 .. v : k \in 1 .. v - 1 + 1 /\ 1 + k - 1 = k
    BY <2>2
  <2>5. \A k \in 1 .. v : a[k] = s[k]
    <3>. HIDE DEF a
    <3>. QED  BY <2>1, <2>4
  <2>. QED  BY <2>1, <2>3, <2>5
<1>. HIDE DEF a
<1>3. new \in Seq(S) /\ Len(new) = v + 1 /\ new[v + 1] = x /\ \A k \in 1 .. v : new[k] = a[k]
  BY <1>2, AppendProperties
<1>. QED  BY <1>2, <1>3 DEF a

LEMMA ValuedIf ==
  ASSUME NEW st \in States, NEW operands \in Seq(Texts), NEW levels \in Seq(Precedences),
         NEW new, new = [written |-> [printed |-> st.written.printed, operands |-> operands,
                                      close |-> st.written.close],
                         levels |-> levels],
         NEW v \in Nat, Len(operands) = v + 1, Len(levels) = v + 1,
         \A k \in 1 .. v : operands[k] = st.written.operands[k] /\ levels[k] = st.levels[k]
  PROVE  Valued(st, new, v, operands[v + 1], levels[v + 1])
<1>1. new \in States
  BY StateFields DEF States
<1>. QED  BY <1>1 DEF Valued

(* The operands are replaced from the one behind v on.                     *)
LEMMA ValuedFrom ==
  ASSUME NEW st \in States, NEW v \in 0 .. Len(st.levels), NEW text \in Texts,
         NEW level \in Precedences, NEW new,
         new = [written |-> [printed |-> st.written.printed,
                             operands |-> Append(SubSeq(st.written.operands, 1, v), text),
                             close |-> st.written.close],
                levels |-> Append(SubSeq(st.levels, 1, v), level)]
  PROVE  Valued(st, new, v, text, level)
<1>. DEFINE a == st.written.operands
            b == st.levels
            operands == Append(SubSeq(a, 1, v), text)
            levels == Append(SubSeq(b, 1, v), level)
<1>1. a \in Seq(Texts) /\ b \in Seq(Precedences) /\ v \in 0 .. Len(a) /\ v \in 0 .. Len(b) /\ v \in Nat
  <2>1. a \in Seq(Texts) /\ b \in Seq(Precedences) /\ Len(b) = Len(a)
    BY StateFields
  <2>2. v \in 0 .. Len(b)
    OBVIOUS
  <2>. HIDE DEF a, b
  <2>. QED  BY <2>1, <2>2
<1>2. operands \in Seq(Texts) /\ Len(operands) = v + 1 /\ operands[v + 1] = text
      /\ \A k \in 1 .. v : operands[k] = a[k]
  <2>. HIDE DEF a
  <2>. QED  BY <1>1, Replacing
<1>3. levels \in Seq(Precedences) /\ Len(levels) = v + 1 /\ levels[v + 1] = level
      /\ \A k \in 1 .. v : levels[k] = b[k]
  <2>. HIDE DEF b
  <2>. QED  BY <1>1, Replacing
<1>4. new = [written |-> [printed |-> st.written.printed, operands |-> operands,
                          close |-> st.written.close],
             levels |-> levels]
  OBVIOUS
<1>. HIDE DEF operands, levels
<1>5. Valued(st, new, v, operands[v + 1], levels[v + 1])
  BY <1>1, <1>2, <1>3, <1>4, ValuedIf
<1>. QED  BY <1>2, <1>3, <1>5

LEMMA OperandText ==
  ASSUME NEW w, NEW printed, NEW operands, NEW close, NEW text,
         w = [printed |-> printed, operands |-> operands, close |-> close]
  PROVE  Operand(w, text) = [printed |-> printed, operands |-> Append(operands, text),
                             close |-> close]
  BY DEF Operand

LEMMA LeafValue ==
  ASSUME NEW st \in States, NEW node \in TreeNodes, node.n \in {"Const", "Var"}
  PROVE  Valued(st, After(st, node), Len(st.levels),
                <<IF node.n = "Const" THEN node.text ELSE node.name>>, Primary)
<1>. DEFINE t == <<IF node.n = "Const" THEN node.text ELSE node.name>>
            a == st.written.operands
            b == st.levels
            n == Len(b)
            new == After(st, node)
<1>1. t \in Texts
  <2>1. (IF node.n = "Const" THEN node.text ELSE node.name) \in Words
    BY TreeFields, TokenWords
  <2>2. t \in Seq(Words) /\ t # <<>>
    BY <2>1, OneWord
  <2>. QED  BY <2>2 DEF Texts
<1>2. a \in Seq(Texts) /\ b \in Seq(Precedences) /\ n \in 0 .. n /\ Len(a) = n /\ b # Loose
  <2>1. /\ a \in Seq(Texts) /\ b \in Seq(Precedences) /\ n \in Nat /\ n = Len(a)
        /\ b # Loose
    BY StateFields
  <2>. HIDE DEF a, b, n
  <2>. QED  BY <2>1
<1>3. SubSeq(a, 1, n) = a /\ SubSeq(b, 1, n) = b
  BY <1>2, SubSeqFull
<1>4. new.written = [printed |-> st.written.printed, operands |-> Append(a, t),
                     close |-> st.written.close]
  <2>1. PrintNode(st.written, node, TRUE) = Operand(st.written, t)
    BY DEF PrintNode
  <2>2. Operand(st.written, t) = [printed |-> st.written.printed, operands |-> Append(a, t),
                                  close |-> st.written.close]
    <3>. HIDE DEF t
    <3>1. st.written = [printed |-> st.written.printed, operands |-> a, close |-> st.written.close]
      BY StateFields
    <3>. HIDE DEF a
    <3>. QED  BY <3>1, OperandText
  <2>. QED  BY <2>1, <2>2 DEF After
<1>5. new.levels = Append(b, Primary)
  BY <1>2 DEF After, Binding
<1>6. new = [written |-> new.written, levels |-> new.levels]
  BY DEF After
<1>7. Primary \in Precedences
  BY DEF Primary, Precedences
<1>. HIDE DEF a, b, t, new, n
<1>8. new = [written |-> [printed |-> st.written.printed,
                             operands |-> Append(SubSeq(a, 1, n), t),
                             close |-> st.written.close],
             levels |-> Append(SubSeq(b, 1, n), Primary)]
  BY <1>3, <1>4, <1>5, <1>6
<1>9. n \in 0 .. Len(st.levels)
  BY <1>2 DEF n, b
<1>10. Valued(st, new, n, t, Primary)
  BY <1>1, <1>7, <1>8, <1>9, ValuedFrom DEF a, b
<1>. QED  BY <1>10 DEF n, b, t, new

LEMMA JoinedWords ==
  ASSUME NEW x \in Seq(Words), NEW y \in Seq(Words)
  PROVE  x \o y \in Seq(Words) /\ (x # <<>> \/ y # <<>> => x \o y # <<>>)
<1>1. x \o y \in Seq(Words) /\ Len(x \o y) = Len(x) + Len(y)
  BY ConcatProperties
<1>2. (x # <<>> => Len(x) # 0) /\ (y # <<>> => Len(y) # 0) /\ Len(x) \in Nat /\ Len(y) \in Nat
  BY EmptySeq
<1>. DEFINE z == x \o y
<1>3. z = <<>> => Len(z) = 0
  OBVIOUS
<1>. HIDE DEF z
<1>4. x # <<>> \/ y # <<>> => z # <<>>
  BY <1>1, <1>2, <1>3 DEF z
<1>. QED  BY <1>1, <1>4 DEF z

LEMMA CallValue ==
  ASSUME NEW st \in States, NEW node \in TreeNodes, node.n = "Call",
         node.args <= Len(st.levels), NEW v, v = Len(st.levels) - node.args,
         NEW text \in Texts,
         text = SourceCall(node, SubSeq(st.written.operands, v + 1, Len(st.levels))),
         NEW level \in Precedences,
         Binding(st.levels, node) = Append(SubSeq(st.levels, 1, v), level)
  PROVE  Valued(st, After(st, node), v, text, level)
<1>. DEFINE a == st.written.operands
            b == st.levels
            n == Len(b)
            new == After(st, node)
<1>1. n \in Nat /\ Len(a) = n /\ node.args \in Nat /\ v \in 0 .. n
  <2>1. n \in Nat /\ Len(a) = n
    BY StateFields
  <2>2. node.args \in Nat
    BY TreeFields
  <2>. HIDE DEF a
  <2>. QED  BY <2>1, <2>2
<1>2. PrintNode(st.written, node, TRUE)
        = [st.written EXCEPT !.operands =
             Append(SubSeq(@, 1, n - node.args), SourceCall(node, SubSeq(@, n - node.args + 1, n)))]
  <2>1. Len(st.written.operands) = n
    BY <1>1
  <2>. HIDE DEF n
  <2>. QED  BY <2>1 DEF PrintNode
<1>3. new.written = [printed |-> st.written.printed, operands |-> Append(SubSeq(a, 1, v), text),
                     close |-> st.written.close]
  <2>1. st.written = [printed |-> st.written.printed, operands |-> a, close |-> st.written.close]
    BY StateFields
  <2>2. ASSUME NEW w, NEW p, NEW o, NEW c, w = [printed |-> p, operands |-> o, close |-> c], NEW x
        PROVE  [w EXCEPT !.operands = x] = [printed |-> p, operands |-> x, close |-> c]
    BY <2>2
  <2>3. n - node.args = v /\ text = SourceCall(node, SubSeq(a, v + 1, n))
    OBVIOUS
  <2>4. new.written = PrintNode(st.written, node, TRUE)
    BY DEF After
  <2>. DEFINE x == Append(SubSeq(a, 1, n - node.args), SourceCall(node, SubSeq(a, n - node.args + 1, n)))
  <2>5. new.written = [st.written EXCEPT !.operands = x]
    BY <1>2, <2>4
  <2>6. x = Append(SubSeq(a, 1, v), text)
    <3>. HIDE DEF a, n
    <3>. QED  BY <2>3
  <2>. HIDE DEF a, n, new, x
  <2>7. [st.written EXCEPT !.operands = x]
          = [printed |-> st.written.printed, operands |-> x, close |-> st.written.close]
    <3>. DEFINE w == st.written
                p == w.printed
                c == w.close
    <3>1. w = [printed |-> p, operands |-> a, close |-> c]
      BY <2>1
    <3>. HIDE DEF w, p, c
    <3>2. [w EXCEPT !.operands = x] = [printed |-> p, operands |-> x, close |-> c]
      BY <2>2, <3>1
    <3>. QED  BY <3>2 DEF w, p, c
  <2>. QED  BY <2>5, <2>6, <2>7
<1>4. new = [written |-> new.written, levels |-> Append(SubSeq(b, 1, v), level)]
  BY DEF After
<1>. HIDE DEF new
<1>5. new = [written |-> [printed |-> st.written.printed, operands |-> Append(SubSeq(a, 1, v), text),
                          close |-> st.written.close],
             levels |-> Append(SubSeq(b, 1, v), level)]
  BY <1>3, <1>4
<1>6. Valued(st, new, v, text, level)
  BY <1>1, <1>5, ValuedFrom
<1>. QED  BY <1>6 DEF new

(* A call with a list of arguments.                                        *)
LEMMA ArgsValue ==
  ASSUME NEW st \in States, NEW node \in TreeNodes, node.n = "Call", node.form = "args",
         node.args <= Len(st.levels), NEW v, v = Len(st.levels) - node.args
  PROVE  LET text == CallText(node, SubSeq(st.written.operands, v + 1, Len(st.levels))) IN
         text \in Texts /\ Valued(st, After(st, node), v, text, Primary)
<1>. DEFINE a == st.written.operands
            n == Len(st.levels)
            args == SubSeq(a, v + 1, n)
            text == CallText(node, args)
<1>1. n \in Nat /\ Len(a) = n /\ node.args \in Nat /\ v \in 0 .. n /\ a \in Seq(Texts)
  <2>1. n \in Nat /\ Len(a) = n /\ a \in Seq(Texts)
    BY StateFields
  <2>2. node.args \in Nat
    BY TreeFields
  <2>. HIDE DEF a
  <2>. QED  BY <2>1, <2>2
<1>2. args \in Seq(Texts)
  <2>1. \A i \in v + 1 .. n : a[i] \in Texts
    BY <1>1
  <2>. HIDE DEF a, n
  <2>. QED  BY <1>1, <2>1, SubSeqProperties
<1>3. text \in Texts
  <2>1. CommaList(args) \in Seq(Words)
    BY <1>2, ListTyped
  <2>2. node.name \in Words /\ "(" \in Words /\ ")" \in Words
    BY TreeFields, TokenWords DEF Punctuation
  <2>3. <<node.name, "(">> \in Seq(Words) /\ <<")">> \in Seq(Words) /\ Len(<<node.name, "(">>) = 2
    BY <2>2
  <2>. DEFINE c == CommaList(args)
  <2>4. text = (<<node.name, "(">> \o c) \o <<")">>
    BY DEF CallText
  <2>5. <<node.name, "(">> # <<>> /\ <<")">> # <<>>
    OBVIOUS
  <2>. HIDE DEF c, text
  <2>6. text \in Seq(Words) /\ text # <<>>
    BY <2>1, <2>3, <2>4, <2>5, JoinedWords DEF c
  <2>. QED  BY <2>6 DEF Texts
<1>4. SourceCall(node, args) = text
  BY DEF SourceCall
<1>5. Binding(st.levels, node) = Append(SubSeq(st.levels, 1, v), Primary)
  BY StateFields DEF Binding
<1>6. Primary \in Precedences
  BY DEF Primary, Precedences
<1>. HIDE DEF text
<1>7. Valued(st, After(st, node), v, text, Primary)
  BY <1>3, <1>4, <1>5, <1>6, CallValue
<1>. QED  BY <1>3, <1>7 DEF text

LEMMA LastOf ==
  ASSUME NEW S, NEW s \in Seq(S), NEW n \in 1 .. Len(s), n = Len(s)
  PROVE  /\ Append(SubSeq(s, 1, n - 1), s[n]) = s
         /\ SubSeq(s, n, n) = <<s[n]>>
         /\ s[n] \in S
<1>1. n - 1 \in 0 .. Len(s) /\ s[n] \in S
  OBVIOUS
<1>. DEFINE new == Append(SubSeq(s, 1, n - 1), s[n])
<1>2. new \in Seq(S) /\ Len(new) = (n - 1) + 1 /\ new[(n - 1) + 1] = s[n]
      /\ \A k \in 1 .. n - 1 : new[k] = s[k]
  <2>. DEFINE v == n - 1
              x == s[n]
  <2>1. v \in 0 .. Len(s) /\ x \in S
    BY <1>1
  <2>. HIDE DEF v, x
  <2>2. LET c == Append(SubSeq(s, 1, v), x) IN
          c \in Seq(S) /\ Len(c) = v + 1 /\ c[v + 1] = x /\ \A k \in 1 .. v : c[k] = s[k]
    BY <2>1, Replacing
  <2>. QED  BY <2>2 DEF v, x
<1>3. \A k \in 1 .. n : new[k] = s[k]
  <2>. HIDE DEF new
  <2>. QED  BY <1>2
<1>4. new = s
  <2>. HIDE DEF new
  <2>. QED  BY <1>2, <1>3, SeqEqual
<1>5. SubSeq(s, n, n) = <<s[n]>>
  <2>1. SubSeq(s, n, n) = <<s[n]>> \o SubSeq(s, n + 1, n)
    BY SubSeqRecursiveFirst
  <2>2. SubSeq(s, n + 1, n) = <<>>
    BY SubSeqEmpty
  <2>3. <<s[n]>> \o <<>> = <<s[n]>>
    BY <1>1
  <2>. QED  BY <2>1, <2>2, <2>3
<1>. QED  BY <1>1, <1>4, <1>5

(* A prefix operator with its operand.                                     *)
LEMMA PrefixValue ==
  ASSUME NEW st \in States, NEW node \in TreeNodes, node.n = "Call", node.form = "prefix",
         node.args = 1, NEW v \in Nat, Len(st.levels) = v + 1, st.levels[v + 1] = Primary
  PROVE  LET text == <<"-", node.name>> \o st.written.operands[v + 1] IN
         text \in Texts /\ Valued(st, After(st, node), v, text, Primary)
<1>. DEFINE a == st.written.operands
            b == st.levels
            n == Len(b)
            text == <<"-", node.name>> \o a[v + 1]
<1>1. n = v + 1 /\ Len(a) = n /\ a \in Seq(Texts) /\ b \in Seq(Precedences) /\ v + 1 \in 1 .. Len(a)
      /\ v + 1 \in 1 .. Len(b) /\ (v + 1) - 1 = v
  <2>1. Len(a) = n /\ a \in Seq(Texts) /\ b \in Seq(Precedences)
    BY StateFields
  <2>. HIDE DEF a
  <2>. QED  BY <2>1
<1>2. a[v + 1] \in Texts /\ SubSeq(a, v + 1, v + 1) = <<a[v + 1]>>
  <2>. HIDE DEF a
  <2>. QED  BY <1>1, LastOf
<1>3. Append(SubSeq(b, 1, v), b[v + 1]) = b
  <2>. DEFINE m == v + 1
  <2>1. m \in 1 .. Len(b) /\ m = Len(b)
    BY <1>1
  <2>. HIDE DEF b, m
  <2>2. Append(SubSeq(b, 1, m - 1), b[m]) = b
    BY <1>1, <2>1, LastOf
  <2>. QED  BY <1>1, <2>2 DEF m
<1>4. text \in Texts
  <2>1. node.name \in Words /\ "-" \in Words
    BY TreeFields, TokenWords
  <2>2. <<"-", node.name>> \in Seq(Words) /\ Len(<<"-", node.name>>) = 2
    BY <2>1
  <2>3. <<"-", node.name>> # <<>>
    OBVIOUS
  <2>4. a[v + 1] \in Seq(Words)
    BY <1>2 DEF Texts
  <2>. HIDE DEF a
  <2>5. text \in Seq(Words) /\ text # <<>>
    BY <2>2, <2>3, <2>4, JoinedWords
  <2>. QED  BY <2>5 DEF Texts
<1>5. SourceCall(node, SubSeq(a, v + 1, n)) = text
  <2>1. SubSeq(a, v + 1, n)[1] = a[v + 1]
    BY <1>1, <1>2
  <2>. QED  BY <2>1 DEF SourceCall
<1>6. Binding(b, node) = Append(SubSeq(b, 1, v), Primary)
  <2>1. Binding(b, node) = b
    BY <1>1, StateFields DEF Binding
  <2>. QED  BY <1>3, <2>1
<1>7. Primary \in Precedences
  BY DEF Primary, Precedences
<1>8. v = n - node.args /\ node.args <= n
  BY <1>1
<1>. HIDE DEF text
<1>9. Valued(st, After(st, node), v, text, Primary)
  BY <1>4, <1>5, <1>6, <1>7, <1>8, CallValue
<1>. QED  BY <1>4, <1>9 DEF text

LEMMA Levels0To5 ==
  /\ \A op \in InfixOps : Precedence(op) \in 0 .. 5
  /\ \A t \in Tokens : Precedence(t) \in Int /\ Precedence(t) <= 5
  /\ \A t : Precedence(t) >= 0 => t \in InfixOps
<1>1. \A op \in InfixOps : Precedence(op) \in 0 .. 5
  BY DEF InfixOps, Precedence
<1>2. \A t \in Tokens : Precedence(t) \in Int /\ Precedence(t) <= 5
  BY DEF Precedence
<1>3. \A t : Precedence(t) >= 0 => t \in InfixOps
  BY DEF InfixOps, Precedence
<1>. QED  BY <1>1, <1>2, <1>3

\* By the documents no operator binds looser than the code takes it to, and
\* none asks more of its operands.
LEMMA DocumentedLevels ==
  ASSUME NEW op \in InfixOps
  PROVE  /\ Asks(op) = Precedence(op)
         /\ BindsAs(op) \in Precedences /\ BindsAs(op) >= Precedence(op)
  BY DEF InfixOps, Precedence, Precedences, BindsAs, Asks

(* An infix operator with its operands.                                    *)
LEMMA InfixValue ==
  ASSUME NEW st \in States, NEW node \in TreeNodes, node.n = "Call", node.form = "infix",
         node.args = 2, node.name \in InfixOps, NEW v \in Nat, Len(st.levels) = v + 2,
         st.levels[v + 1] >= Precedence(node.name), st.levels[v + 2] > Precedence(node.name)
  PROVE  LET text == st.written.operands[v + 1] \o <<node.name>> \o st.written.operands[v + 2] IN
         text \in Texts /\ Valued(st, After(st, node), v, text, BindsAs(node.name))
<1>. DEFINE a == st.written.operands
            b == st.levels
            n == Len(b)
            text == a[v + 1] \o <<node.name>> \o a[v + 2]
            args == SubSeq(a, v + 1, n)
<1>1. /\ n = v + 2 /\ Len(a) = n /\ a \in Seq(Texts) /\ a[v + 1] \in Texts /\ a[v + 2] \in Texts
      /\ b # Loose
  <2>1. Len(a) = n /\ a \in Seq(Texts) /\ b # Loose
    BY StateFields
  <2>. HIDE DEF a
  <2>2. v + 1 \in 1 .. Len(a) /\ v + 2 \in 1 .. Len(a)
    BY <2>1
  <2>. QED  BY <2>1, <2>2
<1>2. args[1] = a[v + 1] /\ args[2] = a[v + 2]
  <2>1. \A i \in v + 1 .. n : a[i] \in Texts
    <3>. HIDE DEF a, b
    <3>. QED  BY <1>1
  <2>2. n \in Int /\ v + 1 \in Int /\ 1 \in 1 .. n - (v + 1) + 1 /\ 2 \in 1 .. n - (v + 1) + 1
        /\ v + 1 + 1 - 1 = v + 1 /\ v + 1 + 2 - 1 = v + 2
    BY <1>1
  <2>3. \A i \in 1 .. n - (v + 1) + 1 : args[i] = a[v + 1 + i - 1]
    <3>. HIDE DEF a, n
    <3>. QED  BY <2>1, <2>2, SubSeqProperties
  <2>. HIDE DEF a, n, args
  <2>. QED  BY <2>2, <2>3
<1>3. text \in Texts
  <2>1. <<node.name>> \in Seq(Words) /\ <<node.name>> # <<>>
    BY TokenWords, OneWord
  <2>2. a[v + 1] \in Seq(Words) /\ a[v + 1] # <<>> /\ a[v + 2] \in Seq(Words)
    BY <1>1 DEF Texts
  <2>. DEFINE x == a[v + 1] \o <<node.name>>
              y == a[v + 1]
              z == a[v + 2]
              w == <<node.name>>
  <2>3. x \in Seq(Words) /\ x # <<>>
    <3>. HIDE DEF w, y
    <3>. QED  BY <2>1, <2>2, JoinedWords DEF w, y
  <2>. HIDE DEF x, z
  <2>4. x \o z \in Seq(Words) /\ x \o z # <<>>
    BY <2>2, <2>3, JoinedWords DEF z
  <2>5. text \in Seq(Words) /\ text # <<>>
    BY <2>4 DEF x, z
  <2>. QED  BY <2>5 DEF Texts
<1>4. SourceCall(node, args) = text
  <2>. HIDE DEF args, a
  <2>. QED  BY <1>2 DEF SourceCall
<1>5. Binding(b, node) = Append(SubSeq(b, 1, v), BindsAs(node.name))
  <2>1. n = v + 2 /\ n - 1 = v + 1 /\ n - 2 = v
    BY <1>1
  <2>2. b[n - 1] >= Asks(node.name) /\ b[n] > Asks(node.name)
    BY <2>1, DocumentedLevels
  <2>. HIDE DEF b
  <2>. QED  BY <1>1, <2>1, <2>2 DEF Binding
<1>6. BindsAs(node.name) \in Precedences
  BY DocumentedLevels
<1>7. v = n - node.args /\ node.args <= n
  BY <1>1
<1>. HIDE DEF text
<1>8. Valued(st, After(st, node), v, text, BindsAs(node.name))
  BY <1>3, <1>4, <1>5, <1>6, <1>7, CallValue
<1>. QED  BY <1>3, <1>8 DEF text

(* An expression in parentheses.                                           *)
LEMMA ParenValue ==
  ASSUME NEW st \in States, NEW node \in TreeNodes, node.n = "Paren",
         NEW v \in Nat, Len(st.levels) = v + 1
  PROVE  LET text == SourceParen(st.written.operands[v + 1]) IN
         text \in Texts /\ Valued(st, After(st, node), v, text, Primary)
<1>. DEFINE a == st.written.operands
            b == st.levels
            n == Len(b)
            text == SourceParen(a[n])
            new == After(st, node)
            operands == [a EXCEPT ![n] = text]
            levels == [b EXCEPT ![n] = Primary]
<1>1. /\ n = v + 1 /\ n \in Nat /\ Len(a) = n /\ a \in Seq(Texts) /\ b \in Seq(Precedences)
      /\ n \in 1 .. Len(a) /\ n \in 1 .. Len(b) /\ b # Loose
  <2>1. Len(a) = n /\ a \in Seq(Texts) /\ b \in Seq(Precedences) /\ b # Loose
    BY StateFields
  <2>. HIDE DEF a
  <2>. QED  BY <2>1
<1>2. text \in Texts
  <2>1. a[n] \in Seq(Words)
    <3>1. a[n] \in Texts
      <4>. HIDE DEF a, n
      <4>. QED  BY <1>1
    <3>. QED  BY <3>1 DEF Texts
  <2>2. <<"(", "(">> \in Seq(Words) /\ <<")">> \in Seq(Words) /\ <<")">> # <<>>
    <3>1. "(" \in Words /\ ")" \in Words
      BY TokenWords DEF Punctuation
    <3>. QED  BY <3>1
  <2>. DEFINE x == <<"(", "(">>
              y == <<")">>
              z == a[n]
  <2>3. x \o z \in Seq(Words)
    <3>. HIDE DEF x, z
    <3>. QED  BY <2>1, <2>2, JoinedWords DEF x, z
  <2>4. (x \o z) \o y \in Seq(Words) /\ (x \o z) \o y # <<>>
    <3>. HIDE DEF x, z, y
    <3>. QED  BY <2>2, <2>3, JoinedWords DEF y
  <2>. QED  BY <2>4 DEF Texts, SourceParen
<1>3. /\ operands \in Seq(Texts) /\ Len(operands) = n
      /\ \A j \in 1 .. n : operands[j] = IF j = n THEN text ELSE a[j]
  <2>. HIDE DEF text, a, n
  <2>. QED  BY <1>1, <1>2, ExceptSeq
<1>4. /\ levels \in Seq(Precedences) /\ Len(levels) = n
      /\ \A j \in 1 .. n : levels[j] = IF j = n THEN Primary ELSE b[j]
  <2>1. Primary \in Precedences
    BY DEF Primary, Precedences
  <2>2. Len(b) = n
    OBVIOUS
  <2>. HIDE DEF b, n
  <2>. QED  BY <1>1, <2>1, <2>2, ExceptSeq
<1>5. new.levels = levels
  BY <1>1 DEF After, Binding
<1>6. new.written = [printed |-> st.written.printed, operands |-> operands, close |-> st.written.close]
  <2>1. ASSUME NEW w, NEW p, NEW o, NEW c, w = [printed |-> p, operands |-> o, close |-> c],
               Len(o) = n
        PROVE  PrintNode(w, node, TRUE)
                 = [printed |-> p, operands |-> [o EXCEPT ![n] = SourceParen(o[n])], close |-> c]
    <3>. HIDE DEF n
    <3>. QED  BY <2>1 DEF PrintNode
  <2>. DEFINE w == st.written
              p == w.printed
              c == w.close
  <2>2. w = [printed |-> p, operands |-> a, close |-> c]
    BY StateFields
  <2>3. PrintNode(w, node, TRUE) = [printed |-> p, operands |-> operands, close |-> c]
    <3>. HIDE DEF w, p, c, a, n
    <3>. QED  BY <1>1, <2>1, <2>2
  <2>. QED  BY <2>3 DEF After
<1>7. new = [written |-> new.written, levels |-> new.levels]
  BY DEF After
<1>. HIDE DEF new, operands, levels, text
<1>8. Valued(st, new, v, operands[v + 1], levels[v + 1])
  <2>1. \A k \in 1 .. v : operands[k] = a[k] /\ levels[k] = b[k]
    <3>1. \A k \in 1 .. v : k \in 1 .. n /\ k # n
      BY <1>1
    <3>. HIDE DEF a, b, n
    <3>. QED  BY <1>3, <1>4, <3>1
  <2>2. Len(operands) = v + 1 /\ Len(levels) = v + 1
    BY <1>1, <1>3, <1>4
  <2>. QED  BY <1>3, <1>4, <1>5, <1>6, <1>7, <2>1, <2>2, ValuedIf
<1>9. operands[v + 1] = text /\ levels[v + 1] = Primary /\ a[n] = a[v + 1]
  <2>. HIDE DEF a, b, n
  <2>. QED  BY <1>1, <1>3, <1>4
<1>. QED  BY <1>2, <1>8, <1>9 DEF text, new

-----------------------------------------------------------------------------
(* Definitions                                                             *)

LEMMA DefFields ==
  ASSUME NEW def \in FuncDefs
  PROVE  def.name \in FuncNames /\ def.ret \in Types /\ def.params \in Seq(Params) /\ def.body \in BOOLEAN
  BY DEF FuncDefs

LEMMA VarTextTyped ==
  ASSUME NEW p, p.type \in Types, p.name \in VarNames
  PROVE  VarText(p) \in Texts /\ VarText(p) = <<p.type, p.name>>
<1>1. p.type \in Words /\ p.name \in Words
  BY TokenWords
<1>2. <<p.type, p.name>> \in Seq(Words) /\ <<p.type, p.name>> # <<>>
  BY <1>1
<1>. QED  BY <1>2 DEF VarText, Texts

LEMMA VarTextsTyped ==
  ASSUME NEW def \in FuncDefs
  PROVE  VarTexts(def) \in Seq(Texts) /\ Len(VarTexts(def)) = Len(def.params)
<1>. DEFINE s == def.params
<1>1. s \in Seq(Params) /\ DOMAIN s = 1 .. Len(s) /\ Len(s) \in Nat
  BY DefFields
<1>2. ASSUME NEW i \in 1 .. Len(s) PROVE VarText(s[i]) \in Texts
  <2>1. s[i] \in Params
    <3>. HIDE DEF s
    <3>. QED  BY <1>1, <1>2
  <2>2. s[i].type \in Types /\ s[i].name \in VarNames
    BY <2>1 DEF Params
  <2>. QED  BY <2>2, VarTextTyped
<1>3. VarTexts(def) = [i \in 1 .. Len(s) |-> VarText(s[i])]
  BY <1>1 DEF VarTexts
<1>. HIDE DEF s
<1>4. [i \in 1 .. Len(s) |-> VarText(s[i])] \in Seq(Texts)
      /\ Len([i \in 1 .. Len(s) |-> VarText(s[i])]) = Len(s)
  BY <1>1, <1>2
<1>. QED  BY <1>3, <1>4 DEF s

LEMMA Assoc ==
  ASSUME NEW x \in Seq(Words), NEW y \in Seq(Words), NEW z \in Seq(Words)
  PROVE  (x \o y) \o z = x \o (y \o z) /\ x \o y \in Seq(Words) /\ y \o z \in Seq(Words)
         /\ (x \o y) \o z \in Seq(Words)
<1>1. x \o y \in Seq(Words) /\ y \o z \in Seq(Words)
  BY JoinedWords
<1>2. (x \o y) \o z = x \o (y \o z)
  BY ConcatAssociative
<1>. DEFINE a == x \o y
<1>3. (x \o y) \o z \in Seq(Words)
  <2>1. a \o z \in Seq(Words)
    <3>. HIDE DEF a
    <3>. QED  BY <1>1, JoinedWords DEF a
  <2>. QED  BY <2>1
<1>. QED  BY <1>1, <1>2, <1>3

LEMMA Bracket ==
  ASSUME NEW x \in Seq(Words), NEW y \in Seq(Words), NEW z \in Seq(Words)
  PROVE  (x \o y) \o z = x \o (y \o z)
  BY ConcatAssociative

\* A definition up to its name.
Named(def) == <<def.ret>> \o (IF IsOperator(def.name) THEN <<"operator">> ELSE <<>>)

LEMMA SignedTyped ==
  ASSUME NEW def \in FuncDefs
  PROVE  /\ Named(def) \in Seq(Words) /\ <<def.name, "(">> \in Seq(Words)
         /\ CommaList(VarTexts(def)) \in Seq(Words)
         /\ Signed(def) = (Named(def) \o <<def.name, "(">>) \o CommaList(VarTexts(def))
         /\ Signed(def) \in Seq(Words)
<1>1. def.ret \in Words /\ def.name \in Words /\ "(" \in Words /\ "operator" \in Words
  BY DefFields, TokenWords DEF Punctuation
<1>2. <<def.ret>> \in Seq(Words) /\ <<def.name, "(">> \in Seq(Words) /\ <<"operator">> \in Seq(Words)
      /\ <<>> \in Seq(Words)
  BY <1>1
<1>3. Named(def) \in Seq(Words)
  <2>. DEFINE o == IF IsOperator(def.name) THEN <<"operator">> ELSE <<>>
              r == <<def.ret>>
  <2>1. o \in Seq(Words) /\ r \in Seq(Words)
    BY <1>2
  <2>. HIDE DEF o, r
  <2>2. r \o o \in Seq(Words)
    BY <2>1, JoinedWords
  <2>. QED  BY <2>2 DEF Named, o, r
<1>4. CommaList(VarTexts(def)) \in Seq(Words)
  BY VarTextsTyped, ListTyped
<1>5. Signed(def) = (Named(def) \o <<def.name, "(">>) \o CommaList(VarTexts(def))
  BY DEF Signed, Named
<1>. DEFINE b == <<def.name, "(">>
            c == CommaList(VarTexts(def))
<1>6. (Named(def) \o b) \o c \in Seq(Words)
  <2>. HIDE DEF b, c
  <2>. QED  BY <1>2, <1>3, <1>4, Assoc DEF b, c
<1>. QED  BY <1>2, <1>3, <1>4, <1>5, <1>6

LEMMA DefinitionText ==
  ASSUME NEW def \in FuncDefs
  PROVE  /\ SourceDefinition(def)
              = (Signed(def) \o <<")">>) \o (IF def.body THEN <<>> ELSE <<";">>)
         /\ SourceDefinition(def) \in Seq(Words)
<1>. DEFINE b == <<def.name, "(">>
            c == CommaList(VarTexts(def))
            h == <<def.ret, def.name, "(">>
            p == <<")">>
            e == IF def.body THEN <<>> ELSE <<";">>
<1>1. b \in Seq(Words) /\ c \in Seq(Words) /\ h \in Seq(Words) /\ p \in Seq(Words)
      /\ e \in Seq(Words) /\ Named(def) \in Seq(Words) /\ Signed(def) \in Seq(Words)
  <2>1. def.ret \in Words /\ def.name \in Words /\ "(" \in Words /\ ")" \in Words /\ ";" \in Words
    BY DefFields, TokenWords DEF Punctuation
  <2>2. h \in Seq(Words)
    BY <2>1, ThreeWords
  <2>3. p \in Seq(Words) /\ <<";">> \in Seq(Words) /\ <<>> \in Seq(Words)
    BY <2>1, OneWord, EmptySeq
  <2>4. e \in Seq(Words)
    BY <2>3
  <2>. QED  BY <2>2, <2>3, <2>4, SignedTyped
<1>2. h = <<def.ret>> \o b
  OBVIOUS
<1>3. Header(def) = (h \o c) \o p
  BY DEF Header, VarTexts
<1>4. Tail(Header(def)) = (b \o c) \o p
  <2>1. def.ret \in Words
    BY DefFields, TokenWords
  <2>2. <<def.ret>> \in Seq(Words)
    BY <2>1, OneWord
  <2>. DEFINE r == <<def.ret>>
  <2>3. (h \o c) \o p = r \o ((b \o c) \o p) /\ (b \o c) \o p \in Seq(Words)
    <3>. HIDE DEF r, b, c, h, p
    <3>1. h = r \o b
      BY <1>2 DEF r
    <3>2. h \o c = r \o (b \o c) /\ b \o c \in Seq(Words) /\ r \in Seq(Words)
      <4>1. r \in Seq(Words) /\ b \in Seq(Words) /\ c \in Seq(Words)
        BY <1>1, <2>2 DEF r
      <4>2. (r \o b) \o c = r \o (b \o c) /\ b \o c \in Seq(Words)
        BY <4>1, Assoc
      <4>. QED  BY <3>1, <4>1, <4>2
    <3>. DEFINE bc == b \o c
    <3>3. bc \in Seq(Words) /\ r \in Seq(Words) /\ p \in Seq(Words)
      BY <1>1, <3>2
    <3>4. (r \o bc) \o p = r \o (bc \o p) /\ bc \o p \in Seq(Words)
      <4>. HIDE DEF bc
      <4>. QED  BY <3>3, Assoc
    <3>. QED  BY <3>2, <3>4
  <2>. DEFINE q == (b \o c) \o p
  <2>4. Tail(r \o q) = q
    <3>. HIDE DEF q
    <3>. QED  BY <2>1, <2>3, InFront DEF q
  <2>. QED  BY <1>3, <2>3, <2>4
<1>5. Signed(def) = (Named(def) \o b) \o c
  BY SignedTyped
<1>6. SourceDefinition(def) = (Named(def) \o Tail(Header(def))) \o e
  BY DEF SourceDefinition, Named
<1>. HIDE DEF b, c, h, p, e
<1>7. Named(def) \o ((b \o c) \o p) = ((Named(def) \o b) \o c) \o p
  <2>. DEFINE d == Named(def)
              bc == b \o c
  <2>1. d \in Seq(Words) /\ b \in Seq(Words) /\ c \in Seq(Words) /\ p \in Seq(Words)
    BY <1>1
  <2>. HIDE DEF d
  <2>2. (d \o b) \o c = d \o (b \o c) /\ bc \in Seq(Words)
    BY <2>1, Assoc
  <2>3. (d \o bc) \o p = d \o (bc \o p)
    <3>. HIDE DEF bc
    <3>. QED  BY <2>1, <2>2, Assoc
  <2>4. d \o ((b \o c) \o p) = ((d \o b) \o c) \o p
    BY <2>2, <2>3
  <2>. QED  BY <2>4 DEF d
<1>8. SourceDefinition(def) = (Signed(def) \o p) \o e
  BY <1>4, <1>5, <1>6, <1>7
<1>9. (Signed(def) \o p) \o e \in Seq(Words)
  BY <1>1, Assoc
<1>. QED  BY <1>8, <1>9 DEF p, e

-----------------------------------------------------------------------------
(* Statements                                                              *)

NodeText(node) ==
  CASE node.n = "Func"     -> SourceDefinition(node.def)
    [] node.n = "Seq"      -> <<"{">>
    [] node.n = "EndSeq"   -> <<"}">>
    [] node.n = "Decl"     -> VarText(node) \o (IF node.init THEN <<"=">> ELSE <<";">>)
    [] node.n = "Assign"   -> <<node.name, "=">>
    [] node.n = "Return"   -> <<"return">>
    [] node.n = "If"       -> <<"if", "(">>
    [] node.n = "Else"     -> <<"else">>
    [] node.n = "While"    -> <<"while", "(">>
    [] OTHER               -> <<>>

NodeClose(node, close) ==
  CASE node.n = "Decl" /\ node.init               -> <<";">>
    [] node.n \in {"Assign", "Return", "CallStmt"} -> <<";">>
    [] node.n \in {"If", "While"}                 -> <<")">>
    [] OTHER                                      -> close

OperandKinds == {"Const", "Var", "Call", "Paren", "EndExp"}

LEMMA NodeTextTyped ==
  ASSUME NEW node \in TreeNodes, NEW close \in Seq(Words)
  PROVE  NodeText(node) \in Seq(Words) /\ NodeClose(node, close) \in Seq(Words)
<1>1. {"{", "}", "=", ";", "(", ")", "return", "if", "else", "while"} \subseteq Words
  BY TokenWords DEF Punctuation
<1>2. /\ <<"{">> \in Seq(Words) /\ <<"}">> \in Seq(Words) /\ <<"=">> \in Seq(Words)
      /\ <<";">> \in Seq(Words) /\ <<")">> \in Seq(Words) /\ <<"return">> \in Seq(Words)
      /\ <<"if", "(">> \in Seq(Words) /\ <<"else">> \in Seq(Words) /\ <<"while", "(">> \in Seq(Words)
      /\ <<>> \in Seq(Words)
  <2>1. \A x \in Words : <<x>> \in Seq(Words)
    BY OneWord
  <2>2. <<"if", "(">> \in Seq(Words) /\ <<"while", "(">> \in Seq(Words) /\ <<>> \in Seq(Words)
    BY <1>1, TwoWords, EmptySeq
  <2>. QED  BY <1>1, <2>1, <2>2
<1>3. NodeClose(node, close) \in Seq(Words)
  BY <1>2 DEF NodeClose
<1>4. CASE node.n = "Func"
  BY <1>3, <1>4, TreeFields, DefinitionText DEF NodeText
<1>5. CASE node.n = "Decl"
  <2>1. node.name \in VarNames /\ node.type \in Types
    BY <1>5, TreeFields
  <2>2. VarText(node) \in Seq(Words)
    BY <2>1, VarTextTyped DEF Texts
  <2>. DEFINE e == IF node.init THEN <<"=">> ELSE <<";">>
  <2>3. e \in Seq(Words)
    BY <1>2
  <2>4. NodeText(node) = VarText(node) \o e
    BY <1>5 DEF NodeText
  <2>. HIDE DEF e
  <2>5. NodeText(node) \in Seq(Words)
    BY <2>2, <2>3, <2>4, JoinedWords
  <2>. QED  BY <1>3, <2>5
<1>6. CASE node.n = "Assign"
  <2>1. node.name \in Words /\ "=" \in Words
    BY <1>1, <1>6, TreeFields, TokenWords
  <2>2. <<node.name, "=">> \in Seq(Words)
    BY <2>1
  <2>. QED  BY <1>3, <1>6, <2>2 DEF NodeText
<1>7. CASE node.n \notin {"Func", "Decl", "Assign"}
  BY <1>2, <1>3, <1>7 DEF NodeText
<1>. QED  BY <1>4, <1>5, <1>6, <1>7

Record(p, o, c) == [printed |-> p, operands |-> o, close |-> c]

LEMMA PrintText ==
  ASSUME NEW p \in Seq(Words), NEW o, NEW c, NEW node, node.n \notin OperandKinds
  PROVE  PrintNode(Record(p, o, c), node, TRUE) = Record(p \o NodeText(node), o, NodeClose(node, c))
<1>. DEFINE w == Record(p, o, c)
<1>0. w = [printed |-> p, operands |-> o, close |-> c]
  BY DEF Record
<1>. HIDE DEF w
<1>. SUFFICES PrintNode(w, node, TRUE)
           = [printed |-> p \o NodeText(node), operands |-> o, close |-> NodeClose(node, c)]
  BY DEF Record, w
<1>1. ASSUME NEW text
      PROVE  /\ Write(w, text) = [printed |-> p \o text, operands |-> o, close |-> c]
             /\ \A t : Open(w, text, t) = [printed |-> p \o text, operands |-> o, close |-> <<t>>]
  <2>1. Write(w, text) = [printed |-> p \o text, operands |-> o, close |-> c]
    <3>1. w.printed = p
      BY <1>0
    <3>2. Write(w, text) = [w EXCEPT !.printed = p \o text]
      BY <3>1 DEF Write
    <3>. DEFINE q == p \o text
    <3>3. [w EXCEPT !.printed = q] = [printed |-> q, operands |-> o, close |-> c]
      <4>. HIDE DEF q
      <4>. QED  BY <1>0
    <3>. QED  BY <3>2, <3>3
  <2>2. \A t : Open(w, text, t) = [Write(w, text) EXCEPT !.close = <<t>>]
    BY DEF Open
  <2>. DEFINE q == p \o text
  <2>3. \A t : Open(w, text, t) = [printed |-> q, operands |-> o, close |-> <<t>>]
    <3>1. Write(w, text) = [printed |-> q, operands |-> o, close |-> c]
      BY <2>1
    <3>. HIDE DEF q
    <3>2. \A t : [[printed |-> q, operands |-> o, close |-> c] EXCEPT !.close = <<t>>]
                   = [printed |-> q, operands |-> o, close |-> <<t>>]
      OBVIOUS
    <3>. QED  BY <2>2, <3>1, <3>2
  <2>. QED  BY <2>1, <2>3
<1>2. p \o <<>> = p
  OBVIOUS
<1>3. CASE node.n = "Func"
  <2>1. PrintNode(w, node, TRUE) = Write(w, SourceDefinition(node.def))
    BY <1>3 DEF PrintNode
  <2>. QED  BY <1>1, <1>3, <2>1 DEF NodeText, NodeClose
<1>4. CASE node.n \in {"Seq", "EndSeq", "Else"}
  <2>1. PrintNode(w, node, TRUE) = Write(w, NodeText(node)) /\ NodeClose(node, c) = c
    BY <1>4 DEF PrintNode, NodeText, NodeClose
  <2>. QED  BY <1>1, <2>1
<1>5. CASE node.n = "Decl"
  <2>1. CASE node.init
    <3>1. PrintNode(w, node, TRUE) = Open(w, NodeText(node), ";") /\ NodeClose(node, c) = <<";">>
      BY <1>5, <2>1 DEF PrintNode, NodeText, NodeClose
    <3>. QED  BY <1>1, <3>1
  <2>2. CASE ~node.init
    <3>1. PrintNode(w, node, TRUE) = Write(w, NodeText(node)) /\ NodeClose(node, c) = c
      BY <1>5, <2>2 DEF PrintNode, NodeText, NodeClose
    <3>. QED  BY <1>1, <3>1
  <2>. QED  BY <2>1, <2>2
<1>6. CASE node.n \in {"Assign", "Return", "CallStmt"}
  <2>1. PrintNode(w, node, TRUE) = Open(w, NodeText(node), ";") /\ NodeClose(node, c) = <<";">>
    BY <1>6 DEF PrintNode, NodeText, NodeClose
  <2>. QED  BY <1>1, <2>1
<1>7. CASE node.n \in {"If", "While"}
  <2>1. PrintNode(w, node, TRUE) = Open(w, NodeText(node), ")") /\ NodeClose(node, c) = <<")">>
    BY <1>7 DEF PrintNode, NodeText, NodeClose
  <2>. QED  BY <1>1, <2>1
<1>8. CASE node.n \notin {"Func", "Seq", "EndSeq", "Else", "Decl", "Assign", "Return", "CallStmt",
                          "If", "While"}
  <2>1. PrintNode(w, node, TRUE) = w
    BY <1>8 DEF PrintNode, OperandKinds
  <2>2. NodeText(node) = <<>> /\ NodeClose(node, c) = c
    BY <1>8 DEF NodeText, NodeClose
  <2>. QED  BY <1>0, <1>2, <2>1, <2>2
<1>. QED  BY <1>3, <1>4, <1>5, <1>6, <1>7, <1>8

(* A node of a statement is written between its expressions.               *)
LEMMA NodeStated ==
  ASSUME NEW st \in States, st.levels = <<>>, NEW node \in TreeNodes, node.n \notin OperandKinds
  PROVE  /\ Stated(st, After(st, node), NodeText(node))
         /\ After(st, node).written.close = NodeClose(node, st.written.close)
<1>. DEFINE w == st.written
            p == w.printed
            o == w.operands
            c == w.close
            q == p \o NodeText(node)
            d == NodeClose(node, c)
            new == After(st, node)
<1>1. /\ w = [printed |-> p, operands |-> o, close |-> c] /\ p \in Seq(Words) /\ c \in Seq(Words)
      /\ o = <<>>
  <2>1. /\ w = [printed |-> p, operands |-> o, close |-> c] /\ p \in Seq(Words) /\ c \in Seq(Words)
        /\ o \in Seq(Texts) /\ Len(o) = Len(st.levels)
    BY StateFields
  <2>2. Len(st.levels) = 0
    OBVIOUS
  <2>. HIDE DEF o
  <2>3. o = <<>>
    BY <2>1, <2>2
  <2>. QED  BY <2>1, <2>3 DEF o
<1>2. q \in Seq(Words) /\ d \in Seq(Words)
  <2>1. NodeText(node) \in Seq(Words) /\ d \in Seq(Words)
    <3>. HIDE DEF c
    <3>. QED  BY <1>1, NodeTextTyped
  <2>. HIDE DEF p
  <2>. QED  BY <1>1, <2>1, JoinedWords
<1>3. new.written = [printed |-> q, operands |-> <<>>, close |-> d]
  <2>1. new.written = PrintNode(w, node, TRUE)
    BY DEF After
  <2>2. PrintNode(w, node, TRUE) = [printed |-> q, operands |-> o, close |-> d]
    <3>1. w = Record(p, o, c)
      BY <1>1 DEF Record
    <3>2. p \in Seq(Words)
      BY <1>1
    <3>. HIDE DEF w, p, o, c
    <3>3. PrintNode(Record(p, o, c), node, TRUE)
            = Record(p \o NodeText(node), o, NodeClose(node, c))
      BY <3>2, PrintText
    <3>. QED  BY <3>1, <3>3 DEF Record
  <2>. HIDE DEF q, d
  <2>. QED  BY <1>1, <2>1, <2>2
<1>4. new.levels = <<>>
  <2>1. Binding(st.levels, node) = <<>>
    BY StateFields DEF Binding, OperandKinds
  <2>. QED  BY <2>1 DEF After
<1>5. new = [written |-> new.written, levels |-> new.levels]
  BY DEF After
<1>. HIDE DEF new, q, d
<1>6. new \in States
  <2>1. new.written \in [printed : Seq(Words), operands : Seq(Texts), close : Seq(Words)]
    BY <1>2, <1>3
  <2>2. new.levels \in Seq(Precedences) /\ Len(new.levels) = Len(new.written.operands)
    BY <1>3, <1>4
  <2>. QED  BY <1>5, <2>1, <2>2 DEF States
<1>. QED  BY <1>3, <1>4, <1>6 DEF Stated, new, q, d

(* The end of an expression, which is the only operand.                    *)
LEMMA ExpStated ==
  ASSUME NEW st \in States, Len(st.levels) = 1, NEW node \in TreeNodes, node.n = "EndExp"
  PROVE  /\ Stated(st, After(st, node), st.written.operands[1] \o st.written.close)
<1>. DEFINE w == st.written
            p == w.printed
            o == w.operands
            c == w.close
            t == o[1] \o c
            q == p \o t
            new == After(st, node)
<1>1. /\ w = [printed |-> p, operands |-> o, close |-> c] /\ p \in Seq(Words) /\ c \in Seq(Words)
      /\ o \in Seq(Texts) /\ Len(o) = 1
  BY StateFields
<1>2. t \in Seq(Words) /\ q \in Seq(Words)
  <2>1. o[1] \in Seq(Words)
    <3>. HIDE DEF o
    <3>1. o[1] \in Texts
      <4>1. o \in Seq(Texts) /\ 1 \in 1 .. Len(o)
        BY <1>1
      <4>. QED  BY <4>1, ElementOfSeq
    <3>. QED  BY <3>1 DEF Texts
  <2>. DEFINE x == o[1]
  <2>2. t \in Seq(Words)
    <3>. HIDE DEF x, c
    <3>1. x \o c \in Seq(Words)
      BY <1>1, <2>1, JoinedWords DEF x
    <3>. QED  BY <3>1 DEF x
  <2>3. q \in Seq(Words)
    <3>. HIDE DEF p, t
    <3>. QED  BY <1>1, <2>2, JoinedWords
  <2>. QED  BY <2>2, <2>3
<1>3. new.written = [printed |-> q, operands |-> <<>>, close |-> c]
  <2>1. Last(o) = o[1]
    BY <1>1 DEF Last
  <2>2. PrintNode(w, node, TRUE) = [Write(w, t) EXCEPT !.operands = <<>>]
    <3>. HIDE DEF w
    <3>. QED  BY <2>1 DEF PrintNode
  <2>3. Write(w, t) = [printed |-> q, operands |-> o, close |-> c]
    <3>1. w = [printed |-> p, operands |-> o, close |-> c]
      BY <1>1
    <3>2. Write(w, t) = [w EXCEPT !.printed = p \o t]
      BY DEF Write
    <3>. HIDE DEF w, p, o, c, t, q
    <3>3. [w EXCEPT !.printed = q] = [printed |-> q, operands |-> o, close |-> c]
      BY <3>1
    <3>. QED  BY <3>2, <3>3 DEF q
  <2>4. [Write(w, t) EXCEPT !.operands = <<>>] = [printed |-> q, operands |-> <<>>, close |-> c]
    <3>. HIDE DEF w, p, o, c, t, q
    <3>. QED  BY <2>3
  <2>. QED  BY <2>2, <2>4 DEF After
<1>4. new.levels = <<>>
  <2>1. Binding(st.levels, node) = <<>>
    BY StateFields DEF Binding
  <2>. QED  BY <2>1 DEF After
<1>5. new = [written |-> new.written, levels |-> new.levels]
  BY DEF After
<1>. HIDE DEF new, q, t, p, o, c
<1>6. new \in States
  <2>1. new.written \in [printed : Seq(Words), operands : Seq(Texts), close : Seq(Words)]
    <3>1. q \in Seq(Words) /\ c \in Seq(Words) /\ <<>> \in Seq(Texts)
      BY <1>1, <1>2
    <3>. QED  BY <1>3, <3>1
  <2>2. new.levels \in Seq(Precedences) /\ Len(new.levels) = Len(new.written.operands)
    BY <1>3, <1>4
  <2>. QED  BY <1>5, <2>1, <2>2 DEF States
<1>7. Stated(st, new, t)
  BY <1>3, <1>4, <1>6 DEF Stated, q, p
<1>. QED  BY <1>7 DEF new, t, o, c

-----------------------------------------------------------------------------
(* Goals in front of others                                                *)

LEMMA KindOf ==
  /\ \A t : Kind(Skip(t, <<>>)) = "Ahead"
  /\ \A t, node : Kind(Skip(t, <<node>>)) =
       IF node.n # "Call" THEN node.n ELSE IF node.args = 0 THEN "NoArgs" ELSE "LastArg"
  /\ \A node : Kind(Emit(node)) = IF node.n = "Call" THEN node.form ELSE "Mark"
  /\ \A f, n : Kind(MoreArgs(f, n)) = IF n = 0 THEN "FirstArg" ELSE "NextArg"
  /\ Kind(Do("Seq")) = "Braces"
  /\ \A what \in {"FuncDef", "Stmts", "Stmt", "Primary", "UnaryOp"} : Kind(Do(what)) = what
  /\ \A n : Kind(Program(n)) = "Program"
  /\ \A t : Kind(FuncId(t)) = "FuncId" /\ Kind(OperatorId(t)) = "OperatorId"
  /\ \A d : Kind(ParamList(d)) = "ParamList" /\ Kind(Body(d)) = "Body" /\ Kind(VarDecl(d)) = "VarDecl"
  /\ \A d, t : Kind(VarId(d, t)) = "VarId" /\ Kind(Local(d, t)) = "Local"
  /\ \A x : Kind(AssignOrCall(x)) = "AssignOrCall" /\ Kind(VarOrCall(x)) = "VarOrCall"
            /\ Kind(Args(x)) = "Args"
  /\ \A k : Kind(Else(k)) = "Else"
  /\ \A p : Kind(Remaining(p)) = "Remaining"
  /\ \A op : Kind(RightOf(op)) = "RightOf"
<1>1. \A t : Kind(Skip(t, <<>>)) = "Ahead"
  BY DEF Kind, Skip
<1>2. \A t, node : Kind(Skip(t, <<node>>)) =
       IF node.n # "Call" THEN node.n ELSE IF node.args = 0 THEN "NoArgs" ELSE "LastArg"
  BY DEF Kind, Skip
<1>3. \A node : Kind(Emit(node)) = IF node.n = "Call" THEN node.form ELSE "Mark"
  BY DEF Kind, Emit
<1>4. \A f, n : Kind(MoreArgs(f, n)) = IF n = 0 THEN "FirstArg" ELSE "NextArg"
  BY DEF Kind, MoreArgs
<1>5. Kind(Do("Seq")) = "Braces"
  BY DEF Kind, Do
<1>6. \A what \in {"FuncDef", "Stmts", "Stmt", "Primary", "UnaryOp"} : Kind(Do(what)) = what
  BY DEF Kind, Do
<1>7. \A n : Kind(Program(n)) = "Program"
  BY DEF Kind, Program
<1>8. \A t : Kind(FuncId(t)) = "FuncId" /\ Kind(OperatorId(t)) = "OperatorId"
  BY DEF Kind, FuncId, OperatorId
<1>9. \A d : Kind(ParamList(d)) = "ParamList" /\ Kind(Body(d)) = "Body" /\ Kind(VarDecl(d)) = "VarDecl"
  BY DEF Kind, ParamList, Body, VarDecl
<1>10. \A d, t : Kind(VarId(d, t)) = "VarId" /\ Kind(Local(d, t)) = "Local"
  BY DEF Kind, VarId, Local
<1>11. \A x : Kind(AssignOrCall(x)) = "AssignOrCall" /\ Kind(VarOrCall(x)) = "VarOrCall"
            /\ Kind(Args(x)) = "Args"
  BY DEF Kind, AssignOrCall, VarOrCall, Args
<1>12. \A k : Kind(Else(k)) = "Else"
  BY DEF Kind, Else
<1>13. \A p : Kind(Remaining(p)) = "Remaining"
  BY DEF Kind, Remaining
<1>14. \A op : Kind(RightOf(op)) = "RightOf"
  BY DEF Kind, RightOf
<1>. QED  BY <1>1, <1>2, <1>3, <1>4, <1>5, <1>6, <1>7, <1>8, <1>9, <1>10, <1>11, <1>12, <1>13, <1>14

\* The goals of statements and definitions that have been begun.
BegunKinds == {"FuncDef", "FuncId", "OperatorId", "ParamList", "Body", "VarDecl", "VarId", "Local",
               "AssignOrCall", "Func", "Seq"}

LEMMA BegunGoals ==
  ASSUME NEW g, Kind(g) \in BegunKinds \cup BottomKinds
  PROVE  /\ ~Yields(g) /\ ~Takes(g) /\ Uses(g) = 0
         /\ Kind(g) \notin {"Ahead", "infix", "RightOf", "prefix", "EndExp", "Remaining"}
  BY DEF BegunKinds, BottomKinds, Yields, YieldingKinds, PrimaryKinds, Takes, TakingKinds, Uses

LEMMA EmptySubSeq ==
  ASSUME NEW s, NEW v \in Nat
  PROVE  SubSeq(s, v + 1, v) = <<>>
  BY SubSeqEmpty

LEMMA PrimaryJoins ==
  ASSUME NEW g, NEW h, Kind(g) \in PrimaryKinds, Joins(g, h)
  PROVE  /\ Kind(h) # "infix" /\ Takes(h)
         /\ \A new : Kind(new) \in PrimaryKinds => Joins(new, h)
<1>1. \A a : a.do = "Remaining" => Kind(a) = "Remaining"
  BY DEF Kind
<1>2. Yields(g) /\ \A new : Kind(new) \in PrimaryKinds => Yields(new)
  BY DEF Yields, YieldingKinds
<1>3. Kind(g) # "Remaining"
  BY DEF PrimaryKinds
<1>4. Kind(h) # "infix"
  BY <1>1, <1>3 DEF Joins, Climbs
<1>5. Takes(h) /\ Kind(h) # "Ahead"
  BY <1>2 DEF Joins
<1>6. ASSUME NEW new, Kind(new) \in PrimaryKinds PROVE Joins(new, h)
  <2>1. Climbs(new, h)
    BY <1>4, <1>6 DEF Climbs
  <2>. QED  BY <1>2, <1>5, <1>6, <2>1 DEF Joins
<1>. QED  BY <1>4, <1>5, <1>6

(* A goal that takes no operands of its own.                               *)
LEMMA PushZero ==
  ASSUME NEW g \in Goals, NEW goals, NEW st \in States, NEW x \in Seq(Words), NEW u \in Nat,
         Waits(goals, st, x, u), Shaped(g), Joins(g, goals[1]), Uses(g) = 0,
         u <= Len(st.levels), Kind(g) \notin {"infix", "RightOf", "EndExp"},
         NEW y \in Seq(Words), y = x \o Piece(g, <<>>)
  PROVE  Waits(<<g>> \o goals, st, y, u)
<1>1. SubSeq(st.written.operands, u + 1, u) = <<>>
  BY EmptySubSeq
<1>2. u = u + Uses(g) /\ u <= Len(st.written.operands)
  <2>1. Len(st.written.operands) = Len(st.levels)
    BY StateFields
  <2>. QED  BY <2>1
<1>. DEFINE args == SubSeq(st.written.operands, u + 1, u)
<1>3. y = x \o Piece(g, args)
  BY <1>1
<1>4. /\ Kind(g) \in {"infix", "RightOf"} => st.levels[u] >= Level(g)
      /\ Kind(g) = "EndExp" => st.written.close = <<g.token>>
      /\ u <= u
  OBVIOUS
<1>. QED  BY <1>2, <1>3, <1>4, Push

(* A goal that is about to be done and takes no operand.                   *)
LEMMA StandsPlain ==
  ASSUME NEW goals, NEW st \in States, NEW x \in Seq(Words), NEW u \in Nat, NEW ahead,
         Waits(goals, st, x, u), Len(st.levels) = u, ~Takes(goals[1]), Kind(goals[1]) # "Ahead"
  PROVE  Stands(goals, st, x, ahead)
<1>1. HeadWaits(goals, st, x, u, x, ahead)
  BY DEF HeadWaits, Due
<1>. QED  BY <1>1 DEF Stands

(* A token is to be skipped first.                                         *)
LEMMA StandsAhead ==
  ASSUME NEW goals, NEW st \in States, NEW x \in Seq(Words), NEW u \in Nat, NEW ahead,
         Waits(goals, st, x, u), Len(st.levels) = u, ~Takes(goals[1]), Kind(goals[1]) # "Ahead",
         NEW t \in Punctuation, NEW text, x = text \o <<t>>
  PROVE  Stands(<<Skip(t, <<>>)>> \o goals, st, text, ahead)
<1>. DEFINE g == Skip(t, <<>>)
            all == <<g>> \o goals
<1>1. g \in Goals
  <2>1. <<>> \in Seq(TreeNodes)
    OBVIOUS
  <2>2. g \in PlainGoals
    BY <2>1, PlainGoalTypes
  <2>. QED  BY <2>2 DEF PlainGoals
<1>2. Kind(g) = "Ahead" /\ g.token = t /\ Shaped(g)
  BY KindOf DEF Skip, Shaped
<1>3. ~Yields(g) /\ ~Takes(g) /\ Uses(g) = 0 /\ Piece(g, <<>>) = <<>>
  BY <1>2, KindSets
<1>4. goals \in Seq(Goals) /\ goals # <<>>
  BY DEF Waits, Chained
<1>5. Joins(g, goals[1])
  <2>1. Climbs(g, goals[1])
    <3>1. Kind(goals[1]) \notin {"infix", "prefix", "RightOf"} /\ goals[1].do # "Remaining"
      <4>1. goals[1].do = "Remaining" => Kind(goals[1]) = "Remaining"
        BY DEF Kind
      <4>. QED  BY <4>1 DEF Takes, TakingKinds
    <3>. QED  BY <3>1 DEF Climbs
  <2>. QED  BY <1>2, <1>3, <2>1 DEF Joins
<1>6. x = x \o Piece(g, <<>>)
  BY <1>3
<1>7. Waits(all, st, x, u)
  <2>1. u <= Len(st.levels) /\ Kind(g) \notin {"infix", "RightOf", "EndExp"}
    BY <1>2
  <2>. HIDE DEF g
  <2>. QED  BY <1>1, <1>2, <1>3, <1>5, <1>6, <2>1, PushZero
<1>8. all[1] = g
  BY <1>1, <1>4, InFront
<1>. HIDE DEF all, g
<1>9. HeadWaits(all, st, x, u, text, ahead)
  BY <1>2, <1>3, <1>8 DEF HeadWaits, Due
<1>10. Stands(all, st, text, ahead)
  BY <1>7, <1>9 DEF Stands
<1>. QED  BY <1>10 DEF all, g

(* A goal of a statement or definition.                                    *)
LEMMA PushBegun ==
  ASSUME NEW g \in Goals, Shaped(g), Kind(g) \in BegunKinds \cup BottomKinds,
         NEW goals, NEW st \in States, st.levels = <<>>,
         Waits(goals, st, st.written.printed, 0), IsBottom(goals[1]),
         NEW x \in Seq(Words), x = st.written.printed \o Piece(g, <<>>)
  PROVE  /\ Waits(<<g>> \o goals, st, x, 0)
         /\ \A ahead : Stands(<<g>> \o goals, st, x, ahead)
         /\ \A t \in Punctuation : \A text, ahead : x = text \o <<t>> =>
              Stands(<<Skip(t, <<>>)>> \o (<<g>> \o goals), st, text, ahead)
         /\ (<<g>> \o goals)[1] = g /\ <<g>> \o goals \in Seq(Goals)
<1>. DEFINE all == <<g>> \o goals
            p == st.written.printed
<1>1. ~Yields(g) /\ ~Takes(g) /\ Uses(g) = 0
      /\ Kind(g) \notin {"Ahead", "infix", "RightOf", "prefix", "EndExp", "Remaining"}
  BY BegunGoals
<1>2. ~Takes(goals[1]) /\ Kind(goals[1]) \notin {"Ahead", "infix", "RightOf", "prefix"}
      /\ goals[1].do # "Remaining"
  <2>1. goals[1].do = "Remaining" => Kind(goals[1]) = "Remaining"
    BY DEF Kind
  <2>. QED  BY <2>1, KindSets DEF IsBottom, BottomKinds
<1>3. Joins(g, goals[1])
  BY <1>1, <1>2 DEF Joins, Climbs
<1>4. p \in Seq(Words) /\ Len(st.levels) = 0 /\ 0 <= Len(st.levels)
  BY StateFields
<1>5. Waits(all, st, x, 0)
  <2>. HIDE DEF p
  <2>1. x = p \o Piece(g, <<>>)
    BY DEF p
  <2>2. Waits(goals, st, p, 0)
    BY DEF p
  <2>. QED  BY <1>1, <1>3, <1>4, <2>1, <2>2, PushZero
<1>6. all[1] = g /\ all \in Seq(Goals)
  <2>1. goals \in Seq(Goals)
    BY DEF Waits, Chained
  <2>. QED  BY <2>1, InFront
<1>. HIDE DEF all
<1>7. \A ahead : Stands(all, st, x, ahead)
  BY <1>1, <1>4, <1>5, <1>6, StandsPlain
<1>8. ASSUME NEW t \in Punctuation, NEW text, NEW ahead, x = text \o <<t>>
      PROVE  Stands(<<Skip(t, <<>>)>> \o all, st, text, ahead)
  BY <1>1, <1>4, <1>5, <1>6, <1>8, StandsAhead
<1>. QED  BY <1>5, <1>6, <1>7, <1>8 DEF all

-----------------------------------------------------------------------------
(* The first goal and those behind it                                      *)

LEMMA HeadOfText ==
  ASSUME IInv, TextInv, status = "running"
  PROVE  /\ todo \in Seq(Goals) /\ todo # <<>> /\ Head(todo) = todo[1] /\ todo[1] \in Goals
         /\ tree \in Seq(TreeNodes) /\ lookahead \in Tokens /\ read \in Seq(Words)
         /\ todo[1].do # "Program" => Len(todo) >= 2
         /\ State(tree) \in States
         /\ \E x \in Seq(Words), u \in Nat :
              Waits(todo, State(tree), x, u) /\ HeadWaits(todo, State(tree), x, u, read, lookahead)
<1>1. /\ todo \in Seq(Goals) /\ todo # <<>> /\ tree \in Seq(TreeNodes) /\ lookahead \in Tokens
      /\ read \in Seq(Tokens) /\ todo[Len(todo)].do = "Program"
  BY DEF IInv, TypeOK, Base
<1>2. Head(todo) = todo[1] /\ todo[1] \in Goals /\ Len(todo) \in Nat /\ Len(todo) >= 1
  BY <1>1
<1>3. todo[1].do # "Program" => Len(todo) >= 2
  BY <1>1, <1>2
<1>4. read \in Seq(Words)
  BY <1>1, TokenWords
<1>5. Stands(todo, State(tree), read, lookahead)
  BY DEF TextInv
<1>. QED  BY <1>1, <1>2, <1>3, <1>4, <1>5 DEF Stands

LEMMA BehindHead ==
  ASSUME IInv, TextInv, status = "running", todo[1].do # "Program"
  PROVE  LET st == State(tree)
             g == todo[1]
             rest == Tail(todo)
         IN
         /\ st \in States /\ Shaped(g) /\ rest \in Seq(Goals) /\ rest # <<>>
         /\ \E x, y \in Seq(Words), u, v \in Nat :
              /\ Waits(todo, st, x, u) /\ HeadWaits(todo, st, x, u, read, lookahead)
              /\ Waits(rest, st, y, v) /\ Joins(g, rest[1])
              /\ u = v + Uses(g) /\ u <= Len(st.levels)
              /\ x = y \o Piece(g, SubSeq(st.written.operands, v + 1, u))
              /\ Kind(g) \in {"infix", "RightOf"} => st.levels[u] >= Level(g)
              /\ Kind(g) = "EndExp" => st.written.close = <<g.token>>
<1>. DEFINE st == State(tree)
            g == todo[1]
            rest == Tail(todo)
<1>1. /\ todo \in Seq(Goals) /\ todo # <<>> /\ Len(todo) >= 2 /\ st \in States
      /\ \E x \in Seq(Words), u \in Nat :
           Waits(todo, st, x, u) /\ HeadWaits(todo, st, x, u, read, lookahead)
  BY HeadOfText
<1>2. PICK x \in Seq(Words), u \in Nat :
        Waits(todo, st, x, u) /\ HeadWaits(todo, st, x, u, read, lookahead)
  BY <1>1
<1>. HIDE DEF st
<1>3. /\ Shaped(g)
      /\ \E y \in Seq(Words), v \in Nat :
           Waits(rest, st, y, v) /\ Links(g, todo[2], st, Place(x, u), Place(y, v))
  BY <1>1, <1>2, Pop
<1>4. PICK y \in Seq(Words), v \in Nat :
        Waits(rest, st, y, v) /\ Links(g, todo[2], st, Place(x, u), Place(y, v))
  BY <1>3
<1>5. rest \in Seq(Goals) /\ rest # <<>> /\ rest[1] = todo[2]
  <2>1. /\ rest \in Seq(Goals) /\ Len(rest) = Len(todo) - 1
        /\ \A i \in 1 .. Len(rest) : rest[i] = todo[i + 1]
    BY <1>1, HeadTailProperties
  <2>2. Len(todo) \in Nat
    BY <1>1
  <2>. HIDE DEF rest
  <2>3. Len(rest) >= 1 /\ 1 \in 1 .. Len(rest)
    BY <1>1, <2>1, <2>2
  <2>4. rest # <<>>
    BY <2>3
  <2>. QED  BY <2>1, <2>3, <2>4
<1>6. Place(x, u).text = x /\ Place(x, u).used = u /\ Place(y, v).text = y /\ Place(y, v).used = v
  BY DEF Place
<1>7. Len(st.written.operands) = Len(st.levels)
  BY <1>1, StateFields
<1>. HIDE DEF rest, g
<1>8. /\ Joins(g, rest[1])
      /\ u = v + Uses(g) /\ u <= Len(st.levels)
      /\ x = y \o Piece(g, SubSeq(st.written.operands, v + 1, u))
      /\ Kind(g) \in {"infix", "RightOf"} => st.levels[u] >= Level(g)
      /\ Kind(g) = "EndExp" => st.written.close = <<g.token>>
  BY <1>4, <1>5, <1>6, <1>7 DEF Links
<1>9. /\ st \in States /\ Shaped(g) /\ rest \in Seq(Goals) /\ rest # <<>>
  BY <1>1, <1>3, <1>5
<1>10. /\ Waits(todo, st, x, u) /\ HeadWaits(todo, st, x, u, read, lookahead) /\ Waits(rest, st, y, v)
  BY <1>2, <1>4
<1>11. \E x1, y1 \in Seq(Words), u1, v1 \in Nat :
              /\ Waits(todo, st, x1, u1) /\ HeadWaits(todo, st, x1, u1, read, lookahead)
              /\ Waits(rest, st, y1, v1) /\ Joins(g, rest[1])
              /\ u1 = v1 + Uses(g) /\ u1 <= Len(st.levels)
              /\ x1 = y1 \o Piece(g, SubSeq(st.written.operands, v1 + 1, u1))
              /\ Kind(g) \in {"infix", "RightOf"} => st.levels[u1] >= Level(g)
              /\ Kind(g) = "EndExp" => st.written.close = <<g.token>>
  <2>. WITNESS x \in Seq(Words), y \in Seq(Words), u \in Nat, v \in Nat
  <2>. QED  BY <1>8, <1>10
<1>. QED  BY <1>9, <1>11 DEF st, g, rest

(* A goal of a statement or definition: all that has been read before has  *)
(* been appended.                                                          *)
LEMMA BegunHead ==
  ASSUME IInv, TextInv, status = "running", todo[1].do # "Program",
         Kind(todo[1]) \in BegunKinds \cup BottomKinds
  PROVE  LET st == State(tree) IN
         /\ st \in States /\ st.levels = <<>> /\ Shaped(todo[1])
         /\ Tail(todo) \in Seq(Goals) /\ IsBottom(Tail(todo)[1])
         /\ \A new \in States : Waits(Tail(todo), new, new.written.printed, 0)
         /\ read = st.written.printed \o Piece(todo[1], <<>>)
<1>. DEFINE st == State(tree)
            g == todo[1]
            rest == Tail(todo)
<1>1. /\ st \in States /\ Shaped(g) /\ rest \in Seq(Goals) /\ rest # <<>>
      /\ \E x, y \in Seq(Words), u, v \in Nat :
              /\ Waits(todo, st, x, u) /\ HeadWaits(todo, st, x, u, read, lookahead)
              /\ Waits(rest, st, y, v) /\ Joins(g, rest[1])
              /\ u = v + Uses(g) /\ u <= Len(st.levels)
              /\ x = y \o Piece(g, SubSeq(st.written.operands, v + 1, u))
              /\ Kind(g) \in {"infix", "RightOf"} => st.levels[u] >= Level(g)
              /\ Kind(g) = "EndExp" => st.written.close = <<g.token>>
  BY BehindHead
<1>. HIDE DEF st, rest
<1>2. PICK x \in Seq(Words), y \in Seq(Words), u \in Nat, v \in Nat :
        /\ HeadWaits(todo, st, x, u, read, lookahead)
        /\ Waits(rest, st, y, v) /\ Joins(g, rest[1])
        /\ u = v + Uses(g)
        /\ x = y \o Piece(g, SubSeq(st.written.operands, v + 1, u))
  BY <1>1
<1>3. ~Yields(g) /\ ~Takes(g) /\ Uses(g) = 0 /\ Kind(g) # "Ahead"
  BY BegunGoals
<1>4. IsBottom(rest[1])
  BY <1>2, <1>3 DEF Joins
<1>5. /\ y = st.written.printed /\ v = 0
      /\ \A new \in States : Waits(rest, new, new.written.printed, 0)
  BY <1>2, <1>4, BottomWaits
<1>6. u = 0 /\ SubSeq(st.written.operands, v + 1, u) = <<>>
  <2>1. u = v /\ v \in Nat
    BY <1>2, <1>3
  <2>. QED  BY <1>5, <2>1, EmptySubSeq
<1>7. Len(st.levels) = u /\ read = x
  BY <1>2, <1>3 DEF HeadWaits, Due
<1>8. st.levels = <<>>
  <2>1. st.levels \in Seq(Precedences)
    BY <1>1, StateFields
  <2>. QED  BY <1>6, <1>7, <2>1, EmptySeq
<1>9. read = st.written.printed \o Piece(g, <<>>)
  <2>. HIDE DEF g
  <2>. QED  BY <1>2, <1>5, <1>6, <1>7
<1>. QED  BY <1>1, <1>4, <1>5, <1>8, <1>9 DEF st, rest

(* A goal of a primary expression that has read no operand.                *)
LEMMA PrimaryHead ==
  ASSUME IInv, TextInv, status = "running", todo[1].do # "Program",
         Kind(todo[1]) \in {"Primary", "UnaryOp", "VarOrCall", "Args", "FirstArg", "NoArgs"}
  PROVE  LET st == State(tree) IN
         /\ st \in States /\ Tail(todo) \in Seq(Goals)
         /\ \E y \in Seq(Words), v \in Nat :
              /\ Waits(Tail(todo), st, y, v) /\ Len(st.levels) = v
              /\ read = y \o Piece(todo[1], <<>>)
         /\ Joins(todo[1], Tail(todo)[1]) /\ Kind(todo[1]) \in PrimaryKinds
<1>. DEFINE st == State(tree)
            g == todo[1]
            rest == Tail(todo)
<1>1. /\ st \in States /\ Shaped(g) /\ rest \in Seq(Goals) /\ rest # <<>>
      /\ \E x, y \in Seq(Words), u, v \in Nat :
              /\ Waits(todo, st, x, u) /\ HeadWaits(todo, st, x, u, read, lookahead)
              /\ Waits(rest, st, y, v) /\ Joins(g, rest[1])
              /\ u = v + Uses(g) /\ u <= Len(st.levels)
              /\ x = y \o Piece(g, SubSeq(st.written.operands, v + 1, u))
              /\ Kind(g) \in {"infix", "RightOf"} => st.levels[u] >= Level(g)
              /\ Kind(g) = "EndExp" => st.written.close = <<g.token>>
  BY BehindHead
<1>. HIDE DEF st, rest
<1>2. PICK x \in Seq(Words), y \in Seq(Words), u \in Nat, v \in Nat :
        /\ HeadWaits(todo, st, x, u, read, lookahead)
        /\ Waits(rest, st, y, v) /\ Joins(g, rest[1])
        /\ u = v + Uses(g)
        /\ x = y \o Piece(g, SubSeq(st.written.operands, v + 1, u))
  BY <1>1
<1>3. ~Takes(g) /\ Uses(g) = 0 /\ Kind(g) # "Ahead" /\ Kind(g) \in PrimaryKinds
  BY DEF Takes, TakingKinds, Uses, PrimaryKinds
<1>6. u = v /\ SubSeq(st.written.operands, v + 1, u) = <<>>
  <2>1. u = v /\ v \in Nat
    BY <1>2, <1>3
  <2>. QED  BY <2>1, EmptySubSeq
<1>7. Len(st.levels) = v /\ read = x
  BY <1>2, <1>3, <1>6 DEF HeadWaits, Due
<1>9. read = y \o Piece(g, <<>>)
  <2>. HIDE DEF g
  <2>. QED  BY <1>2, <1>6, <1>7
<1>. QED  BY <1>1, <1>2, <1>3, <1>7, <1>9 DEF st, rest

-----------------------------------------------------------------------------
(* Steps                                                                   *)

\* Nothing is appended, or a node.
Appending(nodes, new) ==
  \/ nodes = <<>> /\ new = State(tree)
  \/ \E node \in TreeNodes : nodes = <<node>> /\ new = After(State(tree), node)

(* A step that replaces the first goal.                                    *)
LEMMA TextStep ==
  ASSUME IInv, status = "running", NEW goals, NEW nodes, NEW new, Appending(nodes, new),
         Go(goals, nodes) \/ Take(goals, nodes),
         NEW text,
         Go(goals, nodes) => text = read,
         Take(goals, nodes) => text = read \o <<lookahead>>,
         \A ahead \in Tokens : (Go(goals, nodes) => ahead = lookahead) =>
             Stands(goals \o Tail(todo), new, text, ahead)
  PROVE  TextInv'
<1>1. tree \in Seq(TreeNodes) /\ read \in Seq(Tokens) /\ lookahead \in Tokens
  BY DEF IInv, TypeOK
<1>2. tree' = tree \o nodes /\ todo' = goals \o Tail(todo) /\ status' = "running"
  BY DEF Go, Take
<1>3. State(tree \o nodes) = new
  <2>1. CASE nodes = <<>> /\ new = State(tree)
    <3>1. tree \o <<>> = tree
      BY <1>1
    <3>. QED  BY <2>1, <3>1
  <2>2. CASE \E node \in TreeNodes : nodes = <<node>> /\ new = After(State(tree), node)
    BY <1>1, <2>2, StateNext
  <2>. QED  BY <2>1, <2>2 DEF Appending
<1>4. read' = text /\ lookahead' \in Tokens /\ (Go(goals, nodes) => lookahead' = lookahead)
  <2>1. CASE Go(goals, nodes)
    BY <1>1, <2>1 DEF Go
  <2>2. CASE Take(goals, nodes) /\ ~Go(goals, nodes)
    <3>1. Append(read, lookahead) = read \o <<lookahead>>
      BY <1>1, AppendIsConcat
    <3>2. read' = Append(read, lookahead) /\ lookahead' \in Tokens
      BY <2>2 DEF Take
    <3>. QED  BY <2>2, <3>1, <3>2
  <2>. QED  BY <2>1, <2>2
<1>5. State(tree)' = new
  BY <1>2, <1>3
<1>6. Stands(todo, State(tree), read, lookahead)'
  BY <1>2, <1>4, <1>5
<1>. QED  BY <1>2, <1>6 DEF TextInv

LEMMA GoText ==
  ASSUME IInv, status = "running", NEW goals, NEW nodes, NEW new, Appending(nodes, new),
         Go(goals, nodes), Stands(goals \o Tail(todo), new, read, lookahead)
  PROVE  TextInv'
<1>1. ~Take(goals, nodes)
  <2>1. read \in Seq(Tokens) /\ lookahead \in Tokens
    BY DEF IInv, TypeOK
  <2>2. Append(read, lookahead) # read
    BY <2>1
  <2>. QED  BY <2>2 DEF Take, Go
<1>. QED  BY <1>1, TextStep

LEMMA TakeText ==
  ASSUME IInv, status = "running", NEW goals, NEW nodes, NEW new, Appending(nodes, new),
         Take(goals, nodes), NEW text, text = read \o <<lookahead>>,
         \A ahead \in Tokens : Stands(goals \o Tail(todo), new, text, ahead)
  PROVE  TextInv'
<1>1. ~Go(goals, nodes)
  <2>1. read \in Seq(Tokens) /\ lookahead \in Tokens
    BY DEF IInv, TypeOK
  <2>2. Append(read, lookahead) # read
    BY <2>1
  <2>. QED  BY <2>2 DEF Take, Go
<1>. QED  BY <1>1, TextStep

-----------------------------------------------------------------------------
(* Goals of expressions                                                    *)

(* Tuples in a row.                                                        *)
LEMMA TupleAppended ==
  ASSUME NEW S, NEW s \in Seq(S), NEW x \in S, NEW t \in Seq(S), NEW n \in Nat, n = Len(s),
         Len(t) = n + 1, t[n + 1] = x, \A k \in 1 .. n : t[k] = s[k]
  PROVE  Append(s, x) = t /\ s \o <<x>> = t
<1>. DEFINE new == Append(s, x)
<1>1. new \in Seq(S) /\ Len(new) = n + 1 /\ new[n + 1] = x /\ \A k \in 1 .. n : new[k] = s[k]
  BY AppendProperties
<1>. HIDE DEF new
<1>2. \A k \in 1 .. n + 1 : new[k] = t[k]
  BY <1>1
<1>3. new = t
  BY <1>1, <1>2, SeqEqual
<1>4. new = s \o <<x>>
  BY AppendIsConcat DEF new
<1>. QED  BY <1>3, <1>4 DEF new

LEMMA PairJoined ==
  ASSUME NEW S, NEW x \in S, NEW y \in S
  PROVE  <<x>> \o <<y>> = <<x, y>>
<1>. DEFINE s == <<x>>
            t == <<x, y>>
            n == 1
<1>1. s = <<x>> /\ t = <<x, y>>
  OBVIOUS
<1>2. s \in Seq(S) /\ Len(s) = n /\ s[1] = x
  OBVIOUS
<1>3. t \in Seq(S) /\ Len(t) = n + 1 /\ t[1] = x /\ t[n + 1] = y /\ n \in Nat
  OBVIOUS
<1>. HIDE DEF s, t
<1>4. \A k \in 1 .. n : t[k] = s[k]
  BY <1>2, <1>3
<1>. HIDE DEF n
<1>5. s \o <<y>> = t
  BY <1>2, <1>3, <1>4, TupleAppended
<1>. QED  BY <1>1, <1>5

LEMMA TuplesJoined ==
  ASSUME NEW S, NEW x \in S, NEW y \in S, NEW z \in S
  PROVE  <<x, y>> \o <<z>> = <<x, y, z>> /\ <<x>> \o <<y, z>> = <<x, y, z>>
<1>. DEFINE s == <<x, y>>
            t == <<x, y, z>>
            n == 2
<1>1. s = <<x, y>> /\ t = <<x, y, z>>
  OBVIOUS
<1>2. s \in Seq(S) /\ Len(s) = n /\ s[1] = x /\ s[2] = y
  OBVIOUS
<1>3. /\ t \in Seq(S) /\ Len(t) = n + 1 /\ t[1] = x /\ t[2] = y /\ t[n + 1] = z /\ n \in Nat
  OBVIOUS
<1>. HIDE DEF s, t
<1>4. \A k \in 1 .. n : t[k] = s[k]
  BY <1>2, <1>3
<1>. HIDE DEF n
<1>5. s \o <<z>> = t
  BY <1>2, <1>3, <1>4, TupleAppended
<1>6. <<x>> \in Seq(S) /\ <<y>> \in Seq(S) /\ <<z>> \in Seq(S)
  BY OneWord
<1>7. (<<x>> \o <<y>>) \o <<z>> = <<x>> \o (<<y>> \o <<z>>)
  BY <1>6, ConcatAssociative
<1>. QED  BY <1>1, <1>5, <1>7, PairJoined

LEMMA GoalsJoined ==
  ASSUME NEW a \in Goals, NEW b \in Goals, NEW s \in Seq(Goals)
  PROVE  <<a, b>> \o s = <<a>> \o (<<b>> \o s)
<1>1. <<a>> \in Seq(Goals) /\ <<b>> \in Seq(Goals)
  BY OneWord
<1>2. <<a>> \o <<b>> = <<a, b>>
  BY PairJoined
<1>3. (<<a>> \o <<b>>) \o s = <<a>> \o (<<b>> \o s)
  BY <1>1, ConcatAssociative
<1>. QED  BY <1>2, <1>3

LEMMA GoalsOfExp ==
  /\ Do("Primary") \in Goals /\ Remaining(0) \in Goals /\ Exp \in Seq(Goals)
  /\ Shaped(Do("Primary")) /\ Shaped(Remaining(0))
  /\ Exp = <<Do("Primary"), Remaining(0)>>
<1>1. Do("Primary") \in Goals /\ Remaining(0) \in Goals
  BY PlainGoalTypes DEF PlainGoals, Precedences
<1>2. Shaped(Do("Primary")) /\ Shaped(Remaining(0))
  BY DEF Shaped, Do, Remaining
<1>. QED  BY <1>1, <1>2, TwoWords DEF Exp

(* A primary expression, which is followed by what takes it.               *)
LEMMA PushPrimary ==
  ASSUME NEW g \in Goals, Shaped(g), Kind(g) \in {"Primary", "UnaryOp", "VarOrCall", "Args", "FirstArg"},
         NEW goals, NEW st \in States, NEW x \in Seq(Words), NEW u \in Nat,
         Waits(goals, st, x, u), Len(st.levels) = u, Takes(goals[1]), Kind(goals[1]) # "infix",
         NEW y \in Seq(Words), y = x \o Piece(g, <<>>)
  PROVE  /\ Waits(<<g>> \o goals, st, y, u)
         /\ \A ahead : Stands(<<g>> \o goals, st, y, ahead)
         /\ \A t \in Punctuation : \A text, ahead : y = text \o <<t>> =>
              Stands(<<Skip(t, <<>>)>> \o (<<g>> \o goals), st, text, ahead)
         /\ (<<g>> \o goals)[1] = g
<1>. DEFINE all == <<g>> \o goals
<1>1. Kind(g) \in PrimaryKinds /\ Yields(g) /\ ~Takes(g) /\ Uses(g) = 0
      /\ Kind(g) \notin {"Ahead", "infix", "RightOf", "EndExp"}
  BY DEF PrimaryKinds, Yields, YieldingKinds, Takes, TakingKinds, Uses
<1>2. Joins(g, goals[1])
  <2>1. Kind(goals[1]) # "Ahead"
    BY DEF Takes, TakingKinds
  <2>. QED  BY <1>1, <2>1 DEF Joins, Climbs
<1>3. u <= Len(st.levels)
  OBVIOUS
<1>4. Waits(all, st, y, u)
  BY <1>1, <1>2, <1>3, PushZero
<1>5. all[1] = g
  <2>1. goals \in Seq(Goals)
    BY DEF Waits, Chained
  <2>. QED  BY <2>1, InFront
<1>. HIDE DEF all
<1>6. \A ahead : Stands(all, st, y, ahead)
  BY <1>1, <1>4, <1>5, StandsPlain
<1>7. ASSUME NEW t \in Punctuation, NEW text, NEW ahead, y = text \o <<t>>
      PROVE  Stands(<<Skip(t, <<>>)>> \o all, st, text, ahead)
  BY <1>1, <1>4, <1>5, <1>7, StandsAhead
<1>. QED  BY <1>4, <1>5, <1>6, <1>7 DEF all

(* An expression, with all that remains of it.                             *)
LEMMA PushExp ==
  ASSUME NEW goals, NEW st \in States, NEW x \in Seq(Words), NEW u \in Nat,
         Waits(goals, st, x, u), Len(st.levels) = u,
         Kind(goals[1]) \in {"EndExp", "Paren", "NextArg", "LastArg"}
  PROVE  /\ Exp \o goals \in Seq(Goals)
         /\ \A ahead : Stands(Exp \o goals, st, x, ahead)
         /\ \A t \in Punctuation : \A text, ahead : x = text \o <<t>> =>
              Stands(<<Skip(t, <<>>)>> \o (Exp \o goals), st, text, ahead)
<1>. DEFINE r == Remaining(0)
            p == Do("Primary")
            mid == <<r>> \o goals
<1>1. goals \in Seq(Goals)
  BY DEF Waits, Chained
<1>2. r \in Goals /\ p \in Goals /\ Shaped(r) /\ Shaped(p) /\ Exp = <<p, r>>
  BY GoalsOfExp
<1>3. Kind(r) = "Remaining" /\ Kind(p) = "Primary"
  BY KindOf
<1>. HIDE DEF r, p
<1>4. Exp \o goals = <<p>> \o mid /\ mid \in Seq(Goals) /\ Exp \o goals \in Seq(Goals)
  <2>1. <<p, r>> \o goals = <<p>> \o mid
    BY <1>1, <1>2, GoalsJoined
  <2>2. mid \in Seq(Goals)
    BY <1>1, <1>2, InFront
  <2>. HIDE DEF mid
  <2>3. <<p>> \o mid \in Seq(Goals)
    BY <1>2, <2>2, InFront
  <2>. QED  BY <1>2, <2>1, <2>2, <2>3
<1>5. mid[1] = r
  BY <1>1, <1>2, InFront
<1>6. Joins(r, goals[1])
  <2>1. Takes(goals[1]) /\ Yields(r)
    BY <1>3 DEF Takes, TakingKinds, Yields, YieldingKinds
  <2>2. goals[1].do = "Remaining" => Kind(goals[1]) = "Remaining"
    BY DEF Kind
  <2>. QED  BY <1>3, <2>1, <2>2 DEF Joins, Climbs
<1>7. Uses(r) = 0 /\ Piece(r, <<>>) = <<>> /\ Piece(p, <<>>) = <<>>
  BY <1>3 DEF Uses, Piece
<1>8. x = x \o Piece(r, <<>>) /\ x = x \o Piece(p, <<>>)
  BY <1>7
<1>9. Waits(mid, st, x, u)
  <2>1. u <= Len(st.levels) /\ Kind(r) \notin {"infix", "RightOf", "EndExp"}
    BY <1>3
  <2>. QED  BY <1>2, <1>6, <1>7, <1>8, <2>1, PushZero
<1>10. Takes(mid[1]) /\ Kind(mid[1]) # "infix"
  BY <1>3, <1>5 DEF Takes, TakingKinds
<1>. HIDE DEF mid
<1>11. Kind(p) \in {"Primary", "UnaryOp", "VarOrCall", "Args", "FirstArg"}
  BY <1>3
<1>12. /\ \A ahead : Stands(<<p>> \o mid, st, x, ahead)
       /\ \A t \in Punctuation : \A text, ahead : x = text \o <<t>> =>
              Stands(<<Skip(t, <<>>)>> \o (<<p>> \o mid), st, text, ahead)
  BY <1>2, <1>8, <1>9, <1>10, <1>11, PushPrimary
<1>. QED  BY <1>4, <1>12

(* The expression of a statement.                                          *)
LEMMA PushLast ==
  ASSUME NEW goals, NEW st \in States, st.levels = <<>>,
         Waits(goals, st, st.written.printed, 0), IsBottom(goals[1]),
         NEW t \in Punctuation, st.written.close = <<t>>
  PROVE  LET last == Skip(t, <<End>>)
             all == <<last>> \o goals
         IN
         /\ last \in Goals /\ Kind(last) = "EndExp" /\ all \in Seq(Goals) /\ all[1] = last
         /\ Waits(all, st, st.written.printed, 0)
         /\ \A ahead : Stands(Exp \o all, st, st.written.printed, ahead)
         /\ \A b \in Punctuation : \A text, ahead : st.written.printed = text \o <<b>> =>
              Stands(<<Skip(b, <<>>)>> \o (Exp \o all), st, text, ahead)
<1>. DEFINE last == Skip(t, <<End>>)
            all == <<last>> \o goals
            p == st.written.printed
<1>1. End \in TreeNodes /\ End.n = "EndExp"
  BY NodeTypes DEF End, Mark, Marks
<1>2. last \in Goals
  <2>1. <<End>> \in Seq(TreeNodes)
    BY <1>1, OneWord
  <2>2. last \in PlainGoals
    BY <2>1, PlainGoalTypes
  <2>. QED  BY <2>2 DEF PlainGoals
<1>3. Kind(last) = "EndExp"
  BY <1>1, KindOf
<1>4. Shaped(last) /\ last.token = t
  <2>1. last.do = "Skip" /\ last.nodes = <<End>> /\ last.token = t
    BY DEF Skip
  <2>. HIDE DEF last
  <2>. QED  BY <1>1, <2>1 DEF Shaped
<1>5. goals \in Seq(Goals)
  BY DEF Waits, Chained
<1>. HIDE DEF last
<1>6. all \in Seq(Goals) /\ all[1] = last
  BY <1>2, <1>5, InFront
<1>7. ~Yields(last) /\ Uses(last) = 0 /\ Piece(last, <<>>) = <<>>
  BY <1>3 DEF Yields, YieldingKinds, PrimaryKinds, Uses, Piece
<1>8. Joins(last, goals[1])
  <2>1. ~Takes(goals[1]) /\ Kind(goals[1]) \notin {"Ahead", "infix", "RightOf", "prefix"}
        /\ goals[1].do # "Remaining"
    <3>1. goals[1].do = "Remaining" => Kind(goals[1]) = "Remaining"
      BY DEF Kind
    <3>. QED  BY <3>1, KindSets DEF IsBottom, BottomKinds
  <2>. QED  BY <1>7, <2>1 DEF Joins, Climbs
<1>9. p \in Seq(Words) /\ Len(st.levels) = 0
  BY StateFields
<1>10. p = p \o <<>>
  BY <1>9
<1>. HIDE DEF p
<1>11. Waits(goals, st, p, 0) /\ p = p \o Piece(last, <<>>)
  BY <1>7, <1>10 DEF p
<1>12. Waits(all, st, p, 0)
  <2>. DEFINE args == SubSeq(st.written.operands, 0 + 1, 0)
  <2>1. args = <<>>
    BY EmptySubSeq
  <2>. HIDE DEF args
  <2>2. p = p \o Piece(last, args) /\ 0 = 0 + Uses(last) /\ 0 <= 0
    BY <1>7, <1>11, <2>1
  <2>3. 0 <= Len(st.written.operands)
    BY StateFields
  <2>4. Kind(last) \in {"infix", "RightOf"} => st.levels[0] >= Level(last)
    BY <1>3
  <2>5. Kind(last) = "EndExp" => st.written.close = <<last.token>>
    BY <1>4
  <2>. QED  BY <1>2, <1>4, <1>8, <1>9, <1>11, <2>2, <2>3, <2>4, <2>5, Push DEF args
<1>. HIDE DEF all
<1>13. Kind(all[1]) \in {"EndExp", "Paren", "NextArg", "LastArg"}
  BY <1>3, <1>6
<1>14. /\ \A ahead : Stands(Exp \o all, st, p, ahead)
       /\ \A b \in Punctuation : \A text, ahead : p = text \o <<b>> =>
              Stands(<<Skip(b, <<>>)>> \o (Exp \o all), st, text, ahead)
  BY <1>9, <1>12, <1>13, PushExp
<1>. QED  BY <1>2, <1>3, <1>6, <1>12, <1>14 DEF all, last, p

-----------------------------------------------------------------------------
(* Operands that have become one                                           *)

LEMMA ValueStands ==
  ASSUME NEW rest, NEW st \in States, NEW y \in Seq(Words), NEW v \in Nat, Waits(rest, st, y, v),
         NEW new, NEW value, NEW level, Valued(st, new, v, value, level),
         NEW text, text = y \o value, NEW ahead, Takes(rest[1]), Held(rest[1], level, ahead)
  PROVE  Stands(rest, new, text, ahead)
<1>1. /\ new \in States /\ Len(new.levels) = v + 1 /\ Len(new.written.operands) = v + 1
      /\ new.written.operands[v + 1] = value /\ new.levels[v + 1] = level
  BY StateFields DEF Valued
<1>2. Waits(rest, new, y, v)
  <2>1. v <= Len(new.written.operands)
    BY <1>1
  <2>. QED  BY <1>1, <2>1, SameBelow DEF Valued
<1>3. Kind(rest[1]) # "Ahead"
  BY DEF Takes, TakingKinds
<1>4. HeadWaits(rest, new, y, v, text, ahead)
  BY <1>1, <1>3 DEF HeadWaits, Due
<1>. QED  BY <1>1, <1>2, <1>4 DEF Stands

(* A primary expression is complete.                                       *)
LEMMA PrimaryStands ==
  ASSUME NEW g, Kind(g) \in PrimaryKinds, NEW rest, Joins(g, rest[1]),
         NEW st \in States, NEW y \in Seq(Words), NEW v \in Nat, Waits(rest, st, y, v),
         NEW new, NEW value, Valued(st, new, v, value, Primary),
         NEW text, text = y \o value, NEW ahead \in Tokens
  PROVE  Stands(rest, new, text, ahead)
<1>1. Takes(rest[1]) /\ Kind(rest[1]) # "infix"
  BY PrimaryJoins
<1>2. rest[1] \in Goals
  BY DEF Waits, Chained
<1>3. Held(rest[1], Primary, ahead)
  <2>1. rest[1].do = "Remaining" => Primary >= rest[1].prec
    <3>1. rest[1].do = "Remaining" => rest[1].prec \in 0 .. 6
      BY <1>2, GoalFields DEF Precedences
    <3>. QED  BY <3>1 DEF Primary
  <2>2. Primary >= Precedence(ahead)
    BY Levels0To5 DEF Primary
  <2>. QED  BY <1>1, <2>1, <2>2 DEF Held
<1>. QED  BY <1>1, <1>3, ValueStands

-----------------------------------------------------------------------------
(* Tokens that are skipped                                                 *)

LEMMA SkipAhead ==
  ASSUME IInv, TextInv, Doing("Skip"), Take(<<>>, todo[1].nodes),
         lookahead = todo[1].token, Kind(todo[1]) = "Ahead", todo[1].nodes = <<>>
  PROVE  TextInv'
<1>. DEFINE st == State(tree)
            g == todo[1]
            rest == Tail(todo)
            text == read \o <<lookahead>>
<1>1. /\ status = "running" /\ Head(todo) = todo[1] /\ Kind(g) = "Ahead"
      /\ lookahead = g.token /\ g.do = "Skip"
  BY HeadOfText DEF Doing
<1>2. /\ st \in States /\ rest \in Seq(Goals)
      /\ \E x, y \in Seq(Words), u, v \in Nat :
              /\ HeadWaits(todo, st, x, u, read, lookahead)
              /\ Waits(rest, st, y, v) /\ Joins(g, rest[1])
              /\ u = v + Uses(g) /\ u <= Len(st.levels)
              /\ x = y \o Piece(g, SubSeq(st.written.operands, v + 1, u))
  BY <1>1, BehindHead
<1>. HIDE DEF st, rest
<1>3. PICK x \in Seq(Words), y \in Seq(Words), u \in Nat, v \in Nat :
        /\ HeadWaits(todo, st, x, u, read, lookahead)
        /\ Waits(rest, st, y, v) /\ Joins(g, rest[1])
        /\ u = v + Uses(g)
        /\ x = y \o Piece(g, SubSeq(st.written.operands, v + 1, u))
  BY <1>2
<1>4. ~Yields(g) /\ ~Takes(g) /\ Uses(g) = 0 /\ \A args : Piece(g, args) = <<>>
  BY <1>1, KindSets
<1>5. Len(st.levels) = u /\ text = x
  BY <1>1, <1>3, <1>4 DEF HeadWaits, Due
<1>6. u = v /\ x = y
  <2>1. y \o <<>> = y
    BY ConcatEmptySeq
  <2>. HIDE DEF g
  <2>. QED  BY <1>3, <1>4, <2>1
<1>7. ~Takes(rest[1]) /\ Kind(rest[1]) # "Ahead"
  BY <1>3, <1>4 DEF Joins
<1>8. \A ahead : Stands(rest, st, text, ahead)
  <2>. HIDE DEF text
  <2>. QED  BY <1>2, <1>3, <1>5, <1>6, <1>7, StandsPlain
<1>9. <<>> \o rest = rest
  BY <1>2, ConcatEmptySeq
<1>10. Appending(<<>>, st) /\ Take(<<>>, <<>>)
  BY DEF Appending, st
<1>. QED  BY <1>8, <1>9, <1>10, <1>1, TakeText DEF rest, text

(* A node is appended between expressions.                                 *)
LEMMA BottomStands ==
  ASSUME NEW rest, NEW st \in States, st.levels = <<>>, Waits(rest, st, st.written.printed, 0),
         IsBottom(rest[1])
  PROVE  \A ahead : Stands(rest, st, st.written.printed, ahead)
<1>1. st.written.printed \in Seq(Words) /\ Len(st.levels) = 0
  BY StateFields
<1>2. ~Takes(rest[1]) /\ Kind(rest[1]) # "Ahead"
  BY KindSets
<1>. QED  BY <1>1, <1>2, StandsPlain

LEMMA NodeAfter ==
  ASSUME IInv, TextInv, status = "running", todo[1].do # "Program",
         Kind(todo[1]) \in BegunKinds \cup BottomKinds,
         NEW node \in TreeNodes, node.n \notin OperandKinds
  PROVE  LET st == State(tree)
             new == After(st, node)
             rest == Tail(todo)
         IN
         /\ st \in States /\ st.written.printed \in Seq(Words) /\ new \in States
         /\ new.levels = <<>> /\ Appending(<<node>>, new) /\ rest \in Seq(Goals)
         /\ new.written.printed = st.written.printed \o NodeText(node)
         /\ new.written.printed \in Seq(Words)
         /\ new.written.close = NodeClose(node, st.written.close)
         /\ Waits(rest, new, new.written.printed, 0) /\ IsBottom(rest[1])
         /\ read = st.written.printed \o Piece(todo[1], <<>>)
<1>. DEFINE st == State(tree)
            new == After(st, node)
            rest == Tail(todo)
<1>1. /\ st \in States /\ st.levels = <<>> /\ rest \in Seq(Goals) /\ IsBottom(rest[1])
      /\ \A to \in States : Waits(rest, to, to.written.printed, 0)
      /\ read = st.written.printed \o Piece(todo[1], <<>>)
  BY BegunHead
<1>2. Appending(<<node>>, new)
  BY DEF Appending
<1>. HIDE DEF st, rest
<1>3. Stated(st, new, NodeText(node)) /\ new.written.close = NodeClose(node, st.written.close)
  BY <1>1, NodeStated
<1>4. st.written.printed \in Seq(Words)
  BY <1>1, StateFields
<1>. HIDE DEF new
<1>5. /\ new \in States /\ new.levels = <<>>
      /\ new.written.printed = st.written.printed \o NodeText(node)
  BY <1>3 DEF Stated
<1>6. new.written.printed \in Seq(Words) /\ Waits(rest, new, new.written.printed, 0)
  BY <1>1, <1>5, StateFields
<1>. QED  BY <1>1, <1>2, <1>3, <1>4, <1>5, <1>6 DEF st, rest, new

LEMMA SkipBegun ==
  ASSUME IInv, TextInv, Doing("Skip"), NEW node \in TreeNodes, todo[1].nodes = <<node>>,
         Take(<<>>, todo[1].nodes), lookahead = todo[1].token, node.n \in {"Seq", "Func"}
  PROVE  TextInv'
<1>. DEFINE st == State(tree)
            new == After(st, node)
            g == todo[1]
            rest == Tail(todo)
            text == read \o <<lookahead>>
<1>1. /\ status = "running" /\ Head(todo) = g /\ g \in Goals /\ g.do = "Skip" /\ g.do # "Program"
      /\ g.nodes = <<node>> /\ lookahead = g.token
  BY HeadOfText DEF Doing
<1>2. Shaped(g)
  BY <1>1, BehindHead
<1>. HIDE DEF g
<1>3. PICK other \in TreeNodes :
        /\ g.nodes = <<other>>
        /\ \/ g.token = "{" /\ other.n = "Seq"
           \/ other.n = "EndExp"
           \/ g.token = ")" /\ other.n = "Paren"
           \/ g.token = ")" /\ other.n = "Call" /\ other.form = "args"
           \/ g.token = ";" /\ other.n = "Func" /\ ~other.def.body
  <2>1. g.nodes # <<>>
    BY <1>1
  <2>. QED  BY <1>1, <1>2, <2>1 DEF Shaped
<1>4. /\ Kind(g) = node.n
      /\ node.n = "Seq" => g.token = "{"
      /\ node.n = "Func" => g.token = ";" /\ ~node.def.body
  <2>1. g.nodes = <<node>> /\ g.nodes # <<>> /\ g.nodes[1] = node
    BY <1>1
  <2>2. \A a, b : <<a>> = <<b>> => a = b
    OBVIOUS
  <2>3. node = other
    BY <1>1, <1>3, <2>2
  <2>. QED  BY <1>1, <1>3, <2>1, <2>3 DEF Kind
<1>5. Kind(g) \in BegunKinds \cup BottomKinds /\ node.n \notin OperandKinds
  BY <1>4 DEF BegunKinds, OperandKinds
<1>6. /\ st \in States /\ st.written.printed \in Seq(Words) /\ new \in States
      /\ new.levels = <<>> /\ Appending(<<node>>, new) /\ rest \in Seq(Goals)
      /\ new.written.printed = st.written.printed \o NodeText(node)
      /\ Waits(rest, new, new.written.printed, 0) /\ IsBottom(rest[1])
      /\ read = st.written.printed \o Piece(g, <<>>)
  BY <1>1, <1>5, NodeAfter DEF g
<1>7. Piece(g, <<>>) \in Seq(Words) /\ NodeText(node) = Piece(g, <<>>) \o <<g.token>>
  <2>1. CASE node.n = "Seq"
    <3>1. Piece(g, <<>>) = <<>>
      BY <1>4, <2>1 DEF Piece
    <3>2. NodeText(node) = <<"{">>
      BY <2>1 DEF NodeText
    <3>3. <<"{">> \in Seq({"{"})
      OBVIOUS
    <3>4. <<>> \o <<"{">> = <<"{">>
      BY <3>3, ConcatEmptySeq
    <3>5. <<>> \in Seq(Words)
      OBVIOUS
    <3>. QED  BY <1>4, <2>1, <3>1, <3>2, <3>4, <3>5
  <2>2. CASE node.n = "Func"
    <3>1. Piece(g, <<>>) = Signed(node.def) \o <<")">>
      <4>1. g.nodes[1] = node /\ Kind(g) = "Func"
        <5>1. g.nodes[1] = node
          BY <1>1
        <5>. QED  BY <1>4, <2>2, <5>1
      <4>. QED  BY <4>1 DEF Piece
    <3>2. node.def \in FuncDefs
      BY <2>2, TreeFields
    <3>3. Signed(node.def) \in Seq(Words) /\ <<")">> \in Seq(Words)
      BY <3>2, SignedTyped, TokenWords, OneWord DEF Punctuation
    <3>4. NodeText(node) = (Signed(node.def) \o <<")">>) \o <<";">>
      BY <1>4, <2>2, <3>2, DefinitionText DEF NodeText
    <3>5. Signed(node.def) \o <<")">> \in Seq(Words)
      BY <3>3, JoinedWords
    <3>. QED  BY <1>4, <2>2, <3>1, <3>4, <3>5
  <2>. QED  BY <1>4, <2>1, <2>2
<1>. HIDE DEF st, new, rest
<1>8. text = new.written.printed
  <2>1. g.token \in Words
    BY <1>1, GoalFields, TokenWords
  <2>2. <<g.token>> \in Seq(Words)
    BY <2>1
  <2>. DEFINE piece == Piece(g, <<>>)
              last == <<g.token>>
  <2>3. text = read \o last
    BY <1>1
  <2>. HIDE DEF piece, last
  <2>4. (st.written.printed \o piece) \o last = st.written.printed \o (piece \o last)
    BY <1>6, <1>7, <2>2, Assoc DEF piece, last
  <2>. QED  BY <1>6, <1>7, <2>3, <2>4 DEF piece, last
<1>9. \A ahead : Stands(rest, new, text, ahead)
  BY <1>6, <1>8, BottomStands
<1>10. <<>> \o rest = rest
  BY <1>6, ConcatEmptySeq
<1>11. Take(<<>>, <<node>>)
  OBVIOUS
<1>. QED  BY <1>1, <1>6, <1>9, <1>10, <1>11, TakeText DEF rest, text

-----------------------------------------------------------------------------
(* Tokens that are skipped after an expression                             *)

\* What a goal that takes an operand has read and taken.
LEMMA TakingHead ==
  ASSUME IInv, TextInv, status = "running", Takes(todo[1])
  PROVE  LET st == State(tree)
             g == todo[1]
             rest == Tail(todo)
         IN
         /\ st \in States /\ Shaped(g) /\ g \in Goals /\ rest \in Seq(Goals) /\ rest # <<>>
         /\ \E x, y \in Seq(Words), u, v \in Nat :
              /\ Waits(todo, st, x, u) /\ Waits(rest, st, y, v) /\ Joins(g, rest[1])
              /\ u = v + Uses(g) /\ Len(st.levels) = u + 1
              /\ x = y \o Piece(g, SubSeq(st.written.operands, v + 1, u))
              /\ read = x \o st.written.operands[u + 1]
              /\ Held(g, st.levels[u + 1], lookahead)
              /\ Kind(g) \in {"infix", "RightOf"} => st.levels[u] >= Level(g)
              /\ Kind(g) = "EndExp" => st.written.close = <<g.token>>
<1>. DEFINE st == State(tree)
            g == todo[1]
            rest == Tail(todo)
<1>1. g \in Goals /\ g.do # "Program" /\ Kind(g) # "Ahead"
  <2>1. g \in Goals /\ Kind(g) # "Ahead"
    BY HeadOfText DEF Takes, TakingKinds
  <2>2. g.do = "Program" => Kind(g) = "Program"
    BY DEF Kind
  <2>. QED  BY <2>1, <2>2 DEF Takes, TakingKinds
<1>2. /\ st \in States /\ Shaped(g) /\ rest \in Seq(Goals) /\ rest # <<>>
      /\ \E x, y \in Seq(Words), u, v \in Nat :
              /\ Waits(todo, st, x, u) /\ HeadWaits(todo, st, x, u, read, lookahead)
              /\ Waits(rest, st, y, v) /\ Joins(g, rest[1])
              /\ u = v + Uses(g) /\ u <= Len(st.levels)
              /\ x = y \o Piece(g, SubSeq(st.written.operands, v + 1, u))
              /\ Kind(g) \in {"infix", "RightOf"} => st.levels[u] >= Level(g)
              /\ Kind(g) = "EndExp" => st.written.close = <<g.token>>
  BY <1>1, BehindHead
<1>. HIDE DEF st, rest
<1>3. PICK x \in Seq(Words), y \in Seq(Words), u \in Nat, v \in Nat :
              /\ Waits(todo, st, x, u) /\ HeadWaits(todo, st, x, u, read, lookahead)
              /\ Waits(rest, st, y, v) /\ Joins(g, rest[1])
              /\ u = v + Uses(g) /\ u <= Len(st.levels)
              /\ x = y \o Piece(g, SubSeq(st.written.operands, v + 1, u))
              /\ Kind(g) \in {"infix", "RightOf"} => st.levels[u] >= Level(g)
              /\ Kind(g) = "EndExp" => st.written.close = <<g.token>>
  BY <1>2
<1>4. /\ Len(st.levels) = u + 1 /\ read = x \o st.written.operands[u + 1]
      /\ Held(g, st.levels[u + 1], lookahead)
  BY <1>1, <1>3 DEF HeadWaits, Due
<1>. HIDE DEF g
<1>5. \E x1, y1 \in Seq(Words), u1, v1 \in Nat :
              /\ Waits(todo, st, x1, u1) /\ Waits(rest, st, y1, v1) /\ Joins(g, rest[1])
              /\ u1 = v1 + Uses(g) /\ Len(st.levels) = u1 + 1
              /\ x1 = y1 \o Piece(g, SubSeq(st.written.operands, v1 + 1, u1))
              /\ read = x1 \o st.written.operands[u1 + 1]
              /\ Held(g, st.levels[u1 + 1], lookahead)
              /\ Kind(g) \in {"infix", "RightOf"} => st.levels[u1] >= Level(g)
              /\ Kind(g) = "EndExp" => st.written.close = <<g.token>>
  <2>. WITNESS x \in Seq(Words), y \in Seq(Words), u \in Nat, v \in Nat
  <2>. QED  BY <1>3, <1>4
<1>. QED  BY <1>1, <1>2, <1>5 DEF st, g, rest

LEMMA SkipNode ==
  ASSUME NEW g, g.do = "Skip", NEW node, g.nodes = <<node>>, Shaped(g)
  PROVE  /\ g.nodes[1] = node
         /\ Kind(g) = (IF node.n # "Call" THEN node.n ELSE IF node.args = 0 THEN "NoArgs" ELSE "LastArg")
         /\ node.n = "Seq" => g.token = "{"
         /\ node.n \in {"Paren", "Call"} => g.token = ")"
         /\ node.n = "Call" => node.form = "args"
         /\ node.n = "Func" => g.token = ";" /\ ~node.def.body
         /\ node.n \in {"Seq", "EndExp", "Paren", "Call", "Func"}
<1>1. g.nodes # <<>>
  OBVIOUS
<1>2. PICK other \in TreeNodes :
        /\ g.nodes = <<other>>
        /\ \/ g.token = "{" /\ other.n = "Seq"
           \/ other.n = "EndExp"
           \/ g.token = ")" /\ other.n = "Paren"
           \/ g.token = ")" /\ other.n = "Call" /\ other.form = "args"
           \/ g.token = ";" /\ other.n = "Func" /\ ~other.def.body
  BY <1>1 DEF Shaped
<1>3. \A a, b : <<a>> = <<b>> => a = b
  OBVIOUS
<1>4. other = node
  BY <1>2, <1>3
<1>5. g.nodes[1] = node
  OBVIOUS
<1>6. Kind(g) = (IF node.n # "Call" THEN node.n ELSE IF node.args = 0 THEN "NoArgs" ELSE "LastArg")
  BY <1>1, <1>5 DEF Kind
<1>. QED  BY <1>2, <1>4, <1>5, <1>6

LEMMA SkipEnd ==
  ASSUME IInv, TextInv, Doing("Skip"), NEW node \in TreeNodes, todo[1].nodes = <<node>>,
         Take(<<>>, todo[1].nodes), lookahead = todo[1].token, node.n = "EndExp"
  PROVE  TextInv'
<1>. DEFINE st == State(tree)
            new == After(st, node)
            g == todo[1]
            rest == Tail(todo)
            text == read \o <<lookahead>>
<1>1. /\ status = "running" /\ Head(todo) = g /\ g \in Goals /\ g.do = "Skip" /\ g.do # "Program"
      /\ g.nodes = <<node>> /\ lookahead = g.token
  BY HeadOfText DEF Doing
<1>2. Kind(g) = "EndExp"
  <2>1. Shaped(g)
    BY <1>1, BehindHead
  <2>. HIDE DEF g
  <2>2. Kind(g) = (IF node.n # "Call" THEN node.n ELSE IF node.args = 0 THEN "NoArgs" ELSE "LastArg")
    BY <1>1, <2>1, SkipNode
  <2>. QED  BY <2>2
<1>3. Takes(g)
  BY <1>2 DEF Takes, TakingKinds
<1>4. /\ st \in States /\ rest \in Seq(Goals)
      /\ \E x, y \in Seq(Words), u, v \in Nat :
              /\ Waits(todo, st, x, u) /\ Waits(rest, st, y, v) /\ Joins(g, rest[1])
              /\ u = v + Uses(g) /\ Len(st.levels) = u + 1
              /\ x = y \o Piece(g, SubSeq(st.written.operands, v + 1, u))
              /\ read = x \o st.written.operands[u + 1]
              /\ Held(g, st.levels[u + 1], lookahead)
              /\ Kind(g) \in {"infix", "RightOf"} => st.levels[u] >= Level(g)
              /\ Kind(g) = "EndExp" => st.written.close = <<g.token>>
  BY <1>1, <1>3, TakingHead
<1>. HIDE DEF st, rest, g
<1>5. PICK x \in Seq(Words), y \in Seq(Words), u \in Nat, v \in Nat :
              /\ Waits(rest, st, y, v) /\ Joins(g, rest[1])
              /\ u = v + Uses(g) /\ Len(st.levels) = u + 1
              /\ x = y \o Piece(g, SubSeq(st.written.operands, v + 1, u))
              /\ read = x \o st.written.operands[u + 1]
              /\ st.written.close = <<g.token>>
  BY <1>2, <1>4
<1>6. ~Yields(g) /\ Kind(g) # "Ahead" /\ Uses(g) = 0 /\ \A args : Piece(g, args) = <<>>
  BY <1>2 DEF Yields, YieldingKinds, PrimaryKinds, Uses, Piece
<1>7. IsBottom(rest[1])
  BY <1>5, <1>6 DEF Joins
<1>8. /\ y = st.written.printed /\ v = 0
      /\ \A to \in States : Waits(rest, to, to.written.printed, 0)
  BY <1>5, <1>7, BottomWaits
<1>9. u = 0 /\ x = st.written.printed
  <2>1. y \o <<>> = y
    BY ConcatEmptySeq
  <2>2. Piece(g, SubSeq(st.written.operands, v + 1, u)) = <<>>
    BY <1>6
  <2>3. x = y
    BY <1>5, <2>1, <2>2
  <2>4. u = 0
    BY <1>5, <1>6, <1>8
  <2>. QED  BY <1>8, <2>3, <2>4
<1>10. Len(st.levels) = 1 /\ read = st.written.printed \o st.written.operands[1]
  <2>1. u + 1 = 1
    BY <1>9
  <2>. QED  BY <1>5, <1>9, <2>1
<1>11. Stated(st, new, st.written.operands[1] \o st.written.close)
  BY <1>4, <1>10, ExpStated
<1>12. text = new.written.printed
  <2>. DEFINE operand == st.written.operands[1]
              p == st.written.printed
              c == st.written.close
  <2>1. operand \in Seq(Words) /\ p \in Seq(Words) /\ c \in Seq(Words)
    <3>1. /\ st.written.operands \in Seq(Texts) /\ Len(st.written.operands) = 1
          /\ st.written.printed \in Seq(Words) /\ st.written.close \in Seq(Words)
      BY <1>4, <1>10, StateFields
    <3>2. operand \in Texts
      BY <3>1
    <3>. QED  BY <3>1, <3>2 DEF Texts
  <2>2. text = read \o c
    BY <1>1, <1>5
  <2>3. new.written.printed = p \o (operand \o c) /\ read = p \o operand
    BY <1>10, <1>11 DEF Stated
  <2>. HIDE DEF operand, text, p, c
  <2>4. (p \o operand) \o c = p \o (operand \o c)
    BY <2>1, Assoc
  <2>. QED  BY <2>2, <2>3, <2>4
<1>13. \A ahead : Stands(rest, new, text, ahead)
  <2>1. new \in States /\ new.levels = <<>>
    BY <1>11 DEF Stated
  <2>. HIDE DEF new
  <2>. QED  BY <1>7, <1>8, <1>12, <2>1, BottomStands
<1>14. Appending(<<node>>, new)
  BY DEF Appending, st
<1>15. <<>> \o rest = rest
  BY <1>4, ConcatEmptySeq
<1>16. Take(<<>>, <<node>>)
  OBVIOUS
<1>. QED  BY <1>1, <1>13, <1>14, <1>15, <1>16, TakeText DEF rest, text

LEMMA SkipParen ==
  ASSUME IInv, TextInv, Doing("Skip"), NEW node \in TreeNodes, todo[1].nodes = <<node>>,
         Take(<<>>, todo[1].nodes), lookahead = todo[1].token, node.n = "Paren"
  PROVE  TextInv'
<1>. DEFINE st == State(tree)
            new == After(st, node)
            g == todo[1]
            rest == Tail(todo)
            text == read \o <<lookahead>>
<1>1. /\ status = "running" /\ Head(todo) = g /\ g \in Goals /\ g.do = "Skip" /\ g.do # "Program"
      /\ g.nodes = <<node>> /\ lookahead = g.token
  BY HeadOfText DEF Doing
<1>2. Kind(g) = "Paren" /\ g.token = ")"
  <2>1. Shaped(g)
    BY <1>1, BehindHead
  <2>. HIDE DEF g
  <2>2. /\ Kind(g) = (IF node.n # "Call" THEN node.n ELSE IF node.args = 0 THEN "NoArgs" ELSE "LastArg")
        /\ node.n \in {"Paren", "Call"} => g.token = ")"
    BY <1>1, <2>1, SkipNode
  <2>. QED  BY <2>2
<1>3. Takes(g)
  BY <1>2 DEF Takes, TakingKinds
<1>4. /\ st \in States /\ rest \in Seq(Goals)
      /\ \E x, y \in Seq(Words), u, v \in Nat :
              /\ Waits(todo, st, x, u) /\ Waits(rest, st, y, v) /\ Joins(g, rest[1])
              /\ u = v + Uses(g) /\ Len(st.levels) = u + 1
              /\ x = y \o Piece(g, SubSeq(st.written.operands, v + 1, u))
              /\ read = x \o st.written.operands[u + 1]
              /\ Held(g, st.levels[u + 1], lookahead)
              /\ Kind(g) \in {"infix", "RightOf"} => st.levels[u] >= Level(g)
              /\ Kind(g) = "EndExp" => st.written.close = <<g.token>>
  BY <1>1, <1>3, TakingHead
<1>. HIDE DEF st, rest, g
<1>5. PICK x \in Seq(Words), y \in Seq(Words), u \in Nat, v \in Nat :
              /\ Waits(rest, st, y, v) /\ Joins(g, rest[1])
              /\ u = v + Uses(g) /\ Len(st.levels) = u + 1
              /\ x = y \o Piece(g, SubSeq(st.written.operands, v + 1, u))
              /\ read = x \o st.written.operands[u + 1]
  BY <1>4
<1>6. Kind(g) \in PrimaryKinds /\ Uses(g) = 0 /\ \A args : Piece(g, args) = <<"(", "(">>
  BY <1>2 DEF PrimaryKinds, Uses, Piece
<1>. DEFINE operand == st.written.operands[v + 1]
            value == SourceParen(operand)
<1>7. /\ u = v /\ Len(st.levels) = v + 1 /\ read = (y \o <<"(", "(">>) \o operand
  <2>1. u = v
    BY <1>5, <1>6
  <2>2. Piece(g, SubSeq(st.written.operands, v + 1, u)) = <<"(", "(">>
    BY <1>6
  <2>3. x = y \o <<"(", "(">>
    BY <1>5, <2>2
  <2>4. read = x \o operand
    BY <1>5, <2>1
  <2>. HIDE DEF operand
  <2>. QED  BY <1>5, <2>1, <2>3, <2>4
<1>8. Valued(st, new, v, value, Primary)
  BY <1>4, <1>7, ParenValue
<1>9. operand \in Seq(Words)
  <2>1. st.written.operands \in Seq(Texts) /\ Len(st.written.operands) = v + 1
    BY <1>4, <1>7, StateFields
  <2>2. operand \in Texts
    BY <2>1
  <2>. QED  BY <2>2 DEF Texts
<1>. HIDE DEF new, operand
<1>10. text = y \o value
  <2>. DEFINE b == <<"(", "(">>
              c == <<")">>
  <2>1. b \in Seq(Words) /\ c \in Seq(Words)
    <3>1. "(" \in Words /\ ")" \in Words
      BY TokenWords DEF Punctuation
    <3>. QED  BY <3>1
  <2>2. text = ((y \o b) \o operand) \o c
    BY <1>1, <1>2, <1>7
  <2>3. value = (b \o operand) \o c
    BY DEF SourceParen
  <2>. HIDE DEF b, c, text, value
  <2>4. ((y \o b) \o operand) \o c = y \o ((b \o operand) \o c)
    <3>. DEFINE a == b \o operand
    <3>1. a \in Seq(Words) /\ (y \o b) \o operand = y \o a
      <4>1. operand \in Seq(Words) /\ b \in Seq(Words)
        BY <1>9, <2>1
      <4>. HIDE DEF operand
      <4>. QED  BY <4>1, Assoc
    <3>. HIDE DEF a
    <3>2. (y \o a) \o c = y \o (a \o c)
      BY <2>1, <3>1, Assoc
    <3>. QED  BY <3>1, <3>2 DEF a
  <2>. QED  BY <2>2, <2>3, <2>4
<1>. HIDE DEF value, text
<1>11. \A ahead \in Tokens : Stands(rest, new, text, ahead)
  BY <1>4, <1>5, <1>6, <1>8, <1>10, PrimaryStands
<1>14. Appending(<<node>>, new)
  BY DEF Appending, st, new
<1>15. <<>> \o rest = rest
  BY <1>4, ConcatEmptySeq
<1>16. Take(<<>>, <<node>>)
  OBVIOUS
<1>. QED  BY <1>1, <1>11, <1>14, <1>15, <1>16, TakeText DEF rest, text

-----------------------------------------------------------------------------
(* Arguments                                                               *)

LEMMA OneMore ==
  ASSUME NEW S, NEW s \in Seq(S), NEW v \in Nat, NEW u \in Nat, v <= u, u + 1 <= Len(s)
  PROVE  /\ SubSeq(s, v + 1, u + 1) = Append(SubSeq(s, v + 1, u), s[u + 1])
         /\ SubSeq(s, v + 1, u) \in Seq(S) /\ s[u + 1] \in S
         /\ Len(SubSeq(s, v + 1, u)) = u - v
<1>. DEFINE a == SubSeq(s, v + 1, u)
            b == SubSeq(s, v + 1, u + 1)
            n == u - v
<1>1. n \in Nat /\ \A i \in v + 1 .. u : s[i] \in S
  OBVIOUS
<1>2. /\ a \in Seq(S) /\ Len(a) = n /\ \A k \in 1 .. n : a[k] = s[v + k]
  <2>1. /\ a \in Seq(S) /\ Len(a) = (IF v + 1 <= u THEN u - (v + 1) + 1 ELSE 0)
        /\ \A k \in 1 .. u - (v + 1) + 1 : a[k] = s[(v + 1) + k - 1]
    BY <1>1, SubSeqProperties
  <2>. HIDE DEF a
  <2>2. Len(a) = n
    BY <2>1
  <2>3. \A k \in 1 .. n : k \in 1 .. u - (v + 1) + 1 /\ (v + 1) + k - 1 = v + k
    OBVIOUS
  <2>. HIDE DEF n
  <2>. QED  BY <2>1, <2>2, <2>3
<1>3. \A i \in v + 1 .. u + 1 : s[i] \in S
  OBVIOUS
<1>4. /\ b \in Seq(S) /\ Len(b) = n + 1 /\ \A k \in 1 .. n + 1 : b[k] = s[v + k]
  <2>1. /\ b \in Seq(S) /\ Len(b) = (IF v + 1 <= u + 1 THEN (u + 1) - (v + 1) + 1 ELSE 0)
        /\ \A k \in 1 .. (u + 1) - (v + 1) + 1 : b[k] = s[(v + 1) + k - 1]
    BY <1>3, SubSeqProperties
  <2>. HIDE DEF b
  <2>2. Len(b) = n + 1
    BY <2>1
  <2>3. \A k \in 1 .. n + 1 : k \in 1 .. (u + 1) - (v + 1) + 1 /\ (v + 1) + k - 1 = v + k
    OBVIOUS
  <2>. HIDE DEF n
  <2>. QED  BY <2>1, <2>2, <2>3
<1>5. s[u + 1] \in S /\ v + (n + 1) = u + 1
  OBVIOUS
<1>. HIDE DEF a, b, n
<1>6. b[n + 1] = s[u + 1] /\ \A k \in 1 .. n : b[k] = a[k]
  BY <1>1, <1>2, <1>4, <1>5
<1>7. Append(a, s[u + 1]) = b
  BY <1>1, <1>2, <1>4, <1>5, <1>6, TupleAppended
<1>. QED  BY <1>2, <1>5, <1>7 DEF a, b, n

LEMMA ArgsText ==
  ASSUME NEW name \in Tokens, NEW args \in Seq(Texts)
  PROVE  /\ ArgsSoFar(name, <<>>) = <<name, "(">> /\ ArgsSoFar(name, <<>>) \in Seq(Words)
         /\ ArgsSoFar(name, args) \in Seq(Words)
         /\ \A node : node.name = name => CallText(node, <<>>) = ArgsSoFar(name, <<>>) \o <<")">>
         /\ \A t \in Texts :
              /\ ArgsSoFar(name, Append(args, t)) = (ArgsSoFar(name, args) \o t) \o <<",">>
              /\ \A node : node.name = name =>
                   CallText(node, Append(args, t)) = (ArgsSoFar(name, args) \o t) \o <<")">>
<1>. DEFINE h == <<name, "(">>
            list == CommaList(args)
            comma == <<",">>
<1>1. h \in Seq(Words) /\ comma \in Seq(Words) /\ <<>> \in Seq(Words)
  <2>1. name \in Words /\ "(" \in Words /\ "," \in Words
    BY TokenWords DEF Punctuation
  <2>2. <<>> \in Seq(Words)
    OBVIOUS
  <2>. QED  BY <2>1, <2>2, OneWord, TwoWords
<1>2. list \in Seq(Words)
  BY ListTyped
<1>3. h \o <<>> = h
  BY <1>1, ConcatEmptySeq
<1>4. ArgsSoFar(name, <<>>) = h
  BY <1>3 DEF ArgsSoFar
<1>5. \A node : node.name = name => CallText(node, <<>>) = h \o <<")">>
  BY <1>3, ListEmpty DEF CallText
<1>. HIDE DEF h, list, comma
<1>6. ArgsSoFar(name, args) = IF args = <<>> THEN h ELSE h \o (list \o comma)
  BY <1>4 DEF ArgsSoFar, h, list, comma
<1>7. list \o comma \in Seq(Words) /\ h \o (list \o comma) \in Seq(Words)
  BY <1>1, <1>2, Assoc
<1>8. ArgsSoFar(name, args) \in Seq(Words)
  BY <1>1, <1>6, <1>7
<1>9. ASSUME NEW t \in Texts
      PROVE  /\ ArgsSoFar(name, args) \o t = h \o CommaList(Append(args, t))
             /\ h \o CommaList(Append(args, t)) \in Seq(Words)
             /\ CommaList(Append(args, t)) \in Seq(Words)
             /\ Append(args, t) # <<>>
  <2>1. t \in Seq(Words)
    BY DEF Texts
  <2>2. CommaList(Append(args, t)) = IF args = <<>> THEN t ELSE (list \o comma) \o t
    BY ListNext DEF list, comma
  <2>. DEFINE a == list \o comma
  <2>3. a \in Seq(Words) /\ h \o a \in Seq(Words)
    BY <1>7
  <2>. HIDE DEF a
  <2>4. (h \o a) \o t = h \o (a \o t) /\ a \o t \in Seq(Words)
    BY <1>1, <2>1, <2>3, Assoc
  <2>5. ArgsSoFar(name, args) \o t = h \o CommaList(Append(args, t))
    BY <1>6, <2>2, <2>4 DEF a
  <2>6. CommaList(Append(args, t)) \in Seq(Words)
    BY <2>1, <2>2, <2>4 DEF a
  <2>7. h \o CommaList(Append(args, t)) \in Seq(Words)
    BY <1>1, <2>6, JoinedWords
  <2>. QED  BY <2>5, <2>6, <2>7
<1>10. ASSUME NEW t \in Texts
       PROVE  /\ ArgsSoFar(name, Append(args, t)) = (ArgsSoFar(name, args) \o t) \o comma
              /\ \A node : node.name = name =>
                   CallText(node, Append(args, t)) = (ArgsSoFar(name, args) \o t) \o <<")">>
  <2>. DEFINE l == CommaList(Append(args, t))
  <2>1. /\ ArgsSoFar(name, args) \o t = h \o l /\ l \in Seq(Words) /\ Append(args, t) # <<>>
    BY <1>9
  <2>2. ArgsSoFar(name, Append(args, t)) = h \o (l \o comma)
    BY <2>1 DEF ArgsSoFar, h, comma
  <2>3. \A node : node.name = name => CallText(node, Append(args, t)) = (h \o l) \o <<")">>
    BY DEF CallText, h
  <2>. HIDE DEF l
  <2>4. (h \o l) \o comma = h \o (l \o comma)
    BY <1>1, <2>1, Assoc
  <2>. QED  BY <2>1, <2>2, <2>3, <2>4
<1>. QED  BY <1>1, <1>4, <1>5, <1>8, <1>10 DEF h, comma

LEMMA SkipNone ==
  ASSUME IInv, TextInv, Doing("Skip"), NEW node \in TreeNodes, todo[1].nodes = <<node>>,
         Take(<<>>, todo[1].nodes), lookahead = todo[1].token, node.n = "Call", node.args = 0
  PROVE  TextInv'
<1>. DEFINE st == State(tree)
            new == After(st, node)
            g == todo[1]
            rest == Tail(todo)
            text == read \o <<lookahead>>
<1>1. /\ status = "running" /\ Head(todo) = g /\ g \in Goals /\ g.do = "Skip" /\ g.do # "Program"
      /\ g.nodes = <<node>> /\ lookahead = g.token
  BY HeadOfText DEF Doing
<1>2. Kind(g) = "NoArgs" /\ g.token = ")" /\ node.form = "args" /\ g.nodes[1] = node
  <2>1. Shaped(g)
    BY <1>1, BehindHead
  <2>. HIDE DEF g
  <2>2. /\ Kind(g) = (IF node.n # "Call" THEN node.n ELSE IF node.args = 0 THEN "NoArgs" ELSE "LastArg")
        /\ node.n \in {"Paren", "Call"} => g.token = ")"
        /\ node.n = "Call" => node.form = "args"
        /\ g.nodes[1] = node
    BY <1>1, <2>1, SkipNode
  <2>. QED  BY <2>2
<1>3. /\ st \in States /\ rest \in Seq(Goals)
      /\ \E y \in Seq(Words), v \in Nat :
              /\ Waits(rest, st, y, v) /\ Len(st.levels) = v
              /\ read = y \o Piece(g, <<>>)
      /\ Joins(g, rest[1]) /\ Kind(g) \in PrimaryKinds
  BY <1>1, <1>2, PrimaryHead
<1>. HIDE DEF st, rest, g
<1>4. PICK y \in Seq(Words), v \in Nat :
        Waits(rest, st, y, v) /\ Len(st.levels) = v /\ read = y \o Piece(g, <<>>)
  BY <1>3
<1>5. Piece(g, <<>>) = ArgsSoFar(node.name, <<>>)
  BY <1>2 DEF Piece
<1>. DEFINE value == CallText(node, <<>>)
<1>6. Valued(st, new, v, value, Primary)
  <2>. DEFINE n == Len(st.levels) - node.args
  <2>1. n = v /\ Len(st.levels) \in Nat /\ node.args <= Len(st.levels)
    BY <1>3, <1>4, StateFields
  <2>. HIDE DEF n, new
  <2>2. Valued(st, new, n, CallText(node, SubSeq(st.written.operands, n + 1, Len(st.levels))), Primary)
    BY <1>2, <1>3, <2>1, ArgsValue DEF n, new
  <2>3. SubSeq(st.written.operands, v + 1, v) = <<>>
    BY EmptySubSeq
  <2>. QED  BY <1>4, <2>1, <2>2, <2>3
<1>7. text = y \o value
  <2>1. node.name \in Tokens
    BY TreeFields
  <2>. DEFINE a == ArgsSoFar(node.name, <<>>)
              c == <<")">>
  <2>2. a \in Seq(Words) /\ value = a \o c
    <3>1. <<>> \in Seq(Texts)
      OBVIOUS
    <3>. QED  BY <2>1, <3>1, ArgsText
  <2>3. c \in Seq(Words)
    <3>1. ")" \in Words
      BY TokenWords DEF Punctuation
    <3>. QED  BY <3>1, OneWord
  <2>4. text = (y \o a) \o c
    BY <1>1, <1>2, <1>4, <1>5
  <2>. HIDE DEF a, c, text, value
  <2>5. (y \o a) \o c = y \o (a \o c)
    BY <2>2, <2>3, Assoc
  <2>. QED  BY <2>2, <2>4, <2>5
<1>. HIDE DEF value, text, new
<1>11. \A ahead \in Tokens : Stands(rest, new, text, ahead)
  BY <1>3, <1>4, <1>6, <1>7, PrimaryStands
<1>14. Appending(<<node>>, new)
  BY DEF Appending, st, new
<1>15. <<>> \o rest = rest
  BY <1>3, ConcatEmptySeq
<1>16. Take(<<>>, <<node>>)
  OBVIOUS
<1>. QED  BY <1>1, <1>11, <1>14, <1>15, <1>16, TakeText DEF rest, text

(* An argument has been read that is not the first.                        *)
LEMMA ArgHead ==
  ASSUME IInv, TextInv, status = "running", Kind(todo[1]) \in {"NextArg", "LastArg"},
         NEW name \in Tokens, NEW n \in Nat \ {0}, Uses(todo[1]) = n - 1,
         \A args : Piece(todo[1], args) = ArgsSoFar(name, args)
  PROVE  LET st == State(tree)
             rest == Tail(todo)
         IN
         /\ st \in States /\ rest \in Seq(Goals) /\ Joins(todo[1], rest[1])
         /\ \E y \in Seq(Words), v \in Nat :
              LET args == SubSeq(st.written.operands, v + 1, v + n) IN
              /\ Waits(rest, st, y, v) /\ Len(st.levels) = v + n
              /\ ArgsSoFar(name, args) \in Seq(Words)
              /\ read \o <<",">> = y \o ArgsSoFar(name, args)
              /\ \A node : node.name = name => read \o <<")">> = y \o CallText(node, args)
<1>. DEFINE st == State(tree)
            g == todo[1]
            rest == Tail(todo)
            ops == st.written.operands
<1>1. Takes(g) /\ Kind(g) \notin {"infix", "RightOf", "EndExp"}
  BY DEF Takes, TakingKinds
<1>2. /\ st \in States /\ rest \in Seq(Goals)
      /\ \E x, y \in Seq(Words), u, v \in Nat :
              /\ Waits(todo, st, x, u) /\ Waits(rest, st, y, v) /\ Joins(g, rest[1])
              /\ u = v + Uses(g) /\ Len(st.levels) = u + 1
              /\ x = y \o Piece(g, SubSeq(st.written.operands, v + 1, u))
              /\ read = x \o st.written.operands[u + 1]
              /\ Held(g, st.levels[u + 1], lookahead)
              /\ Kind(g) \in {"infix", "RightOf"} => st.levels[u] >= Level(g)
              /\ Kind(g) = "EndExp" => st.written.close = <<g.token>>
  BY <1>1, TakingHead
<1>3. Uses(g) = n - 1 /\ \A args : Piece(g, args) = ArgsSoFar(name, args)
  OBVIOUS
<1>. HIDE DEF st, rest, g
<1>4. PICK x \in Seq(Words), y \in Seq(Words), u \in Nat, v \in Nat :
              /\ Waits(rest, st, y, v) /\ Joins(g, rest[1])
              /\ u = v + Uses(g) /\ Len(st.levels) = u + 1
              /\ x = y \o Piece(g, SubSeq(ops, v + 1, u))
              /\ read = x \o ops[u + 1]
  BY <1>2
<1>5. u + 1 = v + n /\ v <= u
  <2>1. u = v + (n - 1)
    BY <1>3, <1>4
  <2>. QED  BY <2>1
<1>6. ops \in Seq(Texts) /\ u + 1 <= Len(ops)
  <2>1. ops \in Seq(Texts) /\ Len(st.levels) = Len(ops)
    BY <1>2, StateFields
  <2>2. Len(st.levels) = u + 1
    BY <1>4
  <2>. HIDE DEF ops
  <2>. QED  BY <2>1, <2>2
<1>. DEFINE few == SubSeq(ops, v + 1, u)
            t == ops[u + 1]
            args == SubSeq(ops, v + 1, v + n)
<1>7. few \in Seq(Texts) /\ t \in Texts /\ args = Append(few, t)
  <2>. HIDE DEF ops
  <2>1. SubSeq(ops, v + 1, u + 1) = Append(few, t) /\ few \in Seq(Texts) /\ t \in Texts
    BY <1>5, <1>6, OneMore
  <2>. QED  BY <1>5, <2>1
<1>8. x = y \o ArgsSoFar(name, few) /\ read = x \o t
  BY <1>3, <1>4
<1>. HIDE DEF few, t, args, ops
<1>9. /\ ArgsSoFar(name, few) \in Seq(Words)
      /\ ArgsSoFar(name, args) = (ArgsSoFar(name, few) \o t) \o <<",">>
      /\ \A node : node.name = name => CallText(node, args) = (ArgsSoFar(name, few) \o t) \o <<")">>
  BY <1>7, ArgsText
<1>. DEFINE a == ArgsSoFar(name, few)
            at == a \o t
<1>10. t \in Seq(Words) /\ at \in Seq(Words) /\ read = y \o at
  <2>1. t \in Seq(Words)
    BY <1>7 DEF Texts
  <2>. HIDE DEF a
  <2>2. (y \o a) \o t = y \o (a \o t) /\ a \o t \in Seq(Words)
    BY <1>9, <2>1, Assoc DEF a
  <2>. QED  BY <1>8, <2>1, <2>2 DEF a
<1>11. <<",">> \in Seq(Words) /\ <<")">> \in Seq(Words)
  BY TokenWords, OneWord DEF Punctuation
<1>. HIDE DEF a, at
<1>12. \A e \in Seq(Words) : read \o e = y \o (at \o e) /\ at \o e \in Seq(Words)
  BY <1>10, Assoc
<1>13. /\ ArgsSoFar(name, args) = at \o <<",">>
       /\ \A node : node.name = name => CallText(node, args) = at \o <<")">>
  BY <1>9 DEF at, a
<1>14. /\ ArgsSoFar(name, args) \in Seq(Words)
       /\ read \o <<",">> = y \o ArgsSoFar(name, args)
       /\ \A node : node.name = name => read \o <<")">> = y \o CallText(node, args)
  <2>. DEFINE c == <<",">>
              p == <<")">>
  <2>1. c \in Seq(Words) /\ p \in Seq(Words)
    BY <1>11
  <2>2. /\ ArgsSoFar(name, args) = at \o c
        /\ \A node : node.name = name => CallText(node, args) = at \o p
    BY <1>13
  <2>. HIDE DEF c, p
  <2>3. /\ ArgsSoFar(name, args) \in Seq(Words)
        /\ read \o c = y \o ArgsSoFar(name, args)
        /\ \A node : node.name = name => read \o p = y \o CallText(node, args)
    BY <1>12, <2>1, <2>2
  <2>. QED  BY <2>3 DEF c, p
<1>15. Len(st.levels) = v + n
  BY <1>4, <1>5
<1>16. \E y1 \in Seq(Words), v1 \in Nat :
         LET args1 == SubSeq(ops, v1 + 1, v1 + n) IN
              /\ Waits(rest, st, y1, v1) /\ Len(st.levels) = v1 + n
              /\ ArgsSoFar(name, args1) \in Seq(Words)
              /\ read \o <<",">> = y1 \o ArgsSoFar(name, args1)
              /\ \A node : node.name = name => read \o <<")">> = y1 \o CallText(node, args1)
  <2>. WITNESS y \in Seq(Words), v \in Nat
  <2>. QED  BY <1>4, <1>14, <1>15 DEF args
<1>. QED  BY <1>2, <1>4, <1>16 DEF st, rest, g, ops

LEMMA SkipLast ==
  ASSUME IInv, TextInv, Doing("Skip"), NEW node \in TreeNodes, todo[1].nodes = <<node>>,
         Take(<<>>, todo[1].nodes), lookahead = todo[1].token, node.n = "Call", node.args # 0
  PROVE  TextInv'
<1>. DEFINE st == State(tree)
            new == After(st, node)
            g == todo[1]
            rest == Tail(todo)
            text == read \o <<lookahead>>
            n == node.args
            ops == st.written.operands
<1>1. /\ status = "running" /\ Head(todo) = g /\ g \in Goals /\ g.do = "Skip" /\ g.do # "Program"
      /\ g.nodes = <<node>> /\ lookahead = g.token
  BY HeadOfText DEF Doing
<1>2. Kind(g) = "LastArg" /\ g.token = ")" /\ node.form = "args" /\ g.nodes[1] = node
  <2>1. Shaped(g)
    BY <1>1, BehindHead
  <2>. HIDE DEF g
  <2>2. /\ Kind(g) = (IF node.n # "Call" THEN node.n ELSE IF node.args = 0 THEN "NoArgs" ELSE "LastArg")
        /\ node.n \in {"Paren", "Call"} => g.token = ")"
        /\ node.n = "Call" => node.form = "args"
        /\ g.nodes[1] = node
    BY <1>1, <2>1, SkipNode
  <2>. QED  BY <2>2
<1>3. node.name \in Tokens /\ n \in Nat \ {0}
  BY TreeFields
<1>. HIDE DEF st, rest, g, n, ops
<1>4. Uses(g) = n - 1 /\ \A args : Piece(g, args) = ArgsSoFar(node.name, args)
  BY <1>2 DEF Uses, Piece, n
<1>5. /\ st \in States /\ rest \in Seq(Goals) /\ Joins(g, rest[1])
      /\ \E y \in Seq(Words), v \in Nat :
           LET args == SubSeq(ops, v + 1, v + n) IN
           /\ Waits(rest, st, y, v) /\ Len(st.levels) = v + n
           /\ ArgsSoFar(node.name, args) \in Seq(Words)
           /\ read \o <<",">> = y \o ArgsSoFar(node.name, args)
           /\ \A call : call.name = node.name => read \o <<")">> = y \o CallText(call, args)
  BY <1>1, <1>2, <1>3, <1>4, ArgHead DEF g, st, rest, ops
<1>6. PICK y \in Seq(Words), v \in Nat :
        /\ Waits(rest, st, y, v) /\ Len(st.levels) = v + n
        /\ read \o <<")">> = y \o CallText(node, SubSeq(ops, v + 1, v + n))
  BY <1>5
<1>. DEFINE value == CallText(node, SubSeq(ops, v + 1, v + n))
<1>7. Valued(st, new, v, value, Primary)
  <2>1. n <= Len(st.levels) /\ v = Len(st.levels) - n
    BY <1>3, <1>6
  <2>. HIDE DEF new
  <2>2. Valued(st, new, v, CallText(node, SubSeq(ops, v + 1, Len(st.levels))), Primary)
    BY <1>2, <1>5, <2>1, ArgsValue DEF n, new, ops
  <2>. QED  BY <1>6, <2>2
<1>8. text = y \o value
  BY <1>1, <1>2, <1>6
<1>9. Kind(g) \in PrimaryKinds
  BY <1>2 DEF PrimaryKinds
<1>. HIDE DEF value, text, new
<1>11. \A ahead \in Tokens : Stands(rest, new, text, ahead)
  BY <1>5, <1>6, <1>7, <1>8, <1>9, PrimaryStands
<1>14. Appending(<<node>>, new)
  BY DEF Appending, st, new
<1>15. <<>> \o rest = rest
  BY <1>5, ConcatEmptySeq
<1>16. Take(<<>>, <<node>>)
  OBVIOUS
<1>. QED  BY <1>1, <1>11, <1>14, <1>15, <1>16, TakeText DEF rest, text

(* Every token that is skipped, or missing.                                *)
LEMMA ErrorText ==
  ASSUME status' = "error"
  PROVE  TextInv'
  BY DEF TextInv

LEMMA SkipTokenText ==
  ASSUME IInv, TextInv, SkipToken
  PROVE  TextInv'
<1>. DEFINE g == todo[1]
<1>1. /\ status = "running" /\ Head(todo) = g /\ g \in Goals /\ g.do = "Skip" /\ g.do # "Program"
      /\ Doing("Skip")
  BY HeadOfText DEF SkipToken, Doing
<1>2. CASE lookahead # g.token
  <2>1. status' = "error"
    BY <1>1, <1>2 DEF SkipToken, TakeError
  <2>. QED  BY <2>1, ErrorText
<1>3. CASE lookahead = g.token
  <2>1. Take(<<>>, g.nodes)
    BY <1>1, <1>3 DEF SkipToken
  <2>2. Shaped(g)
    BY <1>1, BehindHead
  <2>3. CASE g.nodes = <<>>
    <3>1. Kind(g) = "Ahead"
      BY <1>1, <2>3 DEF Kind
    <3>. QED  BY <1>1, <1>3, <2>1, <2>3, <3>1, SkipAhead
  <2>4. CASE g.nodes # <<>>
    <3>. HIDE DEF g
    <3>1. PICK node \in TreeNodes : g.nodes = <<node>>
      BY <1>1, <2>2, <2>4 DEF Shaped
    <3>2. node.n \in {"Seq", "EndExp", "Paren", "Call", "Func"}
      BY <1>1, <2>2, <3>1, SkipNode
    <3>. QED  BY <1>1, <1>3, <2>1, <3>1, <3>2, SkipBegun, SkipEnd, SkipParen, SkipNone, SkipLast DEF g
  <2>. QED  BY <2>3, <2>4
<1>. QED  BY <1>2, <1>3

-----------------------------------------------------------------------------
(* Nodes that are appended when their parts are complete                   *)

LEMMA EmitMark ==
  ASSUME IInv, TextInv, Doing("Emit"), Kind(todo[1]) = "Mark",
         NEW node, node = todo[1].node, Go(<<>>, <<node>>)
  PROVE  TextInv'
<1>. DEFINE st == State(tree)
            new == After(st, node)
            g == todo[1]
            rest == Tail(todo)
<1>1. /\ status = "running" /\ Head(todo) = g /\ g \in Goals /\ g.do = "Emit" /\ g.do # "Program"
      /\ node \in TreeNodes
  BY HeadOfText, GoalFields DEF Doing
<1>2. node.n \in {"EndFunc", "EndIf", "EndWhile"}
  <2>1. Shaped(g)
    BY <1>1, BehindHead
  <2>2. node = g.node /\ Kind(g) = "Mark"
    OBVIOUS
  <2>. HIDE DEF g
  <2>3. node.n # "Call"
    <3>1. node.n = "Call" => node.form \in Forms
      BY <1>1, TreeFields
    <3>. QED  BY <1>1, <2>2, <3>1 DEF Kind, Forms
  <2>. QED  BY <1>1, <2>1, <2>2, <2>3 DEF Shaped
<1>3. Kind(g) \in BegunKinds \cup BottomKinds /\ node.n \notin OperandKinds
  BY <1>2 DEF BottomKinds, OperandKinds
<1>4. /\ st \in States /\ st.written.printed \in Seq(Words) /\ new \in States
      /\ new.levels = <<>> /\ Appending(<<node>>, new) /\ rest \in Seq(Goals)
      /\ new.written.printed = st.written.printed \o NodeText(node)
      /\ Waits(rest, new, new.written.printed, 0) /\ IsBottom(rest[1])
      /\ read = st.written.printed \o Piece(g, <<>>)
  BY <1>1, <1>3, NodeAfter
<1>5. Piece(g, <<>>) = <<>> /\ NodeText(node) = <<>>
  <2>1. NodeText(node) = <<>>
    BY <1>2 DEF NodeText
  <2>. HIDE DEF g
  <2>2. Kind(g) = "Mark"
    BY DEF g
  <2>. QED  BY <2>1, <2>2 DEF Piece
<1>. HIDE DEF st, new, rest, g
<1>6. read = new.written.printed
  BY <1>4, <1>5
<1>7. Stands(rest, new, read, lookahead)
  BY <1>4, <1>6, BottomStands
<1>8. <<>> \o rest = rest
  BY <1>4, ConcatEmptySeq
<1>. QED  BY <1>1, <1>4, <1>7, <1>8, GoText DEF rest

LEMMA EmitPrefix ==
  ASSUME IInv, TextInv, Doing("Emit"), Kind(todo[1]) = "prefix",
         NEW node, node = todo[1].node, Go(<<>>, <<node>>)
  PROVE  TextInv'
<1>. DEFINE st == State(tree)
            new == After(st, node)
            g == todo[1]
            rest == Tail(todo)
<1>1. /\ status = "running" /\ Head(todo) = g /\ g \in Goals /\ g.do = "Emit" /\ g.do # "Program"
      /\ node \in TreeNodes /\ lookahead \in Tokens /\ g.node = node
  BY HeadOfText, GoalFields DEF Doing
<1>2. node.n = "Call" /\ node.form = "prefix" /\ node.args = 1
  <2>1. Shaped(g)
    BY <1>1, BehindHead
  <2>2. Kind(g) = "prefix"
    OBVIOUS
  <2>. HIDE DEF g
  <2>3. node.n = "Call" /\ node.form = "prefix"
    BY <1>1, <2>2 DEF Kind
  <2>. QED  BY <1>1, <2>1, <2>3 DEF Shaped
<1>3. Takes(g)
  BY DEF Takes, TakingKinds
<1>4. /\ st \in States /\ rest \in Seq(Goals)
      /\ \E x, y \in Seq(Words), u, v \in Nat :
              /\ Waits(todo, st, x, u) /\ Waits(rest, st, y, v) /\ Joins(g, rest[1])
              /\ u = v + Uses(g) /\ Len(st.levels) = u + 1
              /\ x = y \o Piece(g, SubSeq(st.written.operands, v + 1, u))
              /\ read = x \o st.written.operands[u + 1]
              /\ Held(g, st.levels[u + 1], lookahead)
              /\ Kind(g) \in {"infix", "RightOf"} => st.levels[u] >= Level(g)
              /\ Kind(g) = "EndExp" => st.written.close = <<g.token>>
  BY <1>1, <1>3, TakingHead
<1>5. Kind(g) = "prefix"
  OBVIOUS
<1>. HIDE DEF st, rest, g
<1>6. PICK x \in Seq(Words), y \in Seq(Words), u \in Nat, v \in Nat :
              /\ Waits(rest, st, y, v) /\ Joins(g, rest[1])
              /\ u = v + Uses(g) /\ Len(st.levels) = u + 1
              /\ x = y \o Piece(g, SubSeq(st.written.operands, v + 1, u))
              /\ read = x \o st.written.operands[u + 1]
              /\ Held(g, st.levels[u + 1], lookahead)
  BY <1>4
<1>7. Kind(g) \in PrimaryKinds /\ Uses(g) = 0 /\ \A args : Piece(g, args) = <<"-", node.name>>
  BY <1>1, <1>5 DEF PrimaryKinds, Uses, Piece
<1>. DEFINE operand == st.written.operands[v + 1]
            value == <<"-", node.name>> \o operand
<1>8. /\ u = v /\ Len(st.levels) = v + 1 /\ read = (y \o <<"-", node.name>>) \o operand
  <2>1. u = v
    BY <1>6, <1>7
  <2>2. Piece(g, SubSeq(st.written.operands, v + 1, u)) = <<"-", node.name>>
    BY <1>7
  <2>3. x = y \o <<"-", node.name>>
    BY <1>6, <2>2
  <2>4. read = x \o operand
    BY <1>6, <2>1
  <2>. HIDE DEF operand
  <2>. QED  BY <1>6, <2>1, <2>3, <2>4
<1>9. st.levels[v + 1] = Primary
  <2>1. Held(g, st.levels[v + 1], lookahead)
    BY <1>6, <1>8
  <2>. QED  BY <1>5, <2>1 DEF Held
<1>10. Valued(st, new, v, value, Primary)
  <2>. HIDE DEF new
  <2>. QED  BY <1>1, <1>2, <1>4, <1>8, <1>9, PrefixValue DEF new
<1>11. operand \in Seq(Words)
  <2>1. st.written.operands \in Seq(Texts) /\ Len(st.written.operands) = v + 1
    BY <1>4, <1>8, StateFields
  <2>2. operand \in Texts
    BY <2>1
  <2>. QED  BY <2>2 DEF Texts
<1>. HIDE DEF new, operand
<1>12. read = y \o value
  <2>. DEFINE b == <<"-", node.name>>
  <2>1. b \in Seq(Words)
    <3>1. "-" \in Words /\ node.name \in Words
      BY <1>1, <1>2, TreeFields, TokenWords
    <3>. QED  BY <3>1, TwoWords
  <2>2. read = (y \o b) \o operand /\ value = b \o operand
    BY <1>8
  <2>. HIDE DEF b, value
  <2>3. (y \o b) \o operand = y \o (b \o operand)
    BY <1>11, <2>1, Assoc
  <2>. QED  BY <2>2, <2>3
<1>. HIDE DEF value
<1>13. Stands(rest, new, read, lookahead)
  <2>1. lookahead \in Tokens /\ Joins(g, rest[1]) /\ Waits(rest, st, y, v) /\ st \in States
    BY <1>1, <1>4, <1>6
  <2>. QED  BY <1>7, <1>10, <1>12, <2>1, PrimaryStands
<1>14. Appending(<<node>>, new)
  BY <1>1 DEF Appending, st, new
<1>15. <<>> \o rest = rest
  BY <1>4, ConcatEmptySeq
<1>. QED  BY <1>1, <1>13, <1>14, <1>15, GoText DEF rest

LEMMA EmitInfix ==
  ASSUME IInv, TextInv, Doing("Emit"), Kind(todo[1]) = "infix",
         NEW node, node = todo[1].node, Go(<<>>, <<node>>)
  PROVE  TextInv'
<1>. DEFINE st == State(tree)
            new == After(st, node)
            g == todo[1]
            rest == Tail(todo)
            ops == st.written.operands
            level == Precedence(node.name)
            binds == BindsAs(node.name)
<1>1. /\ status = "running" /\ Head(todo) = g /\ g \in Goals /\ g.do = "Emit" /\ g.do # "Program"
      /\ node \in TreeNodes /\ lookahead \in Tokens /\ g.node = node
  BY HeadOfText, GoalFields DEF Doing
<1>2. node.n = "Call" /\ node.form = "infix" /\ node.args = 2 /\ node.name \in InfixOps
  <2>1. Shaped(g)
    BY <1>1, BehindHead
  <2>2. Kind(g) = "infix"
    OBVIOUS
  <2>. HIDE DEF g
  <2>3. node.n = "Call" /\ node.form = "infix"
    BY <1>1, <2>2 DEF Kind
  <2>. QED  BY <1>1, <2>1, <2>3 DEF Shaped
<1>3. Takes(g)
  BY DEF Takes, TakingKinds
<1>4. /\ st \in States /\ rest \in Seq(Goals) /\ rest # <<>>
      /\ \E x, y \in Seq(Words), u, v \in Nat :
              /\ Waits(todo, st, x, u) /\ Waits(rest, st, y, v) /\ Joins(g, rest[1])
              /\ u = v + Uses(g) /\ Len(st.levels) = u + 1
              /\ x = y \o Piece(g, SubSeq(st.written.operands, v + 1, u))
              /\ read = x \o st.written.operands[u + 1]
              /\ Held(g, st.levels[u + 1], lookahead)
              /\ Kind(g) \in {"infix", "RightOf"} => st.levels[u] >= Level(g)
              /\ Kind(g) = "EndExp" => st.written.close = <<g.token>>
  BY <1>1, <1>3, TakingHead
<1>5. Kind(g) = "infix"
  OBVIOUS
<1>. HIDE DEF st, rest, g
<1>6. PICK x \in Seq(Words), y \in Seq(Words), u \in Nat, v \in Nat :
              /\ Waits(rest, st, y, v) /\ Joins(g, rest[1])
              /\ u = v + Uses(g) /\ Len(st.levels) = u + 1
              /\ x = y \o Piece(g, SubSeq(ops, v + 1, u))
              /\ read = x \o ops[u + 1]
              /\ Held(g, st.levels[u + 1], lookahead)
              /\ st.levels[u] >= Level(g)
  BY <1>4, <1>5
<1>7. /\ Uses(g) = 1 /\ Level(g) = level /\ \A args : Piece(g, args) = args[1] \o <<node.name>>
      /\ Kind(g) \notin PrimaryKinds /\ Yields(g) /\ g.do # "Remaining"
  BY <1>1, <1>5 DEF PrimaryKinds, YieldingKinds, Yields, Uses, Piece, Level
<1>8. ops \in Seq(Texts) /\ Len(ops) = u + 1
  BY <1>4, <1>6, StateFields
<1>9. u = v + 1 /\ Len(st.levels) = v + 2
  BY <1>6, <1>7
<1>. DEFINE left == ops[v + 1]
            right == ops[v + 2]
            value == left \o <<node.name>> \o right
<1>10. left \in Seq(Words) /\ right \in Seq(Words)
  <2>. HIDE DEF ops
  <2>1. left \in Texts /\ right \in Texts
    BY <1>8, <1>9
  <2>. QED  BY <2>1 DEF Texts
<1>11. x = y \o (left \o <<node.name>>) /\ read = x \o right
  <2>1. v + 1 \in 1 .. Len(ops) /\ v + 1 <= v + 1
    BY <1>8, <1>9
  <2>2. SubSeq(ops, v + 1, u)[1] = left
    <3>. HIDE DEF ops
    <3>1. SubSeq(ops, v + 1, v + 1) = Append(SubSeq(ops, v + 1, v), ops[v + 1])
      BY <1>8, <1>9, OneMore
    <3>2. SubSeq(ops, v + 1, v) = <<>>
      BY EmptySubSeq
    <3>. HIDE DEF left
    <3>3. Append(<<>>, left)[1] = left
      OBVIOUS
    <3>. QED  BY <1>9, <3>1, <3>2, <3>3 DEF left
  <2>3. Piece(g, SubSeq(ops, v + 1, u)) = left \o <<node.name>>
    BY <1>7, <2>2
  <2>4. u + 1 = v + 2
    BY <1>9
  <2>. QED  BY <1>6, <2>3, <2>4
<1>12. st.levels[v + 1] >= level /\ st.levels[v + 2] > level /\ Precedence(lookahead) <= level
  <2>1. u + 1 = v + 2
    BY <1>9
  <2>2. Held(g, st.levels[v + 2], lookahead) /\ st.levels[v + 1] >= Level(g)
    BY <1>6, <1>9, <2>1
  <2>. QED  BY <1>5, <1>7, <2>2 DEF Held
<1>13. Valued(st, new, v, value, binds)
  BY <1>1, <1>2, <1>4, <1>9, <1>12, InfixValue
<1>. HIDE DEF new, ops, left, right
<1>14. read = y \o value
  <2>. DEFINE a == left \o <<node.name>>
  <2>1. a \in Seq(Words)
    <3>1. <<node.name>> \in Seq(Words)
      BY <1>1, <1>2, TreeFields, TokenWords, OneWord
    <3>. QED  BY <1>10, <3>1, JoinedWords
  <2>2. read = (y \o a) \o right /\ value = a \o right
    BY <1>11
  <2>. HIDE DEF a, value
  <2>3. (y \o a) \o right = y \o (a \o right)
    BY <1>10, <2>1, Assoc
  <2>. QED  BY <2>2, <2>3
<1>. HIDE DEF value
<1>15. Takes(rest[1]) /\ Held(rest[1], binds, lookahead)
  <2>1. Takes(rest[1]) /\ Climbs(g, rest[1])
    BY <1>6, <1>7 DEF Joins
  <2>2. Kind(rest[1]) \notin {"infix", "prefix", "RightOf"}
    BY <1>7, <2>1 DEF Climbs
  <2>3. rest[1].do = "Remaining" => level >= rest[1].prec
    BY <1>7, <2>1 DEF Climbs
  <2>4. rest[1].do = "Remaining" => rest[1].prec \in Precedences
    <3>1. rest[1] \in Goals
      BY <1>4
    <3>. QED  BY <3>1, GoalFields
  <2>5. binds \in Int /\ level \in Int /\ Precedence(lookahead) \in Int /\ binds >= level
    BY <1>1, <1>2, Levels0To5, DocumentedLevels DEF Precedences
  <2>. HIDE DEF level, binds
  <2>6. binds >= Precedence(lookahead)
    BY <1>12, <2>5
  <2>7. rest[1].do = "Remaining" => binds >= rest[1].prec
    BY <2>3, <2>4, <2>5 DEF Precedences
  <2>. QED  BY <2>1, <2>2, <2>6, <2>7 DEF Held
<1>. HIDE DEF level, binds
<1>16. Stands(rest, new, read, lookahead)
  BY <1>1, <1>4, <1>6, <1>13, <1>14, <1>15, ValueStands
<1>17. Appending(<<node>>, new)
  BY <1>1 DEF Appending, st, new
<1>18. <<>> \o rest = rest
  BY <1>4, ConcatEmptySeq
<1>. QED  BY <1>1, <1>16, <1>17, <1>18, GoText DEF rest

LEMMA EmitText ==
  ASSUME IInv, TextInv, EmitNode
  PROVE  TextInv'
<1>. DEFINE g == todo[1]
<1>1. /\ status = "running" /\ g \in Goals /\ g.do = "Emit" /\ g.do # "Program"
      /\ Doing("Emit") /\ Go(<<>>, <<g.node>>)
  BY HeadOfText DEF EmitNode, Doing
<1>2. Shaped(g)
  BY <1>1, BehindHead
<1>. HIDE DEF g
<1>3. Kind(g) \in {"Mark", "prefix", "infix"}
  BY <1>1, <1>2 DEF Shaped, Kind
<1>. QED  BY <1>1, <1>3, EmitMark, EmitPrefix, EmitInfix DEF g

-----------------------------------------------------------------------------
(* Definitions                                                             *)

LEMMA NoNode == Appending(<<>>, State(tree))
  BY DEF Appending

LEMMA SkipGoal ==
  ASSUME NEW t \in Punctuation
  PROVE  Skip(t, <<>>) \in Goals
<1>1. <<>> \in Seq(TreeNodes)
  OBVIOUS
<1>2. Skip(t, <<>>) \in PlainGoals
  BY <1>1, PlainGoalTypes
<1>. QED  BY <1>2 DEF PlainGoals

(* A goal is replaced by one that has read some more.                      *)
LEMMA BegunStands ==
  ASSUME IInv, TextInv, status = "running", todo[1].do # "Program",
         Kind(todo[1]) \in BegunKinds \cup BottomKinds,
         NEW goal \in Goals, Shaped(goal), Kind(goal) \in BegunKinds \cup BottomKinds,
         NEW piece \in Seq(Words), piece = Piece(todo[1], <<>>), NEW more \in Seq(Words)
  PROVE  /\ Piece(goal, <<>>) = piece \o more =>
              \A ahead : Stands(<<goal>> \o Tail(todo), State(tree), read \o more, ahead)
         /\ \A t \in Punctuation : Piece(goal, <<>>) = (piece \o more) \o <<t>> =>
              \A ahead : Stands(<<Skip(t, <<>>), goal>> \o Tail(todo), State(tree), read \o more, ahead)
<1>. DEFINE st == State(tree)
            rest == Tail(todo)
            p == st.written.printed
            text == read \o more
<1>1. /\ st \in States /\ st.levels = <<>> /\ rest \in Seq(Goals) /\ IsBottom(rest[1])
      /\ \A new \in States : Waits(rest, new, new.written.printed, 0)
      /\ read = p \o piece
  BY BegunHead
<1>. HIDE DEF st, rest
<1>2. p \in Seq(Words) /\ Waits(rest, st, p, 0)
  BY <1>1, StateFields
<1>3. text = p \o (piece \o more) /\ text \in Seq(Words) /\ piece \o more \in Seq(Words)
  <2>. HIDE DEF p
  <2>. QED  BY <1>1, <1>2, Assoc
<1>4. ASSUME NEW x \in Seq(Words), x = p \o Piece(goal, <<>>)
      PROVE  /\ \A ahead : Stands(<<goal>> \o rest, st, x, ahead)
             /\ \A t \in Punctuation : x = text \o <<t>> =>
                  \A ahead : Stands(<<Skip(t, <<>>)>> \o (<<goal>> \o rest), st, text, ahead)
  BY <1>1, <1>2, <1>4, PushBegun
<1>5. ASSUME Piece(goal, <<>>) = piece \o more
      PROVE  \A ahead : Stands(<<goal>> \o rest, st, text, ahead)
  BY <1>3, <1>4, <1>5
<1>6. ASSUME NEW t \in Punctuation, Piece(goal, <<>>) = (piece \o more) \o <<t>>
      PROVE  \A ahead : Stands(<<Skip(t, <<>>), goal>> \o rest, st, text, ahead)
  <2>. DEFINE x == text \o <<t>>
              pm == piece \o more
              last == <<t>>
  <2>1. last \in Seq(Words)
    BY TokenWords, OneWord
  <2>2. x \in Seq(Words) /\ x = p \o (pm \o last)
    <3>1. x = (p \o pm) \o last
      BY <1>3
    <3>. HIDE DEF x, pm, last, p
    <3>2. (p \o pm) \o last = p \o (pm \o last) /\ (p \o pm) \o last \in Seq(Words)
      <4>1. p \in Seq(Words) /\ pm \in Seq(Words)
        BY <1>2, <1>3 DEF pm
      <4>2. (p \o pm) \o last = p \o (pm \o last)
        BY <2>1, <4>1, Bracket, SMTT(10)
      <4>3. pm \o last \in Seq(Words)
        BY <2>1, <4>1, JoinedWords
      <4>. DEFINE q == pm \o last
      <4>. HIDE DEF q
      <4>4. p \o q \in Seq(Words)
        BY <4>1, <4>3, JoinedWords DEF q
      <4>. QED  BY <4>2, <4>4 DEF q
    <3>. QED  BY <3>1, <3>2
  <2>3. x = p \o Piece(goal, <<>>)
    BY <1>6, <2>2
  <2>4. \A ahead : Stands(<<Skip(t, <<>>)>> \o (<<goal>> \o rest), st, text, ahead)
    BY <1>4, <2>2, <2>3
  <2>5. <<Skip(t, <<>>), goal>> \o rest = <<Skip(t, <<>>)>> \o (<<goal>> \o rest)
    <3>. DEFINE skip == Skip(t, <<>>)
    <3>1. skip \in Goals /\ rest \in Seq(Goals)
      BY <1>1, SkipGoal
    <3>. HIDE DEF skip
    <3>2. <<skip, goal>> \o rest = <<skip>> \o (<<goal>> \o rest)
      BY <3>1, GoalsJoined
    <3>. QED  BY <3>2 DEF skip
  <2>. QED  BY <2>4, <2>5
<1>. QED  BY <1>5, <1>6 DEF st, rest, text

LEMMA TakeBegun ==
  ASSUME IInv, TextInv, status = "running", todo[1].do # "Program",
         Kind(todo[1]) \in BegunKinds \cup BottomKinds,
         NEW goal \in Goals, Shaped(goal), Kind(goal) \in BegunKinds \cup BottomKinds,
         NEW piece \in Seq(Words), piece = Piece(todo[1], <<>>)
  PROVE  /\ Take(<<goal>>, <<>>) /\ Piece(goal, <<>>) = piece \o <<lookahead>> => TextInv'
         /\ \A t \in Punctuation :
              Take(<<Skip(t, <<>>), goal>>, <<>>)
                /\ Piece(goal, <<>>) = (piece \o <<lookahead>>) \o <<t>> => TextInv'
<1>. DEFINE more == <<lookahead>>
            text == read \o more
<1>1. more \in Seq(Words)
  <2>1. lookahead \in Words
    BY HeadOfText, TokenWords
  <2>. QED  BY <2>1, OneWord
<1>2. /\ Piece(goal, <<>>) = piece \o more =>
              \A ahead : Stands(<<goal>> \o Tail(todo), State(tree), read \o more, ahead)
      /\ \A t \in Punctuation : Piece(goal, <<>>) = (piece \o more) \o <<t>> =>
              \A ahead : Stands(<<Skip(t, <<>>), goal>> \o Tail(todo), State(tree), read \o more, ahead)
  <2>. HIDE DEF more
  <2>. QED  BY <1>1, BegunStands
<1>3. ASSUME Take(<<goal>>, <<>>), Piece(goal, <<>>) = piece \o more PROVE TextInv'
  BY <1>2, <1>3, NoNode, TakeText
<1>4. ASSUME NEW t \in Punctuation, Take(<<Skip(t, <<>>), goal>>, <<>>),
             Piece(goal, <<>>) = (piece \o more) \o <<t>>
      PROVE  TextInv'
  <2>. DEFINE goals == <<Skip(t, <<>>), goal>>
  <2>1. \A ahead : Stands(goals \o Tail(todo), State(tree), text, ahead)
    BY <1>2, <1>4
  <2>2. Take(goals, <<>>)
    BY <1>4
  <2>. HIDE DEF goals
  <2>. QED  BY <2>1, <2>2, NoNode, TakeText
<1>. QED  BY <1>3, <1>4

LEMMA GoBegun ==
  ASSUME IInv, TextInv, status = "running", todo[1].do # "Program",
         Kind(todo[1]) \in BegunKinds \cup BottomKinds,
         NEW goal \in Goals, Shaped(goal), Kind(goal) \in BegunKinds \cup BottomKinds,
         NEW piece \in Seq(Words), piece = Piece(todo[1], <<>>)
  PROVE  /\ Go(<<goal>>, <<>>) /\ Piece(goal, <<>>) = piece => TextInv'
         /\ \A t \in Punctuation :
              Go(<<Skip(t, <<>>), goal>>, <<>>) /\ Piece(goal, <<>>) = piece \o <<t>> => TextInv'
<1>. DEFINE more == <<>>
<1>1. more \in Seq(Words) /\ read \o more = read /\ piece \o more = piece
  <2>1. read \in Seq(Words)
    BY HeadOfText
  <2>. QED  BY <2>1, ConcatEmptySeq
<1>2. /\ Piece(goal, <<>>) = piece \o more =>
              \A ahead : Stands(<<goal>> \o Tail(todo), State(tree), read \o more, ahead)
      /\ \A t \in Punctuation : Piece(goal, <<>>) = (piece \o more) \o <<t>> =>
              \A ahead : Stands(<<Skip(t, <<>>), goal>> \o Tail(todo), State(tree), read \o more, ahead)
  <2>. HIDE DEF more
  <2>. QED  BY <1>1, BegunStands
<1>. HIDE DEF more
<1>3. ASSUME Go(<<goal>>, <<>>), Piece(goal, <<>>) = piece PROVE TextInv'
  <2>1. Stands(<<goal>> \o Tail(todo), State(tree), read, lookahead)
    BY <1>1, <1>2, <1>3
  <2>. QED  BY <1>3, <2>1, NoNode, GoText
<1>4. ASSUME NEW t \in Punctuation, Go(<<Skip(t, <<>>), goal>>, <<>>),
             Piece(goal, <<>>) = piece \o <<t>>
      PROVE  TextInv'
  <2>. DEFINE goals == <<Skip(t, <<>>), goal>>
  <2>1. Stands(goals \o Tail(todo), State(tree), read, lookahead)
    BY <1>1, <1>2, <1>4
  <2>2. Go(goals, <<>>)
    BY <1>4
  <2>. HIDE DEF goals
  <2>. QED  BY <2>1, <2>2, NoNode, GoText
<1>. QED  BY <1>3, <1>4

LEMMA HeadKind ==
  ASSUME IInv, TextInv, NEW what, Doing(what), what \notin {"Skip", "Emit", "MoreArgs", "Seq"}
  PROVE  /\ status = "running" /\ Head(todo) = todo[1] /\ todo[1] \in Goals
         /\ todo[1].do = what /\ Kind(todo[1]) = what /\ Shaped(todo[1])
         /\ lookahead \in Tokens /\ lookahead \in Words
<1>1. status = "running" /\ Head(todo) = todo[1] /\ todo[1] \in Goals /\ todo[1].do = what
  BY HeadOfText DEF Doing
<1>. DEFINE g == todo[1]
<1>2. g.do = what /\ g.do \notin {"Skip", "Emit", "MoreArgs", "Seq"}
  BY <1>1
<1>. HIDE DEF g
<1>3. Kind(g) = what /\ Shaped(g)
  BY <1>2, PlainKind DEF Shaped
<1>4. lookahead \in Tokens /\ lookahead \in Words
  BY <1>1, HeadOfText, TokenWords
<1>. QED  BY <1>1, <1>3, <1>4 DEF g

LEMMA PlainShaped ==
  /\ \A what : what \notin {"Skip", "Emit"} => Shaped(Do(what))
  /\ \A t : Shaped(Skip(t, <<>>))
  /\ \A t : Shaped(FuncId(t)) /\ Shaped(OperatorId(t))
  /\ \A d : Shaped(ParamList(d)) /\ Shaped(Body(d)) /\ Shaped(VarDecl(d))
  /\ \A d, t : Shaped(VarId(d, t)) /\ Shaped(Local(d, t))
  /\ \A x : Shaped(AssignOrCall(x)) /\ Shaped(VarOrCall(x)) /\ Shaped(Args(x))
  /\ \A k : Shaped(Else(k)) /\ Shaped(Program(k)) /\ Shaped(Remaining(k)) /\ Shaped(RightOf(k))
  /\ \A f, n : Shaped(MoreArgs(f, n))
<1>1. \A what : what \notin {"Skip", "Emit"} => Shaped(Do(what))
  BY DEF Shaped, Do
<1>2. \A t : Shaped(Skip(t, <<>>))
  BY DEF Shaped, Skip
<1>3. \A t : Shaped(FuncId(t)) /\ Shaped(OperatorId(t))
  BY DEF Shaped, FuncId, OperatorId
<1>4. \A d : Shaped(ParamList(d)) /\ Shaped(Body(d)) /\ Shaped(VarDecl(d))
  BY DEF Shaped, ParamList, Body, VarDecl
<1>5. \A d, t : Shaped(VarId(d, t)) /\ Shaped(Local(d, t))
  BY DEF Shaped, VarId, Local
<1>6. \A x : Shaped(AssignOrCall(x)) /\ Shaped(VarOrCall(x)) /\ Shaped(Args(x))
  BY DEF Shaped, AssignOrCall, VarOrCall, Args
<1>7. \A k : Shaped(Else(k)) /\ Shaped(Program(k)) /\ Shaped(Remaining(k)) /\ Shaped(RightOf(k))
  BY DEF Shaped, Else, Program, Remaining, RightOf
<1>8. \A f, n : Shaped(MoreArgs(f, n))
  BY DEF Shaped, MoreArgs
<1>. QED  BY <1>1, <1>2, <1>3, <1>4, <1>5, <1>6, <1>7, <1>8

LEMMA FuncDefText ==
  ASSUME IInv, TextInv, ParseFuncDef
  PROVE  TextInv'
<1>1. Doing("FuncDef")
  BY DEF ParseFuncDef
<1>2. /\ status = "running" /\ todo[1].do # "Program"
      /\ Kind(todo[1]) = "FuncDef" /\ lookahead \in Words
  BY <1>1, HeadKind
<1>3. CASE lookahead \notin Types
  BY <1>3, ErrorText DEF ParseFuncDef, TakeError
<1>4. CASE lookahead \in Types
  <2>. DEFINE goal == FuncId(lookahead)
  <2>1. goal \in Goals
    BY <1>4, PlainGoalTypes DEF PlainGoals
  <2>2. Shaped(goal) /\ Kind(goal) = "FuncId" /\ goal.ret = lookahead
    BY KindOf, PlainShaped DEF FuncId
  <2>3. Take(<<goal>>, <<>>)
    BY <1>4 DEF ParseFuncDef
  <2>. HIDE DEF goal
  <2>4. Piece(goal, <<>>) = <<lookahead>> /\ Piece(todo[1], <<>>) = <<>>
    BY <1>2, <2>2 DEF Piece
  <2>5. <<lookahead>> \in Seq(Words) /\ <<>> \in Seq(Words)
    BY <1>2, OneWord
  <2>6. <<>> \o <<lookahead>> = <<lookahead>>
    BY <2>5, ConcatEmptySeq
  <2>7. /\ Kind(todo[1]) \in BegunKinds \cup BottomKinds /\ Kind(goal) \in BegunKinds \cup BottomKinds
    BY <1>2, <2>2 DEF BegunKinds
  <2>. QED  BY <1>2, <2>1, <2>2, <2>3, <2>4, <2>5, <2>6, <2>7, TakeBegun
<1>. QED  BY <1>3, <1>4

(* The name of a definition, and the opening parenthesis.                  *)
LEMMA SignatureText ==
  ASSUME IInv, TextInv, status = "running", NEW ret \in Types, lookahead \in FuncNames,
         todo[1].do # "Program", Kind(todo[1]) \in {"FuncId", "OperatorId"},
         Piece(todo[1], <<>>) = <<ret>> \o (IF IsOperator(lookahead) THEN <<"operator">> ELSE <<>>),
         Take(Signature(lookahead, ret), <<>>)
  PROVE  TextInv'
<1>. DEFINE def == [name |-> lookahead, ret |-> ret, params |-> <<>>, body |-> FALSE]
            goal == ParamList(def)
            piece == Piece(todo[1], <<>>)
<1>1. def \in FuncDefs /\ def.name = lookahead /\ def.ret = ret /\ def.params = <<>>
  BY DEF FuncDefs
<1>2. Signature(lookahead, ret) = <<Skip("(", <<>>), goal>>
  BY DEF Signature
<1>. HIDE DEF def
<1>3. goal \in Goals /\ Kind(goal) = "ParamList" /\ Shaped(goal) /\ goal.def = def
  BY <1>1, PlainGoalTypes, KindOf, PlainShaped DEF PlainGoals, ParamList
<1>4. Piece(goal, <<>>) = Signed(def)
  BY <1>3 DEF Piece
<1>5. Named(def) = piece
  BY <1>1 DEF Named
<1>6. CommaList(VarTexts(def)) = <<>>
  <2>1. VarTexts(def) = <<>>
    <3>1. VarTexts(def) \in Seq(Texts) /\ Len(VarTexts(def)) = 0
      BY <1>1, VarTextsTyped
    <3>. QED  BY <3>1, EmptySeq
  <2>. QED  BY <2>1, ListEmpty
<1>. DEFINE a == <<lookahead>>
            b == <<"(">>
<1>7. a \in Seq(Words) /\ b \in Seq(Words) /\ <<lookahead, "(">> = a \o b
  <2>1. lookahead \in Words /\ "(" \in Words
    BY TokenWords DEF Punctuation
  <2>. QED  BY <2>1, OneWord, PairJoined
<1>8. piece \in Seq(Words) /\ Signed(def) = piece \o (a \o b)
  <2>1. /\ Named(def) \in Seq(Words) /\ <<def.name, "(">> \in Seq(Words)
        /\ Signed(def) = (Named(def) \o <<def.name, "(">>) \o CommaList(VarTexts(def))
    BY <1>1, SignedTyped
  <2>. HIDE DEF a, b, piece
  <2>2. piece \o (a \o b) \in Seq(Words)
    BY <1>5, <1>7, <2>1, Assoc
  <2>3. (piece \o (a \o b)) \o <<>> = piece \o (a \o b)
    BY <2>2, ConcatEmptySeq
  <2>. QED  BY <1>1, <1>5, <1>6, <1>7, <2>1, <2>3
<1>9. Piece(goal, <<>>) = (piece \o a) \o b
  <2>. HIDE DEF a, b, piece, goal
  <2>1. (piece \o a) \o b = piece \o (a \o b)
    BY <1>7, <1>8, Assoc
  <2>. QED  BY <1>4, <1>8, <2>1
<1>10. /\ Kind(todo[1]) \in BegunKinds \cup BottomKinds /\ Kind(goal) \in BegunKinds \cup BottomKinds
  BY <1>3 DEF BegunKinds
<1>. HIDE DEF goal
<1>11. "(" \in Punctuation /\ Take(<<Skip("(", <<>>), goal>>, <<>>)
  BY <1>2 DEF Punctuation
<1>. QED  BY <1>3, <1>8, <1>9, <1>10, <1>11, TakeBegun

LEMMA FuncIdText ==
  ASSUME IInv, TextInv, ParseFuncId
  PROVE  TextInv'
<1>. DEFINE g == todo[1]
            ret == g.ret
<1>1. Doing("FuncId")
  BY DEF ParseFuncId
<1>2. /\ status = "running" /\ g.do = "FuncId" /\ Head(todo) = g
      /\ Kind(g) = "FuncId" /\ lookahead \in Words /\ g \in Goals
  BY <1>1, HeadKind
<1>3. ret \in Types
  BY <1>2, GoalFields
<1>4. Piece(g, <<>>) = <<ret>>
  BY <1>2 DEF Piece
<1>5. CASE lookahead = "operator"
  <2>. DEFINE goal == OperatorId(ret)
  <2>1. goal \in Goals /\ Shaped(goal) /\ Kind(goal) = "OperatorId" /\ goal.ret = ret
    BY <1>3, PlainGoalTypes, KindOf, PlainShaped DEF PlainGoals, OperatorId
  <2>2. Take(<<goal>>, <<>>)
    <3>1. lookahead \notin Ids
      BY <1>5, TokensAssumption DEF Keywords
    <3>. QED  BY <1>2, <1>5, <3>1 DEF ParseFuncId
  <2>. HIDE DEF goal, g
  <2>3. Piece(goal, <<>>) = <<ret, "operator">>
    BY <2>1 DEF Piece
  <2>4. <<ret>> \in Seq(Words) /\ <<ret>> \o <<lookahead>> = <<ret, "operator">>
    <3>1. ret \in Words /\ "operator" \in Words
      BY <1>3, TokenWords
    <3>. HIDE DEF ret
    <3>. QED  BY <1>5, <3>1, OneWord, PairJoined
  <2>5. /\ Kind(g) \in BegunKinds \cup BottomKinds /\ Kind(goal) \in BegunKinds \cup BottomKinds
    BY <1>2, <2>1 DEF BegunKinds
  <2>6. g.do # "Program"
    BY <1>2
  <2>. QED  BY <1>2, <1>4, <2>1, <2>2, <2>3, <2>4, <2>5, <2>6, TakeBegun DEF g
<1>6. CASE lookahead \in Ids /\ lookahead # "operator"
  <2>1. lookahead \in FuncNames /\ ~IsOperator(lookahead)
    BY <1>6, TokensAssumption DEF IsOperator, OperatorNames, Operators, Keywords
  <2>2. Take(Signature(lookahead, ret), <<>>)
    BY <1>2, <1>6 DEF ParseFuncId
  <2>3. <<ret>> \o <<>> = <<ret>>
    <3>1. <<ret>> \in Seq(Words)
      BY <1>3, TokenWords, OneWord
    <3>. QED  BY <3>1, ConcatEmptySeq
  <2>4. g.do # "Program" /\ Kind(g) \in {"FuncId", "OperatorId"}
    BY <1>2
  <2>5. Piece(g, <<>>) = <<ret>> \o (IF IsOperator(lookahead) THEN <<"operator">> ELSE <<>>)
    BY <1>4, <2>1, <2>3
  <2>. HIDE DEF ret
  <2>. QED  BY <1>2, <1>3, <2>1, <2>2, <2>4, <2>5, SignatureText
<1>7. CASE lookahead \notin Ids /\ lookahead # "operator"
  <2>1. status' = "error"
    BY <1>7 DEF ParseFuncId, TakeError
  <2>. QED  BY <2>1, ErrorText
<1>. QED  BY <1>5, <1>6, <1>7

LEMMA OperatorIdText ==
  ASSUME IInv, TextInv, ParseOperatorId
  PROVE  TextInv'
<1>. DEFINE g == todo[1]
            ret == g.ret
<1>1. Doing("OperatorId")
  BY DEF ParseOperatorId
<1>2. /\ status = "running" /\ g.do = "OperatorId" /\ Head(todo) = g
      /\ Kind(g) = "OperatorId" /\ lookahead \in Words /\ g \in Goals
  BY <1>1, HeadKind
<1>3. ret \in Types
  BY <1>2, GoalFields
<1>4. Piece(g, <<>>) = <<ret, "operator">>
  BY <1>2 DEF Piece
<1>5. CASE ~IsOperator(lookahead)
  <2>1. status' = "error"
    BY <1>5 DEF ParseOperatorId, TakeError
  <2>. QED  BY <2>1, ErrorText
<1>6. CASE IsOperator(lookahead)
  <2>1. lookahead \in FuncNames
    BY <1>6, NamedTokens DEF IsOperator
  <2>2. Take(Signature(lookahead, ret), <<>>)
    BY <1>2, <1>6 DEF ParseOperatorId
  <2>3. <<ret>> \o <<"operator">> = <<ret, "operator">>
    <3>1. ret \in Words /\ "operator" \in Words
      BY <1>3, TokenWords
    <3>. HIDE DEF ret
    <3>. QED  BY <3>1, PairJoined
  <2>4. g.do # "Program" /\ Kind(g) \in {"FuncId", "OperatorId"}
    BY <1>2
  <2>5. Piece(g, <<>>) = <<ret>> \o (IF IsOperator(lookahead) THEN <<"operator">> ELSE <<>>)
    BY <1>4, <1>6, <2>3
  <2>. HIDE DEF ret
  <2>. QED  BY <1>2, <1>3, <2>1, <2>2, <2>4, <2>5, SignatureText
<1>. QED  BY <1>5, <1>6

LEMMA ParamsText ==
  ASSUME IInv, TextInv, ParseParams
  PROVE  TextInv'
<1>. DEFINE g == todo[1]
            def == g.def
<1>1. Doing("ParamList")
  BY DEF ParseParams
<1>2. /\ status = "running" /\ g.do = "ParamList" /\ Head(todo) = g
      /\ Kind(g) = "ParamList" /\ lookahead \in Words /\ g \in Goals
  BY <1>1, HeadKind
<1>3. def \in FuncDefs
  BY <1>2, GoalFields
<1>4. Piece(g, <<>>) = Signed(def) /\ Signed(def) \in Seq(Words)
  BY <1>2, <1>3, SignedTyped DEF Piece
<1>5. Kind(g) \in BegunKinds \cup BottomKinds /\ g.do # "Program"
  BY <1>2 DEF BegunKinds
<1>. DEFINE var == VarDecl(def)
<1>6. var \in Goals /\ Shaped(var) /\ Kind(var) = "VarDecl" /\ var.of = def
  BY <1>3, PlainGoalTypes, KindOf, PlainShaped DEF PlainGoals, VarDecl, Owners
<1>7. Piece(var, <<>>) = NextVar(def)
  <2>. HIDE DEF var
  <2>. QED  BY <1>6 DEF Piece
<1>8. NextVar(def) = Signed(def) \o (IF def.params = <<>> THEN <<>> ELSE <<",">>)
  <2>1. def # Null
    BY <1>3, NullAssumption DEF NullNotADecl
  <2>. QED  BY <2>1 DEF NextVar
<1>9. Kind(var) \in BegunKinds \cup BottomKinds
  BY <1>6 DEF BegunKinds
<1>10. CASE lookahead = ")"
  <2>. DEFINE goal == Body(def)
  <2>1. goal \in Goals /\ Shaped(goal) /\ Kind(goal) = "Body" /\ goal.def = def
    BY <1>3, PlainGoalTypes, KindOf, PlainShaped DEF PlainGoals, Body
  <2>2. Take(<<goal>>, <<>>)
    BY <1>2, <1>10 DEF ParseParams
  <2>. HIDE DEF goal
  <2>3. Piece(goal, <<>>) = Signed(def) \o <<lookahead>>
    BY <1>10, <2>1 DEF Piece
  <2>4. Kind(goal) \in BegunKinds \cup BottomKinds
    BY <2>1 DEF BegunKinds
  <2>. QED  BY <1>2, <1>4, <1>5, <2>1, <2>2, <2>3, <2>4, TakeBegun
<1>11. CASE lookahead # ")" /\ def.params = <<>>
  <2>1. Go(<<var>>, <<>>)
    BY <1>2, <1>11 DEF ParseParams
  <2>2. Piece(var, <<>>) = Signed(def)
    <3>1. Signed(def) \o <<>> = Signed(def)
      BY <1>4, ConcatEmptySeq
    <3>. QED  BY <1>7, <1>8, <1>11, <3>1
  <2>. HIDE DEF var
  <2>. QED  BY <1>2, <1>4, <1>5, <1>6, <1>9, <2>1, <2>2, GoBegun
<1>12. CASE lookahead # ")" /\ def.params # <<>>
  <2>1. Go(<<Skip(",", <<>>), var>>, <<>>) /\ "," \in Punctuation
    BY <1>2, <1>12 DEF ParseParams, Punctuation
  <2>2. Piece(var, <<>>) = Signed(def) \o <<",">>
    BY <1>7, <1>8, <1>12
  <2>. HIDE DEF var
  <2>. QED  BY <1>2, <1>4, <1>5, <1>6, <1>9, <2>1, <2>2, GoBegun
<1>. QED  BY <1>10, <1>11, <1>12

LEMMA NextVarTyped ==
  ASSUME NEW of \in Owners
  PROVE  NextVar(of) \in Seq(Words)
<1>1. CASE of = Null
  <2>1. <<>> \in Seq(Words)
    OBVIOUS
  <2>. QED  BY <1>1, <2>1 DEF NextVar
<1>2. CASE of # Null
  <2>1. of \in FuncDefs
    BY <1>2 DEF Owners
  <2>2. Signed(of) \in Seq(Words)
    BY <2>1, SignedTyped
  <2>. DEFINE comma == IF of.params = <<>> THEN <<>> ELSE <<",">>
  <2>3. comma \in Seq(Words)
    <3>1. "," \in Words
      BY TokenWords DEF Punctuation
    <3>2. <<",">> \in Seq(Words)
      <4>. DEFINE t == ","
      <4>1. t \in Words
        BY <3>1
      <4>. HIDE DEF t
      <4>2. <<t>> \in Seq(Words)
        BY <4>1, OneWord
      <4>. QED  BY <4>2 DEF t
    <3>3. <<>> \in Seq(Words)
      OBVIOUS
    <3>. QED  BY <3>2, <3>3
  <2>4. NextVar(of) = Signed(of) \o comma
    BY <1>2 DEF NextVar
  <2>. HIDE DEF comma
  <2>. QED  BY <2>2, <2>3, <2>4, JoinedWords
<1>. QED  BY <1>1, <1>2

LEMMA VarDeclText ==
  ASSUME IInv, TextInv, ParseVarDecl
  PROVE  TextInv'
<1>. DEFINE g == todo[1]
            of == g.of
<1>1. Doing("VarDecl")
  BY DEF ParseVarDecl
<1>2. /\ status = "running" /\ g.do = "VarDecl" /\ Head(todo) = g
      /\ Kind(g) = "VarDecl" /\ lookahead \in Words /\ g \in Goals
  BY <1>1, HeadKind
<1>3. of \in Owners
  BY <1>2, GoalFields
<1>4. Piece(g, <<>>) = NextVar(of) /\ NextVar(of) \in Seq(Words)
  BY <1>2, <1>3, NextVarTyped DEF Piece
<1>5. Kind(g) \in BegunKinds \cup BottomKinds /\ g.do # "Program"
  BY <1>2 DEF BegunKinds
<1>6. CASE lookahead \notin Types
  <2>1. status' = "error"
    BY <1>6 DEF ParseVarDecl, TakeError
  <2>. QED  BY <2>1, ErrorText
<1>7. CASE lookahead \in Types
  <2>. DEFINE goal == VarId(of, lookahead)
  <2>1. goal \in Goals /\ Shaped(goal) /\ Kind(goal) = "VarId" /\ goal.of = of /\ goal.type = lookahead
    BY <1>3, <1>7, PlainGoalTypes, KindOf, PlainShaped DEF PlainGoals, VarId
  <2>2. Take(<<goal>>, <<>>)
    BY <1>2, <1>7 DEF ParseVarDecl
  <2>. HIDE DEF goal
  <2>3. Piece(goal, <<>>) = NextVar(of) \o <<lookahead>>
    BY <2>1 DEF Piece
  <2>4. Kind(goal) \in BegunKinds \cup BottomKinds
    BY <2>1 DEF BegunKinds
  <2>. QED  BY <1>2, <1>4, <1>5, <2>1, <2>2, <2>3, <2>4, TakeBegun
<1>. QED  BY <1>6, <1>7

(* A definition with one more parameter.                                   *)
LEMMA NextSigned ==
  ASSUME NEW def \in FuncDefs, NEW t \in Types, NEW x \in VarNames
  PROVE  LET new == [def EXCEPT !.params = Append(@, [name |-> x, type |-> t])] IN
         new \in FuncDefs /\ Signed(new) = (NextVar(def) \o <<t>>) \o <<x>>
<1>. DEFINE param == [name |-> x, type |-> t]
            new == [def EXCEPT !.params = Append(@, param)]
            var == VarText(param)
            texts == VarTexts(def)
            a == Named(def) \o <<def.name, "(">>
            b == CommaList(texts)
            comma == <<",">>
            tt == <<t>>
            xx == <<x>>
<1>1. /\ def.params \in Seq(Params) /\ param \in Params
      /\ new \in FuncDefs /\ new.params = Append(def.params, param)
      /\ new.name = def.name /\ new.ret = def.ret
  <2>1. param \in Params
    BY DEF Params
  <2>. HIDE DEF param
  <2>. QED  BY <2>1 DEF FuncDefs
<1>2. var \in Texts /\ var = tt \o xx /\ tt \in Seq(Words) /\ xx \in Seq(Words)
  <2>1. t \in Words /\ x \in Words
    BY TokenWords
  <2>2. var = <<t, x>>
    BY DEF VarText
  <2>3. tt \o xx = <<t, x>> /\ tt \in Seq(Words) /\ xx \in Seq(Words) /\ <<t, x>> \in Seq(Words)
    BY <2>1, PairJoined, OneWord, TwoWords
  <2>4. <<t, x>> # <<>>
    OBVIOUS
  <2>. QED  BY <2>2, <2>3, <2>4 DEF Texts
<1>3. comma \in Seq(Words)
  <2>. DEFINE c == ","
  <2>1. c \in Words
    BY TokenWords DEF Punctuation
  <2>. HIDE DEF c
  <2>2. <<c>> \in Seq(Words)
    BY <2>1, OneWord
  <2>. QED  BY <2>2 DEF c
<1>. HIDE DEF param, new
<1>4. texts \in Seq(Texts) /\ Len(texts) = Len(def.params) /\ VarTexts(new) \in Seq(Texts)
      /\ Len(VarTexts(new)) = Len(new.params)
  BY <1>1, VarTextsTyped
<1>5. VarTexts(new) = Append(texts, var)
  <2>1. Len(def.params) \in Nat /\ Len(new.params) = Len(def.params) + 1
        /\ DOMAIN new.params = 1 .. Len(def.params) + 1 /\ DOMAIN def.params = 1 .. Len(def.params)
        /\ new.params[Len(def.params) + 1] = param
        /\ \A i \in 1 .. Len(def.params) : new.params[i] = def.params[i]
    BY <1>1
  <2>2. \A i \in 1 .. Len(def.params) : VarTexts(new)[i] = texts[i]
    BY <2>1 DEF VarTexts
  <2>3. VarTexts(new)[Len(def.params) + 1] = var
    BY <2>1 DEF VarTexts
  <2>. HIDE DEF texts, var
  <2>. QED  BY <1>2, <1>4, <2>1, <2>2, <2>3, TupleAppended
<1>6. Named(new) = Named(def) /\ a \in Seq(Words) /\ b \in Seq(Words) /\ Signed(def) = a \o b
      /\ Signed(new) = a \o CommaList(VarTexts(new))
  <2>1. Named(new) = Named(def)
    BY <1>1 DEF Named
  <2>2. /\ Named(def) \in Seq(Words) /\ <<def.name, "(">> \in Seq(Words) /\ b \in Seq(Words)
        /\ Signed(def) = a \o b
    BY SignedTyped
  <2>3. Signed(new) = (Named(new) \o <<new.name, "(">>) \o CommaList(VarTexts(new))
    BY <1>1, SignedTyped
  <2>. QED  BY <1>1, <2>1, <2>2, <2>3, JoinedWords
<1>7. NextVar(def) = (a \o b) \o (IF def.params = <<>> THEN <<>> ELSE comma)
  <2>1. def # Null
    BY NullAssumption DEF NullNotADecl
  <2>. QED  BY <1>6, <2>1 DEF NextVar
<1>8. texts = <<>> <=> def.params = <<>>
  BY <1>1, <1>4, EmptySeq
<1>9. CommaList(Append(texts, var)) = IF texts = <<>> THEN var ELSE (b \o comma) \o var
  <2>. HIDE DEF var
  <2>. QED  BY <1>2, <1>4, ListNext
<1>10. texts = <<>> => b = <<>>
  BY ListEmpty
<1>. HIDE DEF a, b, comma, tt, xx, texts, var
<1>11. CASE def.params = <<>>
  <2>1. Signed(new) = a \o (tt \o xx)
    BY <1>2, <1>5, <1>6, <1>8, <1>9, <1>11
  <2>2. NextVar(def) = a
    <3>1. a \o <<>> = a
      BY <1>6, ConcatEmptySeq
    <3>. QED  BY <1>7, <1>8, <1>10, <1>11, <3>1
  <2>3. (a \o tt) \o xx = a \o (tt \o xx)
    BY <1>2, <1>6, Assoc
  <2>. QED  BY <1>1, <2>1, <2>2, <2>3 DEF tt, xx, new, param
<1>12. CASE def.params # <<>>
  <2>1. Signed(new) = a \o ((b \o comma) \o (tt \o xx))
    BY <1>2, <1>5, <1>6, <1>8, <1>9, <1>12
  <2>2. NextVar(def) = (a \o b) \o comma
    BY <1>7, <1>12
  <2>. DEFINE bc == b \o comma
              abc == a \o bc
  <2>3. bc \in Seq(Words) /\ (a \o b) \o comma = abc
    BY <1>3, <1>6, Assoc
  <2>. HIDE DEF bc
  <2>4. abc \in Seq(Words) /\ tt \o xx \in Seq(Words)
    BY <1>2, <1>6, <2>3, JoinedWords
  <2>5. a \o (bc \o (tt \o xx)) = abc \o (tt \o xx)
    <3>. DEFINE tx == tt \o xx
    <3>1. tx \in Seq(Words)
      BY <2>4
    <3>. HIDE DEF tx
    <3>2. a \in Seq(Words) /\ bc \in Seq(Words)
      BY <1>6, <2>3
    <3>3. a \o (bc \o tx) = (a \o bc) \o tx
      BY <3>1, <3>2, Assoc
    <3>. QED  BY <3>3 DEF tx
  <2>. HIDE DEF abc
  <2>6. abc \o (tt \o xx) = (abc \o tt) \o xx
    BY <1>2, <2>4, Assoc
  <2>7. Signed(new) = (NextVar(def) \o tt) \o xx
    BY <2>1, <2>2, <2>3, <2>5, <2>6 DEF bc
  <2>. QED  BY <1>1, <2>7 DEF tt, xx, new, param
<1>. QED  BY <1>11, <1>12

LEMMA VarIdText ==
  ASSUME IInv, TextInv, ParseVarId
  PROVE  TextInv'
<1>. DEFINE g == todo[1]
            of == g.of
            t == g.type
<1>1. Doing("VarId")
  BY DEF ParseVarId
<1>2. /\ status = "running" /\ g.do = "VarId" /\ Head(todo) = g
      /\ Kind(g) = "VarId" /\ lookahead \in Words /\ g \in Goals
  BY <1>1, HeadKind
<1>3. of \in Owners /\ t \in Types
  BY <1>2, GoalFields
<1>4. Piece(g, <<>>) = NextVar(of) \o <<t>> /\ NextVar(of) \o <<t>> \in Seq(Words)
  <2>1. Piece(g, <<>>) = NextVar(of) \o <<t>>
    BY <1>2 DEF Piece
  <2>2. NextVar(of) \in Seq(Words) /\ <<t>> \in Seq(Words)
    <3>. HIDE DEF of, t
    <3>. QED  BY <1>3, NextVarTyped, TokenWords, OneWord
  <2>. HIDE DEF of, t
  <2>3. NextVar(of) \o <<t>> \in Seq(Words)
    BY <2>2, JoinedWords
  <2>. QED  BY <2>1, <2>3
<1>5. Kind(g) \in BegunKinds \cup BottomKinds /\ g.do # "Program"
  BY <1>2 DEF BegunKinds
<1>6. CASE lookahead \notin Ids
  <2>1. status' = "error"
    BY <1>6 DEF ParseVarId, TakeError
  <2>. QED  BY <2>1, ErrorText
<1>7. CASE lookahead \in Ids
  <2>1. lookahead \in VarNames
    BY <1>7, TokensAssumption
  <2>2. CASE of = Null
    <3>. DEFINE goal == Local(lookahead, t)
    <3>1. goal \in Goals /\ Shaped(goal) /\ Kind(goal) = "Local" /\ goal.name = lookahead /\ goal.type = t
      <4>. HIDE DEF t
      <4>. QED  BY <1>3, <2>1, PlainGoalTypes, KindOf, PlainShaped DEF PlainGoals, Local
    <3>2. Take(<<goal>>, <<>>)
      BY <1>2, <1>7, <2>2 DEF ParseVarId
    <3>. HIDE DEF goal
    <3>3. Piece(goal, <<>>) = <<t, lookahead>>
      BY <3>1 DEF Piece
    <3>4. Kind(goal) \in BegunKinds \cup BottomKinds
      BY <3>1 DEF BegunKinds
    <3>5. (NextVar(of) \o <<t>>) \o <<lookahead>> = <<t, lookahead>>
      <4>1. NextVar(of) = <<>>
        BY <2>2 DEF NextVar
      <4>. HIDE DEF t, of
      <4>2. t \in Words
        BY <1>3, TokenWords
      <4>3. <<t>> \o <<lookahead>> = <<t, lookahead>> /\ <<t>> \in Seq(Words)
        BY <1>2, <4>2, PairJoined, OneWord
      <4>4. <<>> \o <<t>> = <<t>>
        BY <4>3, ConcatEmptySeq
      <4>. QED  BY <4>1, <4>3, <4>4
    <3>. HIDE DEF t, of
    <3>. QED  BY <1>2, <1>4, <1>5, <3>1, <3>2, <3>3, <3>4, <3>5, TakeBegun
  <2>3. CASE of # Null
    <3>. DEFINE new == [of EXCEPT !.params = Append(@, [name |-> lookahead, type |-> t])]
                goal == ParamList(new)
    <3>1. of \in FuncDefs
      BY <1>3, <2>3 DEF Owners
    <3>2. new \in FuncDefs /\ Signed(new) = (NextVar(of) \o <<t>>) \o <<lookahead>>
      <4>. HIDE DEF of, t
      <4>. QED  BY <1>3, <2>1, <3>1, NextSigned
    <3>3. Take(<<goal>>, <<>>)
      BY <1>2, <1>7, <2>3 DEF ParseVarId
    <3>. HIDE DEF new
    <3>4. goal \in Goals /\ Shaped(goal) /\ Kind(goal) = "ParamList" /\ goal.def = new
      BY <3>2, PlainGoalTypes, KindOf, PlainShaped DEF PlainGoals, ParamList
    <3>. HIDE DEF goal
    <3>5. Piece(goal, <<>>) = Signed(new)
      BY <3>4 DEF Piece
    <3>6. Kind(goal) \in BegunKinds \cup BottomKinds
      BY <3>4 DEF BegunKinds
    <3>. HIDE DEF t, of
    <3>. QED  BY <1>2, <1>4, <1>5, <3>2, <3>3, <3>4, <3>5, <3>6, TakeBegun
  <2>. QED  BY <2>2, <2>3
<1>. QED  BY <1>6, <1>7

-----------------------------------------------------------------------------
(* Statements that are about to be parsed                                  *)

LEMMA BottomGoals ==
  /\ \A what \in {"Seq", "Stmts", "Stmt"} : Do(what) \in Goals /\ Shaped(Do(what)) /\ IsBottom(Do(what))
  /\ \A m \in {"EndFunc", "EndIf", "EndWhile"} :
       Mark(m) \in TreeNodes /\ Emit(Mark(m)) \in Goals /\ Shaped(Emit(Mark(m))) /\ IsBottom(Emit(Mark(m)))
  /\ \A k \in Nat : Else(k) \in Goals /\ Shaped(Else(k)) /\ IsBottom(Else(k))
  /\ \A k \in Nat : Program(k) \in Goals /\ Shaped(Program(k)) /\ IsBottom(Program(k))
<1>1. ASSUME NEW what \in {"Seq", "Stmts", "Stmt"}
      PROVE  Do(what) \in Goals /\ Shaped(Do(what)) /\ IsBottom(Do(what))
  <2>1. Do(what) \in Goals
    BY PlainGoalTypes DEF PlainGoals
  <2>2. Shaped(Do(what))
    BY PlainShaped
  <2>3. Kind(Do(what)) \in {"Braces", "Stmts", "Stmt"}
    BY KindOf
  <2>. QED  BY <2>1, <2>2, <2>3 DEF IsBottom, BottomKinds
<1>2. ASSUME NEW m \in {"EndFunc", "EndIf", "EndWhile"}
      PROVE  Mark(m) \in TreeNodes /\ Emit(Mark(m)) \in Goals /\ Shaped(Emit(Mark(m)))
             /\ IsBottom(Emit(Mark(m)))
  <2>1. Mark(m) \in TreeNodes /\ Mark(m).n = m
    BY NodeTypes DEF Marks, Mark
  <2>2. Emit(Mark(m)) \in Goals
    BY <2>1, PlainGoalTypes DEF PlainGoals
  <2>. DEFINE node == Mark(m)
              g == Emit(node)
  <2>3. g.do = "Emit" /\ g.node = node
    BY DEF Emit
  <2>4. Kind(g) = "Mark"
    <3>. HIDE DEF node
    <3>1. node.n # "Call"
      BY <2>1 DEF node
    <3>. QED  BY <3>1, KindOf
  <2>. HIDE DEF g, node
  <2>5. Shaped(g)
    <3>1. g.node.n = m
      BY <2>1, <2>3 DEF node
    <3>. QED  BY <2>3, <3>1 DEF Shaped
  <2>. QED  BY <2>1, <2>2, <2>4, <2>5 DEF IsBottom, BottomKinds, g, node
<1>3. ASSUME NEW k \in Nat
      PROVE  /\ Else(k) \in Goals /\ Shaped(Else(k)) /\ IsBottom(Else(k))
             /\ Program(k) \in Goals /\ Shaped(Program(k)) /\ IsBottom(Program(k))
  <2>1. Else(k) \in Goals /\ Program(k) \in Goals
    BY DEF Goals, Else, Program
  <2>2. Shaped(Else(k)) /\ Shaped(Program(k))
    BY PlainShaped
  <2>3. Kind(Else(k)) = "Else" /\ Kind(Program(k)) = "Program"
    BY KindOf
  <2>. QED  BY <2>1, <2>2, <2>3 DEF IsBottom, BottomKinds
<1>. QED  BY <1>1, <1>2, <1>3

(* One goal that nothing was read for, then another in front of it.        *)
LEMMA PushBottom ==
  ASSUME NEW goal \in Goals, Shaped(goal), IsBottom(goal),
         NEW goals \in Seq(Goals), NEW st \in States, st.levels = <<>>,
         Waits(goals, st, st.written.printed, 0), IsBottom(goals[1])
  PROVE  /\ Waits(<<goal>> \o goals, st, st.written.printed, 0)
         /\ \A ahead : Stands(<<goal>> \o goals, st, st.written.printed, ahead)
         /\ IsBottom((<<goal>> \o goals)[1]) /\ <<goal>> \o goals \in Seq(Goals)
<1>1. Piece(goal, <<>>) = <<>> /\ Kind(goal) \in BegunKinds \cup BottomKinds
  BY KindSets DEF IsBottom
<1>2. st.written.printed \in Seq(Words) /\ st.written.printed \o <<>> = st.written.printed
  <2>1. st.written.printed \in Seq(Words)
    BY StateFields
  <2>. QED  BY <2>1, ConcatEmptySeq
<1>. DEFINE x == st.written.printed
<1>3. x \in Seq(Words) /\ x = st.written.printed \o Piece(goal, <<>>)
  BY <1>1, <1>2
<1>. HIDE DEF x
<1>4. /\ Waits(<<goal>> \o goals, st, x, 0)
      /\ \A ahead : Stands(<<goal>> \o goals, st, x, ahead)
      /\ (<<goal>> \o goals)[1] = goal /\ <<goal>> \o goals \in Seq(Goals)
  BY <1>1, <1>3, PushBegun
<1>. QED  BY <1>4 DEF x

LEMMA PushTwo ==
  ASSUME NEW a \in Goals, Shaped(a), Kind(a) \in BegunKinds \cup BottomKinds, Piece(a, <<>>) = <<>>,
         NEW b \in Goals, Shaped(b), IsBottom(b),
         NEW goals \in Seq(Goals), NEW st \in States, st.levels = <<>>,
         Waits(goals, st, st.written.printed, 0), IsBottom(goals[1])
  PROVE  \A ahead : Stands(<<a, b>> \o goals, st, st.written.printed, ahead)
<1>. DEFINE rest == <<b>> \o goals
            x == st.written.printed
<1>1. Waits(rest, st, x, 0) /\ IsBottom(rest[1]) /\ rest \in Seq(Goals)
  BY PushBottom
<1>2. x \in Seq(Words) /\ x = st.written.printed \o Piece(a, <<>>)
  <2>1. st.written.printed \in Seq(Words)
    BY StateFields
  <2>2. st.written.printed \o <<>> = st.written.printed
    BY <2>1, ConcatEmptySeq
  <2>. QED  BY <2>1, <2>2
<1>3. <<a, b>> \o goals = <<a>> \o rest
  BY GoalsJoined
<1>4. x = st.written.printed
  OBVIOUS
<1>. HIDE DEF rest, x
<1>5. \A ahead : Stands(<<a>> \o rest, st, x, ahead)
  BY <1>1, <1>2, <1>4, PushBegun
<1>. QED  BY <1>3, <1>4, <1>5

(* The goals of a statement replace that of a statement or definition      *)
(* without a piece of its own.                                             *)
LEMMA GoTwo ==
  ASSUME IInv, TextInv, status = "running", todo[1].do # "Program",
         Kind(todo[1]) \in BegunKinds \cup BottomKinds, Piece(todo[1], <<>>) = <<>>,
         NEW a \in Goals, Shaped(a), Kind(a) \in BegunKinds \cup BottomKinds, Piece(a, <<>>) = <<>>,
         NEW b \in Goals, Shaped(b), IsBottom(b), Go(<<a, b>>, <<>>)
  PROVE  TextInv'
<1>. DEFINE st == State(tree)
            rest == Tail(todo)
<1>1. /\ st \in States /\ st.levels = <<>> /\ rest \in Seq(Goals) /\ IsBottom(rest[1])
      /\ Waits(rest, st, st.written.printed, 0) /\ read = st.written.printed \o Piece(todo[1], <<>>)
  BY BegunHead
<1>2. read = st.written.printed
  <2>1. st.written.printed \in Seq(Words)
    BY <1>1, StateFields
  <2>2. st.written.printed \o <<>> = st.written.printed
    BY <2>1, ConcatEmptySeq
  <2>. QED  BY <1>1, <2>2
<1>. HIDE DEF st, rest
<1>3. Stands(<<a, b>> \o rest, st, st.written.printed, lookahead)
  BY <1>1, PushTwo
<1>4. Appending(<<>>, st)
  BY NoNode DEF st
<1>. QED  BY <1>2, <1>3, <1>4, GoText DEF rest

LEMMA SeqText ==
  ASSUME IInv, TextInv, ParseSeq
  PROVE  TextInv'
<1>. DEFINE node == Mark("Seq")
            a == Skip("{", <<node>>)
            b == Do("Stmts")
<1>1. status = "running" /\ todo[1].do = "Seq"
  BY HeadOfText DEF ParseSeq, Doing
<1>2. Go(<<a, b>>, <<>>)
  BY DEF ParseSeq
<1>3. node \in TreeNodes /\ node.n = "Seq"
  BY NodeTypes DEF Marks, Mark
<1>4. b \in Goals /\ Shaped(b) /\ IsBottom(b)
  BY BottomGoals
<1>. HIDE DEF node, b
<1>5. a \in Goals /\ Kind(a) = "Seq" /\ a.do = "Skip" /\ a.token = "{" /\ a.nodes = <<node>>
  <2>1. <<node>> \in Seq(TreeNodes) /\ "{" \in Punctuation
    BY <1>3, OneWord DEF Punctuation
  <2>2. a \in Goals
    BY <2>1, PlainGoalTypes DEF PlainGoals
  <2>3. Kind(a) = "Seq"
    BY <1>3, KindOf
  <2>. QED  BY <2>2, <2>3 DEF Skip
<1>. HIDE DEF a
<1>6. Shaped(a) /\ Piece(a, <<>>) = <<>>
  <2>1. Shaped(a)
    BY <1>3, <1>5 DEF Shaped
  <2>. QED  BY <1>5, <2>1 DEF Piece
<1>7. Kind(a) \in BegunKinds \cup BottomKinds
  BY <1>5 DEF BegunKinds
<1>8. todo[1].do # "Program" /\ Kind(todo[1]) \in BegunKinds \cup BottomKinds /\ Piece(todo[1], <<>>) = <<>>
  <2>. DEFINE g == todo[1]
  <2>1. g.do = "Seq"
    BY <1>1
  <2>. HIDE DEF g
  <2>2. Kind(g) = "Braces"
    BY <2>1 DEF Kind
  <2>3. Piece(g, <<>>) = <<>> /\ Kind(g) \in BegunKinds \cup BottomKinds
    BY <2>2 DEF Piece, BottomKinds
  <2>. QED  BY <2>1, <2>3 DEF g
<1>. QED  BY <1>1, <1>2, <1>4, <1>5, <1>6, <1>7, <1>8, GoTwo

-----------------------------------------------------------------------------
(* The rest of a definition                                                *)

LEMMA FuncNode ==
  ASSUME NEW def \in FuncDefs, NEW body \in BOOLEAN
  PROVE  LET new  == [def EXCEPT !.body = body]
             node == [n |-> "Func", def |-> new]
         IN
         /\ node \in TreeNodes /\ node.n = "Func" /\ node.def = new /\ new \in FuncDefs
         /\ new.body = body /\ Signed(new) = Signed(def)
<1>. DEFINE new  == [def EXCEPT !.body = body]
            node == [n |-> "Func", def |-> new]
<1>1. /\ new \in FuncDefs /\ new.body = body /\ new.ret = def.ret /\ new.name = def.name
      /\ new.params = def.params
  BY DEF FuncDefs
<1>. HIDE DEF new
<1>2. node \in TreeNodes /\ node.n = "Func" /\ node.def = new
  BY <1>1, NodeTypes
<1>3. VarTexts(new) = VarTexts(def)
  BY <1>1 DEF VarTexts
<1>4. Signed(new) = Signed(def)
  BY <1>1, <1>3 DEF Signed
<1>. QED  BY <1>1, <1>2, <1>4 DEF new

LEMMA BodyText ==
  ASSUME IInv, TextInv, ParseBody
  PROVE  TextInv'
<1>. DEFINE g == todo[1]
            def == g.def
            p == <<")">>
            Func(body) == [n |-> "Func", def |-> [def EXCEPT !.body = body]]
<1>1. Doing("Body")
  BY DEF ParseBody
<1>2. /\ status = "running" /\ g.do = "Body" /\ Head(todo) = g
      /\ Kind(g) = "Body" /\ g \in Goals
  BY <1>1, HeadKind
<1>3. def \in FuncDefs
  BY <1>2, GoalFields
<1>4. Piece(g, <<>>) = Signed(def) \o p /\ Signed(def) \o p \in Seq(Words)
  <2>1. Piece(g, <<>>) = Signed(def) \o p
    BY <1>2 DEF Piece
  <2>2. Signed(def) \in Seq(Words)
    <3>. HIDE DEF def
    <3>. QED  BY <1>3, SignedTyped
  <2>3. p \in Seq(Words)
    <3>. DEFINE c == ")"
    <3>1. c \in Words
      BY TokenWords DEF Punctuation
    <3>. HIDE DEF c
    <3>2. <<c>> \in Seq(Words)
      BY <3>1, OneWord
    <3>. QED  BY <3>2 DEF c
  <2>. HIDE DEF p, def
  <2>4. Signed(def) \o p \in Seq(Words)
    BY <2>2, <2>3, JoinedWords
  <2>. QED  BY <2>1, <2>4
<1>5. Kind(g) \in BegunKinds \cup BottomKinds /\ g.do # "Program"
  BY <1>2 DEF BegunKinds
<1>6. ASSUME NEW body \in BOOLEAN
      PROVE  /\ Func(body) \in TreeNodes /\ Func(body).n = "Func" /\ Func(body).def \in FuncDefs
             /\ Func(body).def.body = body /\ Signed(Func(body).def) = Signed(def)
  <2>. HIDE DEF def
  <2>. QED  BY <1>3, FuncNode
<1>7. CASE lookahead = "{"
  <2>. DEFINE node == Func(TRUE)
              a == Do("Seq")
              b == Emit(Mark("EndFunc"))
              st == State(tree)
              new == After(st, node)
              rest == Tail(todo)
  <2>1. Go(<<a, b>>, <<node>>)
    BY <1>2, <1>7 DEF ParseBody
  <2>2. node \in TreeNodes /\ node.n = "Func" /\ node.def \in FuncDefs /\ node.def.body
        /\ Signed(node.def) = Signed(def)
    BY <1>6
  <2>3. /\ a \in Goals /\ Shaped(a) /\ IsBottom(a) /\ Kind(a) \in BegunKinds \cup BottomKinds
        /\ Piece(a, <<>>) = <<>> /\ b \in Goals /\ Shaped(b) /\ IsBottom(b)
    <3>1. a \in Goals /\ Shaped(a) /\ IsBottom(a) /\ b \in Goals /\ Shaped(b) /\ IsBottom(b)
      BY BottomGoals
    <3>. HIDE DEF a
    <3>. QED  BY <3>1, KindSets DEF IsBottom
  <2>4. node.n \notin OperandKinds
    BY <2>2 DEF OperandKinds
  <2>. HIDE DEF node, a, b
  <2>5. /\ st \in States /\ st.written.printed \in Seq(Words) /\ new \in States
        /\ new.levels = <<>> /\ Appending(<<node>>, new) /\ rest \in Seq(Goals)
        /\ new.written.printed = st.written.printed \o NodeText(node)
        /\ Waits(rest, new, new.written.printed, 0) /\ IsBottom(rest[1])
        /\ read = st.written.printed \o Piece(g, <<>>)
    BY <1>2, <1>5, <2>2, <2>4, NodeAfter
  <2>6. NodeText(node) = Piece(g, <<>>)
    <3>1. NodeText(node) = SourceDefinition(node.def)
      BY <2>2 DEF NodeText
    <3>2. SourceDefinition(node.def) = (Signed(node.def) \o <<")">>)
                                          \o (IF node.def.body THEN <<>> ELSE <<";">>)
      BY <2>2, DefinitionText
    <3>3. SourceDefinition(node.def) = (Signed(def) \o p) \o <<>>
      BY <2>2, <3>2
    <3>4. (Signed(def) \o p) \o <<>> = Signed(def) \o p
      BY <1>4, ConcatEmptySeq
    <3>. QED  BY <1>4, <3>1, <3>3, <3>4
  <2>7. read = new.written.printed
    BY <2>5, <2>6
  <2>. HIDE DEF st, new, rest
  <2>8. Stands(<<a, b>> \o rest, new, new.written.printed, lookahead)
    BY <2>3, <2>5, PushTwo
  <2>. QED  BY <1>2, <2>1, <2>5, <2>7, <2>8, GoText DEF rest
<1>8. CASE lookahead # "{"
  <2>. DEFINE node == Func(FALSE)
              goal == Skip(";", <<node>>)
  <2>1. Go(<<goal>>, <<>>)
    BY <1>2, <1>8 DEF ParseBody
  <2>2. node \in TreeNodes /\ node.n = "Func" /\ ~node.def.body /\ Signed(node.def) = Signed(def)
    BY <1>6
  <2>. HIDE DEF node
  <2>3. goal \in Goals /\ goal.do = "Skip" /\ goal.token = ";" /\ goal.nodes = <<node>>
        /\ Kind(goal) = "Func"
    <3>1. <<node>> \in Seq(TreeNodes) /\ ";" \in Punctuation
      BY <2>2, OneWord DEF Punctuation
    <3>2. goal \in Goals
      BY <3>1, PlainGoalTypes DEF PlainGoals
    <3>3. Kind(goal) = "Func"
      BY <2>2, KindOf
    <3>. QED  BY <3>2, <3>3 DEF Skip
  <2>. HIDE DEF goal
  <2>4. Shaped(goal)
    BY <2>2, <2>3 DEF Shaped
  <2>5. Piece(goal, <<>>) = Signed(def) \o p
    <3>1. goal.nodes[1] = node
      <4>1. <<node>>[1] = node
        OBVIOUS
      <4>. QED  BY <2>3, <4>1
    <3>2. Piece(goal, <<>>) = Signed(goal.nodes[1].def) \o <<")">>
      BY <2>3 DEF Piece
    <3>. QED  BY <2>2, <3>1, <3>2
  <2>6. Kind(goal) \in BegunKinds \cup BottomKinds
    BY <2>3 DEF BegunKinds
  <2>. HIDE DEF p, def
  <2>. QED  BY <1>2, <1>4, <1>5, <2>1, <2>3, <2>4, <2>5, <2>6, GoBegun
<1>. QED  BY <1>7, <1>8

(* The last goal.                                                          *)
LEMMA LastWaits ==
  ASSUME NEW g \in Goals, Shaped(g), IsBottom(g), NEW st \in States
  PROVE  Waits(<<g>>, st, st.written.printed, 0)
<1>. DEFINE goals == <<g>>
            P == Place(st.written.printed, 0)
            T == [i \in DOMAIN goals |-> P]
<1>1. goals \in Seq(Goals) /\ goals # <<>> /\ Len(goals) = 1 /\ DOMAIN goals = {1} /\ goals[1] = g
  OBVIOUS
<1>2. P \in Places
  BY StateFields DEF Place, Places
<1>3. P.used <= P.used
  BY DEF Place
<1>. HIDE DEF goals, P
<1>4. T \in [DOMAIN goals -> Places] /\ \A i \in DOMAIN goals : T[i] = P
  BY <1>2
<1>5. T[1] = P
  BY <1>1
<1>. HIDE DEF T
<1>6. \A i \in DOMAIN goals : goals[i] = g /\ i + 1 \notin DOMAIN goals
  BY <1>1
<1>7. Chained(goals, st, T)
  BY <1>1, <1>3, <1>4, <1>6 DEF Chained, P
<1>. QED  BY <1>5, <1>7 DEF Waits, P, goals

LEMMA NextFuncDefText ==
  ASSUME IInv, TextInv, NextFuncDef
  PROVE  TextInv'
<1>. DEFINE g == todo[1]
            st == State(tree)
            rest == Tail(todo)
            w == st.written.printed
<1>1. Doing("Program")
  BY DEF NextFuncDef
<1>2. status = "running" /\ Kind(g) = "Program" /\ lookahead \in Tokens
  BY <1>1, HeadKind
<1>3. /\ st \in States /\ todo \in Seq(Goals) /\ todo # <<>>
      /\ \E x \in Seq(Words), u \in Nat :
              Waits(todo, st, x, u) /\ HeadWaits(todo, st, x, u, read, lookahead)
  BY <1>2, HeadOfText
<1>4. IsBottom(g)
  BY <1>2 DEF IsBottom, BottomKinds
<1>5. PICK x \in Seq(Words), u \in Nat : Waits(todo, st, x, u) /\ HeadWaits(todo, st, x, u, read, lookahead)
  BY <1>3
<1>. HIDE DEF st
<1>6. x = w /\ u = 0 /\ \A new \in States : Waits(todo, new, new.written.printed, 0)
  BY <1>4, <1>5, BottomWaits
<1>7. read = w /\ Len(st.levels) = 0
  <2>1. ~Takes(todo[1]) /\ Kind(todo[1]) # "Ahead"
    BY <1>4, KindSets
  <2>. QED  BY <1>5, <1>6, <2>1 DEF HeadWaits, Due
<1>8. CASE lookahead = EOF
  <2>1. status' = "ok" /\ read' = read /\ lookahead' = lookahead /\ tree' = tree
    BY <1>8 DEF NextFuncDef
  <2>2. State(tree)' = State(tree) /\ Written(tree)' = Written(tree)
    BY <2>1
  <2>3. Written(tree) = st.written
    BY DEF st, State
  <2>. QED  BY <1>3, <1>7, <1>8, <2>1, <2>2, <2>3 DEF TextInv, st
<1>9. CASE lookahead # EOF
  <2>. DEFINE a == Do("FuncDef")
              b == Program(Len(tree))
  <2>1. Go(<<a, b>>, <<>>)
    BY <1>9 DEF NextFuncDef
  <2>2. b \in Goals /\ Shaped(b) /\ IsBottom(b)
    <3>1. Len(tree) \in Nat
      BY DEF IInv, TypeOK
    <3>. QED  BY <3>1, BottomGoals
  <2>3. a \in Goals /\ Shaped(a) /\ Kind(a) = "FuncDef"
    BY PlainGoalTypes, PlainShaped, KindOf DEF PlainGoals
  <2>. HIDE DEF a, b
  <2>4. Piece(a, <<>>) = <<>> /\ Kind(a) \in BegunKinds \cup BottomKinds
    BY <2>3 DEF Piece, BegunKinds
  <2>5. w \in Seq(Words) /\ w \o <<>> = w /\ st.levels = <<>>
    <3>1. w \in Seq(Words) /\ st.levels \in Seq(Precedences)
      BY <1>3, StateFields
    <3>2. w \o <<>> = w
      BY <3>1, ConcatEmptySeq
    <3>3. st.levels = <<>>
      BY <1>7, <3>1, EmptySeq
    <3>. QED  BY <3>1, <3>2, <3>3
  <2>6. <<a, b>> \o rest = <<a>> \o (<<b>> \o rest) /\ <<b>> \o rest \in Seq(Goals) /\ rest \in Seq(Goals)
    <3>1. rest \in Seq(Goals)
      BY <1>3, HeadTailProperties
    <3>. HIDE DEF rest
    <3>2. <<a, b>> \o rest = <<a>> \o (<<b>> \o rest)
      BY <2>2, <2>3, <3>1, GoalsJoined
    <3>3. <<b>> \o rest \in Seq(Goals)
      BY <2>2, <3>1, InFront
    <3>. QED  BY <3>1, <3>2, <3>3
  <2>7. Waits(<<b>> \o rest, st, w, 0) /\ IsBottom((<<b>> \o rest)[1])
    <3>1. CASE Len(todo) >= 2
      <4>1. PICK y \in Seq(Words), v \in Nat :
              Waits(rest, st, y, v) /\ Links(todo[1], todo[2], st, Place(x, u), Place(y, v))
        BY <1>5, <3>1, Pop
      <4>2. rest[1] = todo[2]
        BY <1>3, <3>1
      <4>3. IsBottom(rest[1])
        <5>1. Joins(todo[1], rest[1])
          BY <4>1, <4>2 DEF Links
        <5>. QED  BY <1>4, <5>1, KindSets DEF Joins
      <4>4. Waits(rest, st, w, 0)
        BY <1>3, <4>1, <4>3, BottomWaits
      <4>. HIDE DEF rest
      <4>. QED  BY <1>3, <2>2, <2>5, <2>6, <4>3, <4>4, PushBottom
    <3>2. CASE ~(Len(todo) >= 2)
      <4>1. rest = <<>>
        <5>1. Len(todo) \in Nat /\ Len(todo) # 0
          BY <1>3, EmptySeq
        <5>2. Len(rest) = 0
          <6>1. Len(rest) = Len(todo) - 1
            BY <1>3, HeadTailProperties
          <6>. DEFINE n == Len(todo)
          <6>2. n \in Nat /\ n # 0 /\ ~(n >= 2)
            BY <3>2, <5>1
          <6>. HIDE DEF rest, n
          <6>3. n = 1
            BY <6>2
          <6>4. Len(rest) = n - 1
            BY <6>1 DEF n
          <6>. QED  BY <6>3, <6>4
        <5>. QED  BY <2>6, <5>2, EmptySeq
      <4>2. <<b>> \o rest = <<b>>
        <5>1. <<b>> \in Seq(Goals)
          BY <2>2, OneWord
        <5>2. <<b>> \o <<>> = <<b>>
          BY <5>1, ConcatEmptySeq
        <5>. QED  BY <4>1, <5>2
      <4>3. <<b>>[1] = b
        OBVIOUS
      <4>. QED  BY <1>3, <2>2, <4>2, <4>3, LastWaits
    <3>. QED  BY <3>1, <3>2
  <2>. DEFINE goals == <<b>> \o rest
  <2>8. w = st.written.printed \o Piece(a, <<>>)
    BY <2>4, <2>5
  <2>. HIDE DEF goals, w
  <2>9. \A ahead : Stands(<<a>> \o goals, st, w, ahead)
    <3>1. Waits(goals, st, st.written.printed, 0) /\ IsBottom(goals[1])
      BY <2>7 DEF goals, w
    <3>. QED  BY <1>3, <2>3, <2>4, <2>5, <2>8, <3>1, PushBegun
  <2>10. Stands(<<a, b>> \o rest, st, read, lookahead)
    BY <1>7, <2>6, <2>9 DEF goals
  <2>11. Appending(<<>>, st)
    BY NoNode DEF st
  <2>. QED  BY <1>2, <2>1, <2>10, <2>11, GoText
<1>. QED  BY <1>8, <1>9

-----------------------------------------------------------------------------
(* Statements                                                              *)

LEMMA BottomHead ==
  ASSUME IInv, TextInv, NEW what \in {"Stmts", "Stmt", "Else"}, Doing(what)
  PROVE  /\ status = "running" /\ Head(todo) = todo[1] /\ todo[1] \in Goals /\ todo[1].do = what
         /\ todo[1].do # "Program" /\ Kind(todo[1]) \in BegunKinds \cup BottomKinds
         /\ Piece(todo[1], <<>>) = <<>> /\ lookahead \in Words
<1>. DEFINE g == todo[1]
<1>1. status = "running" /\ Head(todo) = g /\ g \in Goals /\ Kind(g) = what /\ g.do = what
      /\ lookahead \in Words
  BY HeadKind
<1>. HIDE DEF g
<1>2. Kind(g) \in BegunKinds \cup BottomKinds /\ Piece(g, <<>>) = <<>> /\ g.do # "Program"
  BY <1>1 DEF BottomKinds, Piece
<1>. QED  BY <1>1, <1>2 DEF g

LEMMA StmtsText ==
  ASSUME IInv, TextInv, ParseStmts
  PROVE  TextInv'
<1>1. /\ status = "running" /\ todo[1].do # "Program" /\ Kind(todo[1]) \in BegunKinds \cup BottomKinds
      /\ Piece(todo[1], <<>>) = <<>> /\ lookahead \in Words
  BY BottomHead DEF ParseStmts
<1>2. CASE lookahead = "}"
  <2>. DEFINE node == Mark("EndSeq")
              st == State(tree)
              new == After(st, node)
              rest == Tail(todo)
  <2>1. Take(<<>>, <<node>>)
    BY <1>2 DEF ParseStmts
  <2>2. node \in TreeNodes /\ node.n = "EndSeq"
    BY NodeTypes DEF Marks, Mark
  <2>. HIDE DEF node
  <2>3. node.n \notin OperandKinds /\ NodeText(node) = <<lookahead>>
    BY <1>2, <2>2 DEF OperandKinds, NodeText
  <2>4. /\ st \in States /\ st.written.printed \in Seq(Words) /\ new \in States
        /\ new.levels = <<>> /\ Appending(<<node>>, new) /\ rest \in Seq(Goals)
        /\ new.written.printed = st.written.printed \o NodeText(node)
        /\ Waits(rest, new, new.written.printed, 0) /\ IsBottom(rest[1])
        /\ read = st.written.printed \o Piece(todo[1], <<>>)
    BY <1>1, <2>2, <2>3, NodeAfter
  <2>. HIDE DEF st, new, rest
  <2>5. new.written.printed = read \o <<lookahead>>
    <3>1. read = st.written.printed
      BY <1>1, <2>4, ConcatEmptySeq
    <3>. QED  BY <2>3, <2>4, <3>1
  <2>6. \A ahead : Stands(<<>> \o rest, new, new.written.printed, ahead)
    <3>1. <<>> \o rest = rest
      BY <2>4, ConcatEmptySeq
    <3>2. \A ahead : Stands(rest, new, new.written.printed, ahead)
      BY <2>4, BottomStands
    <3>. QED  BY <3>1, <3>2
  <2>. QED  BY <1>1, <2>1, <2>4, <2>5, <2>6, TakeText DEF rest
<1>3. CASE lookahead # "}"
  <2>. DEFINE a == Do("Stmt")
              b == Do("Stmts")
  <2>1. Go(<<a, b>>, <<>>)
    BY <1>3 DEF ParseStmts
  <2>2. a \in Goals /\ Shaped(a) /\ IsBottom(a) /\ b \in Goals /\ Shaped(b) /\ IsBottom(b)
    BY BottomGoals
  <2>. HIDE DEF a, b
  <2>3. Piece(a, <<>>) = <<>> /\ Kind(a) \in BegunKinds \cup BottomKinds
    BY <2>2, KindSets DEF IsBottom
  <2>. QED  BY <1>1, <2>1, <2>2, <2>3, GoTwo
<1>. QED  BY <1>2, <1>3

-----------------------------------------------------------------------------
(* Statements with an expression                                           *)

LEMMA AssocGoals ==
  ASSUME NEW x \in Seq(Goals), NEW y \in Seq(Goals), NEW z \in Seq(Goals)
  PROVE  (x \o y) \o z = x \o (y \o z)
  BY ConcatAssociative

LEMMA JoinedGoals ==
  ASSUME NEW x \in Seq(Goals), NEW y \in Seq(Goals)
  PROVE  x \o y \in Seq(Goals)
  BY ConcatProperties

LEMMA EndGoal ==
  ASSUME NEW t \in Punctuation
  PROVE  Skip(t, <<End>>) \in Goals /\ <<Skip(t, <<End>>)>> \in Seq(Goals)
<1>1. End \in TreeNodes
  BY NodeTypes DEF End, Marks
<1>2. <<End>> \in Seq(TreeNodes)
  <2>. DEFINE e == End
  <2>. HIDE DEF e
  <2>1. e \in TreeNodes
    BY <1>1 DEF e
  <2>2. <<e>> \in Seq(TreeNodes)
    BY <2>1, OneWord
  <2>. QED  BY <2>2 DEF e
<1>3. Skip(t, <<End>>) \in Goals
  BY <1>2, PlainGoalTypes DEF PlainGoals
<1>. QED  BY <1>3, OneWord

(* The text up to the expression has been read.                            *)
LEMMA ExpAfter ==
  ASSUME IInv, TextInv, status = "running", todo[1].do # "Program",
         Kind(todo[1]) \in BegunKinds \cup BottomKinds,
         NEW node \in TreeNodes, node.n \notin OperandKinds,
         NEW t \in Punctuation, NodeClose(node, State(tree).written.close) = <<t>>,
         NEW more \in Seq(Words), NEW piece \in Seq(Words), piece = Piece(todo[1], <<>>),
         NodeText(node) = piece \o more
  PROVE  LET new == After(State(tree), node) IN
         /\ Appending(<<node>>, new)
         /\ \A ahead : Stands((Exp \o <<Skip(t, <<End>>)>>) \o Tail(todo), new, read \o more, ahead)
<1>. DEFINE st == State(tree)
            new == After(st, node)
            rest == Tail(todo)
            last == Skip(t, <<End>>)
            all == <<last>> \o rest
<1>1. /\ st \in States /\ st.written.printed \in Seq(Words) /\ new \in States
      /\ new.levels = <<>> /\ Appending(<<node>>, new) /\ rest \in Seq(Goals)
      /\ new.written.printed = st.written.printed \o NodeText(node)
      /\ new.written.printed \in Seq(Words)
      /\ new.written.close = NodeClose(node, st.written.close)
      /\ Waits(rest, new, new.written.printed, 0) /\ IsBottom(rest[1])
      /\ read = st.written.printed \o Piece(todo[1], <<>>)
  BY NodeAfter
<1>. HIDE DEF st, new, rest
<1>2. new.written.printed = read \o more
  <2>. DEFINE w == st.written.printed
  <2>1. w \in Seq(Words) /\ read = w \o piece /\ new.written.printed = w \o (piece \o more)
    BY <1>1
  <2>. HIDE DEF w
  <2>2. (w \o piece) \o more = w \o (piece \o more)
    BY <2>1, Assoc
  <2>. QED  BY <2>1, <2>2
<1>3. new.written.close = <<t>>
  BY <1>1 DEF st
<1>4. \A ahead : Stands(Exp \o all, new, new.written.printed, ahead)
  BY <1>1, <1>3, PushLast
<1>5. (Exp \o <<last>>) \o rest = Exp \o all
  <2>1. Exp \in Seq(Goals) /\ <<last>> \in Seq(Goals)
    BY GoalsOfExp, EndGoal
  <2>. HIDE DEF last
  <2>. QED  BY <1>1, <2>1, AssocGoals
<1>. HIDE DEF last, all
<1>6. \A ahead : Stands((Exp \o <<last>>) \o rest, new, read \o more, ahead)
  BY <1>2, <1>4, <1>5
<1>. QED  BY <1>1, <1>6 DEF rest, last, new, st

(* The condition of a statement that goes on with two goals.               *)
LEMMA ConditionAfter ==
  ASSUME IInv, TextInv, status = "running", todo[1].do # "Program",
         Kind(todo[1]) \in BegunKinds \cup BottomKinds,
         NEW node \in TreeNodes, node.n \notin OperandKinds,
         NodeClose(node, State(tree).written.close) = <<")">>,
         NEW more \in Seq(Words), NEW piece \in Seq(Words), piece = Piece(todo[1], <<>>),
         NodeText(node) = (piece \o more) \o <<"(">>,
         NEW a \in Goals, Shaped(a), IsBottom(a), NEW b \in Goals, Shaped(b), IsBottom(b)
  PROVE  LET new == After(State(tree), node) IN
         /\ Appending(<<node>>, new)
         /\ \A ahead : Stands((Condition \o <<a, b>>) \o Tail(todo), new, read \o more, ahead)
<1>. DEFINE st == State(tree)
            new == After(st, node)
            rest == Tail(todo)
            last == Skip(")", <<End>>)
            first == Skip("(", <<>>)
            two == <<a, b>> \o rest
            all == <<last>> \o two
            x == new.written.printed
            open == <<"(">>
<1>1. /\ st \in States /\ st.written.printed \in Seq(Words) /\ new \in States
      /\ new.levels = <<>> /\ Appending(<<node>>, new) /\ rest \in Seq(Goals)
      /\ x = st.written.printed \o NodeText(node) /\ x \in Seq(Words)
      /\ new.written.close = NodeClose(node, st.written.close)
      /\ Waits(rest, new, x, 0) /\ IsBottom(rest[1])
      /\ read = st.written.printed \o Piece(todo[1], <<>>)
  BY NodeAfter
<1>2. open \in Seq(Words) /\ "(" \in Punctuation /\ ")" \in Punctuation
  <2>. DEFINE c == "("
  <2>1. c \in Punctuation /\ c \in Words
    BY TokenWords DEF Punctuation
  <2>. HIDE DEF c
  <2>2. <<c>> \in Seq(Words)
    BY <2>1, OneWord
  <2>3. ")" \in Punctuation
    BY DEF Punctuation
  <2>. QED  BY <2>1, <2>2, <2>3 DEF c
<1>. HIDE DEF st, new, rest
<1>3. x = (read \o more) \o open
  <2>. DEFINE w == st.written.printed
              wp == w \o piece
              pm == piece \o more
  <2>1. w \in Seq(Words) /\ read = wp /\ x = w \o (pm \o open)
    BY <1>1
  <2>. HIDE DEF w, x, open
  <2>2. wp \o more = w \o pm /\ pm \in Seq(Words)
    BY <2>1, Assoc
  <2>. HIDE DEF pm, wp
  <2>3. (w \o pm) \o open = w \o (pm \o open)
    <3>1. open \in Seq(Words) /\ w \in Seq(Words) /\ pm \in Seq(Words)
      BY <1>2, <2>1, <2>2 DEF open
    <3>. QED  BY <3>1, Bracket, SMTT(10)
  <2>. QED  BY <2>1, <2>2, <2>3
<1>4. Waits(two, new, x, 0) /\ IsBottom(two[1]) /\ two \in Seq(Goals)
  <2>. DEFINE one == <<b>> \o rest
  <2>1. Waits(one, new, x, 0) /\ IsBottom(one[1]) /\ one \in Seq(Goals)
    BY <1>1, PushBottom
  <2>. HIDE DEF one
  <2>2. Waits(<<a>> \o one, new, x, 0) /\ IsBottom((<<a>> \o one)[1]) /\ <<a>> \o one \in Seq(Goals)
    BY <1>1, <2>1, PushBottom
  <2>3. two = <<a>> \o one
    <3>1. a \in Goals /\ b \in Goals /\ rest \in Seq(Goals)
      BY <1>1
    <3>. QED  BY <3>1, GoalsJoined DEF one
  <2>. QED  BY <2>2, <2>3
<1>5. new.written.close = <<")">>
  BY <1>1 DEF st
<1>. HIDE DEF two
<1>6. \A ahead : Stands(<<first>> \o (Exp \o all), new, read \o more, ahead)
  <2>. DEFINE c == ")"
              o == "("
  <2>1. c \in Punctuation /\ new.written.close = <<c>> /\ o \in Punctuation /\ x = (read \o more) \o <<o>>
    BY <1>2, <1>3, <1>5
  <2>. HIDE DEF c, o
  <2>2. \A ahead : Stands(<<Skip(o, <<>>)>> \o (Exp \o (<<Skip(c, <<End>>)>> \o two)), new, read \o more, ahead)
    BY <1>1, <1>4, <2>1, PushLast
  <2>. QED  BY <2>2 DEF c, o
<1>7. (Condition \o <<a, b>>) \o rest = <<first>> \o (Exp \o all)
  <2>. DEFINE f == <<first>>
              l == <<last>>
              ab == <<a, b>>
              fe == f \o Exp
              cond == fe \o l
  <2>1. f \in Seq(Goals) /\ l \in Seq(Goals) /\ Exp \in Seq(Goals) /\ ab \in Seq(Goals)
    <3>1. first \in Goals
      BY <1>2, SkipGoal
    <3>2. l \in Seq(Goals)
      BY <1>2, EndGoal
    <3>3. f \in Seq(Goals)
      <4>. HIDE DEF first
      <4>. QED  BY <3>1, OneWord
    <3>4. ab \in Seq(Goals)
      BY TwoWords
    <3>. QED  BY <3>2, <3>3, <3>4, GoalsOfExp
  <2>2. Condition = cond
    BY DEF Condition
  <2>3. all = l \o two /\ two = ab \o rest
    BY DEF two
  <2>. HIDE DEF f, l, ab, all
  <2>4. fe \in Seq(Goals)
    BY <2>1, JoinedGoals
  <2>5. fe \o all = f \o (Exp \o all) /\ all \in Seq(Goals)
    <3>1. all \in Seq(Goals)
      BY <1>4, <2>1, <2>3, JoinedGoals
    <3>2. fe \o all = f \o (Exp \o all)
      BY <2>1, <3>1, AssocGoals
    <3>. QED  BY <3>1, <3>2
  <2>. HIDE DEF fe
  <2>6. cond \in Seq(Goals) /\ cond \o two = fe \o all
    <3>1. cond \in Seq(Goals)
      BY <2>1, <2>4, JoinedGoals
    <3>2. cond \o two = fe \o (l \o two)
      BY <1>4, <2>1, <2>4, AssocGoals
    <3>. QED  BY <2>3, <3>1, <3>2
  <2>. HIDE DEF cond
  <2>7. (cond \o ab) \o rest = cond \o two
    <3>1. (cond \o ab) \o rest = cond \o (ab \o rest)
      BY <1>1, <2>1, <2>6, AssocGoals
    <3>. QED  BY <2>3, <3>1
  <2>. QED  BY <2>2, <2>5, <2>6, <2>7 DEF f, ab
<1>. HIDE DEF x, all, first
<1>8. \A ahead : Stands((Condition \o <<a, b>>) \o rest, new, read \o more, ahead)
  BY <1>6, <1>7
<1>. QED  BY <1>1, <1>8 DEF rest, new, st

LEMMA PunctuationText ==
  \A t \in Punctuation : <<t>> \in Seq(Words)
<1>. TAKE t \in Punctuation
<1>1. t \in Words
  BY TokenWords
<1>. QED  BY <1>1, OneWord

LEMMA StmtText ==
  ASSUME IInv, TextInv, ParseStmt
  PROVE  TextInv'
<1>. DEFINE g == todo[1]
            piece == Piece(g, <<>>)
            more == <<lookahead>>
            close == State(tree).written.close
<1>1. /\ status = "running" /\ g.do # "Program" /\ Kind(g) \in BegunKinds \cup BottomKinds
      /\ piece = <<>> /\ lookahead \in Words
  BY BottomHead DEF ParseStmt
<1>2. more \in Seq(Words) /\ piece \in Seq(Words) /\ piece \o more = more /\ piece \o <<>> = piece
  <2>1. more \in Seq(Words) /\ <<>> \in Seq(Words)
    BY <1>1, OneWord
  <2>. HIDE DEF more, piece
  <2>. QED  BY <1>1, <2>1, ConcatEmptySeq
<1>. HIDE DEF g
<1>3. CASE lookahead \in Ids
  <2>. DEFINE goal == AssignOrCall(lookahead)
  <2>1. Take(<<goal>>, <<>>)
    BY <1>3, TokensAssumption DEF ParseStmt, Keywords, Types, Punctuation
  <2>2. goal \in Goals /\ Shaped(goal) /\ Kind(goal) = "AssignOrCall" /\ goal.name = lookahead
    BY <1>3, PlainGoalTypes, PlainShaped, KindOf DEF PlainGoals, AssignOrCall
  <2>. HIDE DEF goal
  <2>3. Piece(goal, <<>>) = piece \o more /\ Kind(goal) \in BegunKinds \cup BottomKinds
    BY <1>2, <2>2 DEF Piece, BegunKinds
  <2>. HIDE DEF piece
  <2>. QED  BY <1>1, <1>2, <2>1, <2>2, <2>3, TakeBegun DEF g, piece
<1>4. CASE lookahead \in Types
  <2>. DEFINE goal == VarDecl(Null)
  <2>1. Go(<<goal>>, <<>>)
    BY <1>4, TokensAssumption DEF ParseStmt, Keywords, Types, Punctuation
  <2>2. goal \in Goals /\ Shaped(goal) /\ Kind(goal) = "VarDecl" /\ goal.of = Null
    BY PlainGoalTypes, PlainShaped, KindOf DEF PlainGoals, VarDecl, Owners
  <2>. HIDE DEF goal
  <2>3. Piece(goal, <<>>) = piece /\ Kind(goal) \in BegunKinds \cup BottomKinds
    BY <1>1, <2>2 DEF Piece, BegunKinds, NextVar
  <2>. HIDE DEF piece
  <2>. QED  BY <1>1, <1>2, <2>1, <2>2, <2>3, GoBegun DEF g, piece
<1>5. CASE lookahead = "{"
  <2>. DEFINE goal == Do("Seq")
  <2>1. Go(<<goal>>, <<>>)
    BY <1>5, TokensAssumption DEF ParseStmt, Keywords, Types, Punctuation
  <2>2. goal \in Goals /\ Shaped(goal) /\ IsBottom(goal)
    BY BottomGoals
  <2>. HIDE DEF goal
  <2>3. Piece(goal, <<>>) = piece /\ Kind(goal) \in BegunKinds \cup BottomKinds
    BY <1>1, <2>2, KindSets DEF IsBottom
  <2>. HIDE DEF piece
  <2>. QED  BY <1>1, <1>2, <2>1, <2>2, <2>3, GoBegun DEF g, piece
<1>6. CASE lookahead = "return"
  <2>. DEFINE node == Mark("Return")
              t == ";"
              goals == Exp \o <<Skip(t, <<End>>)>>
  <2>1. Take(goals, <<node>>)
    BY <1>6, TokensAssumption DEF ParseStmt, Keywords, Types, Punctuation
  <2>2. node \in TreeNodes /\ node.n = "Return"
    BY NodeTypes DEF Marks, Mark
  <2>. HIDE DEF node
  <2>3. node.n \notin OperandKinds /\ NodeText(node) = more /\ NodeClose(node, close) = <<t>>
    BY <1>6, <2>2 DEF OperandKinds, NodeText, NodeClose
  <2>4. t \in Punctuation
    BY DEF Punctuation
  <2>. DEFINE new == After(State(tree), node)
  <2>. HIDE DEF t, piece, more
  <2>5. /\ Appending(<<node>>, new)
        /\ \A ahead : Stands(goals \o Tail(todo), new, read \o more, ahead)
    BY <1>1, <1>2, <2>2, <2>3, <2>4, ExpAfter DEF g, piece
  <2>. HIDE DEF new, goals
  <2>. QED  BY <1>1, <2>1, <2>5, TakeText DEF more
<1>. DEFINE open == <<"(">>
            Two(word, node) ==
              NodeText(node) = <<word, "(">> /\ NodeClose(node, close) = <<")">>
<1>7. ASSUME NEW node \in TreeNodes, node.n \in {"If", "While"}, Two(lookahead, node),
             NEW a \in Goals, Shaped(a), IsBottom(a), NEW b \in Goals, Shaped(b), IsBottom(b),
             Take(Condition \o <<a, b>>, <<node>>)
      PROVE  TextInv'
  <2>. DEFINE new == After(State(tree), node)
              goals == Condition \o <<a, b>>
  <2>1. <<lookahead, "(">> = more \o open
    <3>1. "(" \in Words
      BY TokenWords DEF Punctuation
    <3>. QED  BY <1>1, <3>1, PairJoined
  <2>2. NodeText(node) = (piece \o more) \o open
    BY <1>2, <1>7, <2>1
  <2>3. node.n \notin OperandKinds
    BY <1>7 DEF OperandKinds
  <2>. HIDE DEF piece, more
  <2>4. /\ Appending(<<node>>, new)
        /\ \A ahead : Stands(goals \o Tail(todo), new, read \o more, ahead)
    BY <1>1, <1>2, <1>7, <2>2, <2>3, ConditionAfter DEF g, piece
  <2>. HIDE DEF new
  <2>. QED  BY <1>1, <1>7, <2>4, TakeText DEF more
<1>8. CASE lookahead = "if"
  <2>. DEFINE node == [n |-> "If", else |-> FALSE]
              a == Do("Stmt")
              b == Else(Len(tree) + 1)
  <2>1. Take(Condition \o <<a, b>>, <<node>>)
    BY <1>8, TokensAssumption DEF ParseStmt, Keywords, Types, Punctuation
  <2>2. node \in TreeNodes /\ node.n = "If"
    BY NodeTypes
  <2>3. a \in Goals /\ Shaped(a) /\ IsBottom(a) /\ b \in Goals /\ Shaped(b) /\ IsBottom(b)
    <3>1. Len(tree) + 1 \in Nat
      BY DEF IInv, TypeOK
    <3>. QED  BY <3>1, BottomGoals
  <2>. HIDE DEF node, a, b
  <2>4. Two(lookahead, node)
    BY <1>8, <2>2 DEF NodeText, NodeClose
  <2>. QED  BY <1>7, <2>1, <2>2, <2>3, <2>4
<1>9. CASE lookahead = "while"
  <2>. DEFINE node == Mark("While")
              a == Do("Stmt")
              b == Emit(Mark("EndWhile"))
  <2>1. Take(Condition \o <<a, b>>, <<node>>)
    BY <1>9, TokensAssumption DEF ParseStmt, Keywords, Types, Punctuation
  <2>2. node \in TreeNodes /\ node.n = "While"
    BY NodeTypes DEF Marks, Mark
  <2>3. a \in Goals /\ Shaped(a) /\ IsBottom(a) /\ b \in Goals /\ Shaped(b) /\ IsBottom(b)
    BY BottomGoals
  <2>. HIDE DEF node, a, b
  <2>4. Two(lookahead, node)
    BY <1>9, <2>2 DEF NodeText, NodeClose
  <2>. QED  BY <1>7, <2>1, <2>2, <2>3, <2>4
<1>10. CASE lookahead \notin Ids \cup Types \cup {"{", "return", "if", "while"}
  <2>1. status' = "error"
    BY <1>10 DEF ParseStmt, ParseError
  <2>. QED  BY <2>1, ErrorText
<1>. QED  BY <1>3, <1>4, <1>5, <1>6, <1>8, <1>9, <1>10

LEMMA LocalText ==
  ASSUME IInv, TextInv, ParseLocal
  PROVE  TextInv'
<1>. DEFINE g == todo[1]
            more == <<lookahead>>
            close == State(tree).written.close
            Decl(init) == [n |-> "Decl", name |-> g.name, type |-> g.type, init |-> init]
            piece == <<g.type, g.name>>
<1>1. Doing("Local")
  BY DEF ParseLocal
<1>2. /\ status = "running" /\ g.do = "Local" /\ Head(todo) = g
      /\ Kind(g) = "Local" /\ lookahead \in Words /\ g \in Goals
  BY <1>1, HeadKind
<1>3. g.name \in VarNames /\ g.type \in Types
  BY <1>2, GoalFields
<1>4. Piece(g, <<>>) = piece /\ Kind(g) \in BegunKinds \cup BottomKinds /\ g.do # "Program"
  BY <1>2 DEF Piece, BegunKinds
<1>5. piece \in Seq(Words) /\ more \in Seq(Words)
  BY <1>2, <1>3, TokenWords, TwoWords, OneWord
<1>6. ASSUME NEW init \in BOOLEAN
      PROVE  /\ Decl(init) \in TreeNodes /\ Decl(init).n = "Decl" /\ Decl(init).init = init
             /\ VarText(Decl(init)) = piece
  <2>1. Decl(init) \in TreeNodes
    BY <1>3, NodeTypes
  <2>. QED  BY <2>1 DEF VarText
<1>7. CASE lookahead = "="
  <2>. DEFINE node == Decl(TRUE)
              t == ";"
              goals == Exp \o <<Skip(t, <<End>>)>>
  <2>1. Take(goals, <<node>>)
    BY <1>2, <1>7 DEF ParseLocal
  <2>2. node \in TreeNodes /\ node.n = "Decl" /\ node.init /\ VarText(node) = piece
    BY <1>6
  <2>. HIDE DEF node, piece
  <2>3. node.n \notin OperandKinds /\ NodeText(node) = piece \o more /\ NodeClose(node, close) = <<t>>
    BY <1>7, <2>2 DEF OperandKinds, NodeText, NodeClose
  <2>4. t \in Punctuation
    BY DEF Punctuation
  <2>. DEFINE new == After(State(tree), node)
  <2>. HIDE DEF t, more
  <2>5. /\ Appending(<<node>>, new)
        /\ \A ahead : Stands(goals \o Tail(todo), new, read \o more, ahead)
    BY <1>2, <1>4, <1>5, <2>2, <2>3, <2>4, ExpAfter
  <2>. HIDE DEF new, goals
  <2>. QED  BY <1>2, <2>1, <2>5, TakeText DEF more
<1>8. CASE lookahead # "="
  <2>. DEFINE node == Decl(FALSE)
              t == ";"
              tt == <<t>>
              goal == Skip(t, <<>>)
              st == State(tree)
              new == After(st, node)
              rest == Tail(todo)
  <2>1. Go(<<goal>>, <<node>>)
    BY <1>2, <1>8 DEF ParseLocal
  <2>2. node \in TreeNodes /\ node.n = "Decl" /\ ~node.init /\ VarText(node) = piece
    BY <1>6
  <2>. HIDE DEF node, piece
  <2>3. node.n \notin OperandKinds /\ NodeText(node) = piece \o tt
    BY <2>2 DEF OperandKinds, NodeText
  <2>4. t \in Punctuation
    BY DEF Punctuation
  <2>5. /\ st \in States /\ st.written.printed \in Seq(Words) /\ new \in States
        /\ new.levels = <<>> /\ Appending(<<node>>, new)
        /\ new.written.printed = st.written.printed \o NodeText(node)
        /\ new.written.printed \in Seq(Words)
        /\ Waits(rest, new, new.written.printed, 0) /\ IsBottom(rest[1])
        /\ read = st.written.printed \o Piece(g, <<>>)
    BY <1>2, <1>4, <2>2, <2>3, NodeAfter
  <2>. HIDE DEF t
  <2>6. tt \in Seq(Words)
    BY <2>4, PunctuationText
  <2>. DEFINE w == st.written.printed
              x == new.written.printed
  <2>7. w \in Seq(Words) /\ x = w \o (piece \o tt) /\ read = w \o piece /\ x \in Seq(Words)
    BY <1>4, <2>3, <2>5
  <2>8. x = read \o tt
    <3>. HIDE DEF w, x, tt
    <3>1. (w \o piece) \o tt = w \o (piece \o tt)
      BY <1>5, <2>6, <2>7, Assoc
    <3>. QED  BY <2>7, <3>1
  <2>. HIDE DEF st, new, rest
  <2>9. Stands(<<goal>> \o rest, new, read, lookahead)
    <3>1. Len(new.levels) = 0 /\ ~Takes(rest[1]) /\ Kind(rest[1]) # "Ahead"
      BY <2>5, KindSets
    <3>2. x \in Seq(Words) /\ Waits(rest, new, x, 0) /\ x = read \o <<t>>
      BY <2>5, <2>7, <2>8
    <3>. HIDE DEF x
    <3>. QED  BY <2>4, <2>5, <3>1, <3>2, StandsAhead
  <2>. HIDE DEF goal
  <2>. QED  BY <1>2, <2>1, <2>5, <2>9, GoText DEF rest
<1>. QED  BY <1>7, <1>8

LEMMA AssignOrCallText ==
  ASSUME IInv, TextInv, ParseAssignOrCall
  PROVE  TextInv'
<1>. DEFINE g == todo[1]
            more == <<lookahead>>
            close == State(tree).written.close
            name == g.name
            piece == <<name>>
<1>1. Doing("AssignOrCall")
  BY DEF ParseAssignOrCall
<1>2. /\ status = "running" /\ g.do = "AssignOrCall" /\ Head(todo) = g
      /\ Kind(g) = "AssignOrCall" /\ lookahead \in Words /\ g \in Goals
  BY <1>1, HeadKind
<1>3. name \in Ids /\ name \in VarNames /\ name \in Words /\ name \in Tokens
  <2>1. name \in Ids
    BY <1>2, GoalFields
  <2>2. name \in VarNames /\ name \in Tokens
    BY <2>1, TokensAssumption DEF Tokens
  <2>. QED  BY <2>1, <2>2, TokenWords
<1>4. Piece(g, <<>>) = piece /\ Kind(g) \in BegunKinds \cup BottomKinds /\ g.do # "Program"
  BY <1>2 DEF Piece, BegunKinds
<1>. HIDE DEF name
<1>5. piece \in Seq(Words) /\ more \in Seq(Words)
  BY <1>2, <1>3, OneWord
<1>6. CASE lookahead = "="
  <2>. DEFINE node == [n |-> "Assign", name |-> name]
              t == ";"
              goals == Exp \o <<Skip(t, <<End>>)>>
  <2>1. Take(goals, <<node>>)
    BY <1>2, <1>6 DEF ParseAssignOrCall, name
  <2>2. node \in TreeNodes /\ node.n = "Assign" /\ node.name = name
    BY <1>3, NodeTypes
  <2>. HIDE DEF node
  <2>3. node.n \notin OperandKinds /\ NodeText(node) = <<name, lookahead>> /\ NodeClose(node, close) = <<t>>
    BY <1>6, <2>2 DEF OperandKinds, NodeText, NodeClose
  <2>4. NodeText(node) = piece \o more
    BY <1>2, <1>3, <2>3, PairJoined
  <2>5. t \in Punctuation
    BY DEF Punctuation
  <2>. DEFINE new == After(State(tree), node)
  <2>. HIDE DEF t, more, piece
  <2>6. /\ Appending(<<node>>, new)
        /\ \A ahead : Stands(goals \o Tail(todo), new, read \o more, ahead)
    BY <1>2, <1>4, <1>5, <2>2, <2>3, <2>4, <2>5, ExpAfter
  <2>. HIDE DEF new, goals
  <2>. QED  BY <1>2, <2>1, <2>6, TakeText DEF more
<1>7. CASE lookahead # "="
  <2>. DEFINE node == Mark("CallStmt")
              t == ";"
              call == Args(name)
              last == Skip(t, <<End>>)
              st == State(tree)
              new == After(st, node)
              rest == Tail(todo)
  <2>1. Go(<<call, last>>, <<node>>)
    BY <1>2, <1>7 DEF ParseAssignOrCall, name
  <2>2. node \in TreeNodes /\ node.n = "CallStmt"
    BY NodeTypes DEF Marks, Mark
  <2>. HIDE DEF node
  <2>3. node.n \notin OperandKinds /\ NodeText(node) = <<>> /\ NodeClose(node, close) = <<t>>
    BY <2>2 DEF OperandKinds, NodeText, NodeClose
  <2>4. t \in Punctuation
    BY DEF Punctuation
  <2>5. /\ st \in States /\ st.written.printed \in Seq(Words) /\ new \in States
        /\ new.levels = <<>> /\ Appending(<<node>>, new) /\ rest \in Seq(Goals)
        /\ new.written.printed = st.written.printed \o NodeText(node)
        /\ new.written.printed \in Seq(Words)
        /\ new.written.close = NodeClose(node, st.written.close)
        /\ Waits(rest, new, new.written.printed, 0) /\ IsBottom(rest[1])
        /\ read = st.written.printed \o Piece(g, <<>>)
    BY <1>2, <1>4, <2>2, <2>3, NodeAfter
  <2>6. new.written.close = <<t>>
    BY <2>3, <2>5
  <2>. HIDE DEF t, st, new, rest
  <2>. DEFINE x == new.written.printed
              all == <<last>> \o rest
  <2>7. x \in Seq(Words) /\ read = x \o piece
    <3>1. new.written.printed = st.written.printed
      BY <2>3, <2>5, ConcatEmptySeq
    <3>. QED  BY <1>4, <2>5, <3>1
  <2>8. /\ last \in Goals /\ Kind(last) = "EndExp" /\ all \in Seq(Goals) /\ all[1] = last
        /\ Waits(all, new, x, 0)
    BY <2>4, <2>5, <2>6, PushLast
  <2>9. call \in Goals /\ Shaped(call) /\ Kind(call) = "Args" /\ call.name = name
    BY <1>3, PlainGoalTypes, PlainShaped, KindOf DEF PlainGoals, Args
  <2>. HIDE DEF call, last, all, x
  <2>10. Piece(call, <<>>) = piece
    BY <2>9 DEF Piece
  <2>11. Takes(all[1]) /\ Kind(all[1]) # "infix" /\ Len(new.levels) = 0
    BY <2>5, <2>8 DEF Takes, TakingKinds
  <2>12. read \in Seq(Words)
    BY <1>5, <2>7, JoinedWords
  <2>13. Stands(<<call>> \o all, new, read, lookahead)
    BY <2>5, <2>7, <2>8, <2>9, <2>10, <2>11, <2>12, PushPrimary
  <2>14. <<call, last>> \o rest = <<call>> \o all
    <3>1. call \in Goals /\ last \in Goals /\ rest \in Seq(Goals)
      BY <2>5, <2>8, <2>9
    <3>. QED  BY <3>1, GoalsJoined DEF all
  <2>. QED  BY <1>2, <2>1, <2>5, <2>13, <2>14, GoText DEF rest
<1>. QED  BY <1>6, <1>7

LEMMA ElseText ==
  ASSUME IInv, TextInv, ParseElse
  PROVE  TextInv'
<1>. DEFINE g == todo[1]
            st == State(tree)
            rest == Tail(todo)
            more == <<lookahead>>
<1>1. /\ status = "running" /\ Head(todo) = g /\ g \in Goals /\ g.do = "Else"
      /\ g.do # "Program" /\ Kind(g) \in BegunKinds \cup BottomKinds
      /\ Piece(g, <<>>) = <<>> /\ lookahead \in Words
  BY BottomHead DEF ParseElse
<1>2. ASSUME NEW node \in TreeNodes, node.n \in {"Else", "EndIf"}
      PROVE  LET new == After(st, node) IN
             /\ new \in States /\ new.levels = <<>> /\ Appending(<<node>>, new) /\ rest \in Seq(Goals)
             /\ new.written.printed = read \o NodeText(node)
             /\ Waits(rest, new, new.written.printed, 0) /\ IsBottom(rest[1])
             /\ read \in Seq(Words)
  <2>. DEFINE new == After(st, node)
  <2>1. node.n \notin OperandKinds
    BY <1>2 DEF OperandKinds
  <2>2. /\ st.written.printed \in Seq(Words) /\ new \in States
        /\ new.levels = <<>> /\ Appending(<<node>>, new) /\ rest \in Seq(Goals)
        /\ new.written.printed = st.written.printed \o NodeText(node)
        /\ Waits(rest, new, new.written.printed, 0) /\ IsBottom(rest[1])
        /\ read = st.written.printed \o Piece(g, <<>>)
    BY <1>1, <2>1, NodeAfter
  <2>. HIDE DEF st, new, rest
  <2>3. read = st.written.printed
    BY <1>1, <2>2, ConcatEmptySeq
  <2>. QED  BY <2>2, <2>3 DEF new
<1>3. CASE lookahead = "else"
  <2>. DEFINE node == Mark("Else")
              k == g.if
              changed == [tree EXCEPT ![k].else = TRUE]
              a == Do("Stmt")
              b == Emit(Mark("EndIf"))
              new == After(st, node)
  <2>1. /\ read' = Append(read, lookahead) /\ lookahead' \in Tokens /\ todo' = <<a, b>> \o rest
        /\ tree' = Append(changed, node) /\ status' = status
    BY <1>1, <1>3 DEF ParseElse
  <2>2. node \in TreeNodes /\ node.n = "Else"
    BY NodeTypes DEF Marks, Mark
  <2>3. k \in DOMAIN tree /\ tree[k].n = "If" /\ tree \in Seq(TreeNodes)
    <3>1. todo \in Seq(Goals) /\ todo # <<>> /\ tree \in Seq(TreeNodes)
      BY <1>1, HeadOfText
    <3>2. 1 \in DOMAIN todo
      BY <3>1
    <3>. QED  BY <1>1, <3>1, <3>2 DEF IInv, ElsesHaveIf, HasIf
  <2>4. changed \in Seq(TreeNodes) /\ State(changed) = State(tree)
    BY <2>3, StateElse
  <2>. HIDE DEF node, changed
  <2>5. State(changed \o <<node>>) = After(State(changed), node)
    BY <2>2, <2>4, StateNext
  <2>6. Append(changed, node) = changed \o <<node>>
    BY <2>2, <2>4, AppendIsConcat
  <2>7. State(tree)' = new
    <3>1. State(tree') = new
      BY <2>1, <2>4, <2>5, <2>6
    <3>. QED  BY <3>1 DEF State
  <2>8. /\ new \in States /\ new.levels = <<>> /\ rest \in Seq(Goals)
        /\ new.written.printed = read \o NodeText(node)
        /\ Waits(rest, new, new.written.printed, 0) /\ IsBottom(rest[1]) /\ read \in Seq(Words)
    BY <1>2, <2>2
  <2>9. NodeText(node) = more
    BY <1>3, <2>2 DEF NodeText
  <2>10. read' = new.written.printed
    <3>1. Append(read, lookahead) = read \o more
      BY <1>1, <2>8, AppendIsConcat
    <3>. QED  BY <2>1, <2>8, <2>9, <3>1
  <2>11. a \in Goals /\ Shaped(a) /\ IsBottom(a) /\ b \in Goals /\ Shaped(b) /\ IsBottom(b)
    BY BottomGoals
  <2>. HIDE DEF a, b, new, rest
  <2>12. Piece(a, <<>>) = <<>> /\ Kind(a) \in BegunKinds \cup BottomKinds
    BY <2>11, KindSets DEF IsBottom
  <2>13. \A ahead : Stands(<<a, b>> \o rest, new, new.written.printed, ahead)
    BY <2>8, <2>11, <2>12, PushTwo
  <2>14. Stands(todo, State(tree), read, lookahead)'
    BY <2>1, <2>7, <2>10, <2>13
  <2>. QED  BY <1>1, <2>1, <2>14 DEF TextInv
<1>4. CASE lookahead # "else"
  <2>. DEFINE node == Mark("EndIf")
              new == After(st, node)
  <2>1. Go(<<>>, <<node>>)
    BY <1>4 DEF ParseElse
  <2>2. node \in TreeNodes /\ node.n = "EndIf"
    BY NodeTypes DEF Marks, Mark
  <2>. HIDE DEF node
  <2>3. /\ new \in States /\ new.levels = <<>> /\ Appending(<<node>>, new) /\ rest \in Seq(Goals)
        /\ new.written.printed = read \o NodeText(node)
        /\ Waits(rest, new, new.written.printed, 0) /\ IsBottom(rest[1]) /\ read \in Seq(Words)
    BY <1>2, <2>2
  <2>4. NodeText(node) = <<>>
    BY <2>2 DEF NodeText
  <2>. HIDE DEF new, rest
  <2>5. new.written.printed = read
    BY <2>3, <2>4, ConcatEmptySeq
  <2>6. <<>> \o rest = rest
    BY <2>3, ConcatEmptySeq
  <2>7. \A ahead : Stands(rest, new, new.written.printed, ahead)
    BY <2>3, BottomStands
  <2>8. Stands(<<>> \o rest, new, read, lookahead)
    BY <2>5, <2>6, <2>7
  <2>. QED  BY <1>1, <2>1, <2>3, <2>8, GoText DEF rest
<1>. QED  BY <1>3, <1>4

-----------------------------------------------------------------------------
(* Primary expressions                                                     *)

(* What has been read for a primary expression goes over to the goal that  *)
(* takes its place.                                                        *)
LEMMA PrimaryAfter ==
  ASSUME IInv, TextInv, status = "running", todo[1].do # "Program",
         Kind(todo[1]) \in {"Primary", "UnaryOp", "VarOrCall", "Args", "FirstArg"},
         NEW goal \in Goals, Shaped(goal),
         Kind(goal) \in {"Primary", "UnaryOp", "VarOrCall", "Args", "FirstArg"},
         NEW more \in Seq(Words), NEW piece \in Seq(Words), piece = Piece(todo[1], <<>>)
  PROVE  /\ Piece(goal, <<>>) = piece \o more =>
              \A ahead : Stands(<<goal>> \o Tail(todo), State(tree), read \o more, ahead)
         /\ \A t \in Punctuation : Piece(goal, <<>>) = (piece \o more) \o <<t>> =>
              \A ahead : Stands(<<Skip(t, <<>>), goal>> \o Tail(todo), State(tree), read \o more, ahead)
<1>. DEFINE st == State(tree)
            rest == Tail(todo)
            g == todo[1]
<1>1. /\ st \in States /\ rest \in Seq(Goals)
      /\ \E y \in Seq(Words), v \in Nat :
           Waits(rest, st, y, v) /\ Len(st.levels) = v /\ read = y \o Piece(g, <<>>)
      /\ Joins(g, rest[1]) /\ Kind(g) \in PrimaryKinds
  BY PrimaryHead
<1>2. PICK y \in Seq(Words), v \in Nat :
        Waits(rest, st, y, v) /\ Len(st.levels) = v /\ read = y \o Piece(g, <<>>)
  BY <1>1
<1>. HIDE DEF st, rest, g
<1>3. Takes(rest[1]) /\ Kind(rest[1]) # "infix"
  BY <1>1, PrimaryJoins
<1>4. read = y \o piece /\ (y \o piece) \o more = y \o (piece \o more) /\ piece \o more \in Seq(Words)
      /\ read \o more \in Seq(Words)
  BY <1>2, Assoc DEF g
<1>. DEFINE pm == piece \o more
            text == read \o more
<1>5. text = y \o pm /\ pm \in Seq(Words) /\ text \in Seq(Words)
  BY <1>4
<1>. HIDE DEF pm, text
<1>6. ASSUME Piece(goal, <<>>) = pm PROVE \A ahead : Stands(<<goal>> \o rest, st, text, ahead)
  BY <1>1, <1>2, <1>3, <1>5, <1>6, PushPrimary
<1>7. ASSUME NEW t \in Punctuation, Piece(goal, <<>>) = pm \o <<t>>
      PROVE  \A ahead : Stands(<<Skip(t, <<>>), goal>> \o rest, st, text, ahead)
  <2>. DEFINE tt == <<t>>
              x == text \o tt
  <2>1. tt \in Seq(Words)
    BY PunctuationText
  <2>. HIDE DEF tt
  <2>2. x \in Seq(Words) /\ x = y \o (pm \o tt)
    <3>1. x = (y \o pm) \o tt
      BY <1>5
    <3>2. (y \o pm) \o tt = y \o (pm \o tt) /\ (y \o pm) \o tt \in Seq(Words)
      <4>1. y \in Seq(Words) /\ pm \in Seq(Words)
        BY <1>2, <1>5
      <4>2. (y \o pm) \o tt = y \o (pm \o tt)
        BY <2>1, <4>1, Bracket
      <4>. DEFINE q == y \o pm
      <4>3. q \in Seq(Words)
        BY <4>1, JoinedWords
      <4>. HIDE DEF q
      <4>4. q \o tt \in Seq(Words)
        BY <2>1, <4>3, JoinedWords
      <4>. QED  BY <4>2, <4>4 DEF q
    <3>. HIDE DEF x
    <3>. QED  BY <3>1, <3>2
  <2>3. x = text \o <<t>> /\ x = y \o Piece(goal, <<>>)
    BY <1>7, <2>2 DEF tt
  <2>. HIDE DEF x
  <2>4. \A ahead : Stands(<<Skip(t, <<>>)>> \o (<<goal>> \o rest), st, text, ahead)
    <3>. HIDE DEF x
    <3>1. t \in Punctuation /\ x \in Seq(Words) /\ x = text \o <<t>> /\ x = y \o Piece(goal, <<>>)
      BY <2>2, <2>3
    <3>2. /\ st \in States /\ Waits(rest, st, y, v) /\ Len(st.levels) = v
          /\ Takes(rest[1]) /\ Kind(rest[1]) # "infix"
      BY <1>1, <1>2, <1>3
    <3>. QED  BY <3>1, <3>2, PushPrimary
  <2>5. <<Skip(t, <<>>), goal>> \o rest = <<Skip(t, <<>>)>> \o (<<goal>> \o rest)
    <3>. DEFINE skip == Skip(t, <<>>)
    <3>1. skip \in Goals /\ rest \in Seq(Goals)
      BY <1>1, SkipGoal
    <3>. HIDE DEF skip
    <3>2. <<skip, goal>> \o rest = <<skip>> \o (<<goal>> \o rest)
      BY <3>1, GoalsJoined
    <3>. QED  BY <3>2 DEF skip
  <2>. QED  BY <2>4, <2>5
<1>. QED  BY <1>6, <1>7 DEF pm, text, st, rest

(* A variable or literal has been read.                                    *)
LEMMA LeafAfter ==
  ASSUME IInv, TextInv, status = "running", todo[1].do # "Program",
         Kind(todo[1]) \in {"Primary", "VarOrCall"},
         NEW node \in TreeNodes, node.n \in {"Const", "Var"},
         NEW more \in Seq(Words),
         NEW piece \in Seq(Words), piece = Piece(todo[1], <<>>),
         piece \o more = <<IF node.n = "Const" THEN node.text ELSE node.name>>
  PROVE  LET new == After(State(tree), node) IN
         /\ Appending(<<node>>, new)
         /\ \A ahead \in Tokens : Stands(<<>> \o Tail(todo), new, read \o more, ahead)
<1>. DEFINE st == State(tree)
            new == After(st, node)
            rest == Tail(todo)
            g == todo[1]
            value == <<IF node.n = "Const" THEN node.text ELSE node.name>>
<1>1. /\ st \in States /\ rest \in Seq(Goals)
      /\ \E y \in Seq(Words), v \in Nat :
           Waits(rest, st, y, v) /\ Len(st.levels) = v /\ read = y \o Piece(g, <<>>)
      /\ Joins(g, rest[1]) /\ Kind(g) \in PrimaryKinds
  BY PrimaryHead
<1>2. PICK y \in Seq(Words), v \in Nat :
        Waits(rest, st, y, v) /\ Len(st.levels) = v /\ read = y \o Piece(g, <<>>)
  BY <1>1
<1>3. Appending(<<node>>, new)
  BY DEF Appending
<1>. HIDE DEF st, rest, g, value
<1>4. Valued(st, new, v, value, Primary)
  BY <1>1, <1>2, LeafValue DEF value
<1>. HIDE DEF new
<1>5. read \o more = y \o value
  <2>1. (y \o piece) \o more = y \o (piece \o more)
    BY Assoc
  <2>. QED  BY <1>2, <2>1 DEF g, value
<1>. DEFINE text == read \o more
<1>6. text = y \o value
  BY <1>5
<1>. HIDE DEF text
<1>7. \A ahead \in Tokens : Stands(rest, new, text, ahead)
  BY <1>1, <1>2, <1>4, <1>6, PrimaryStands
<1>8. <<>> \o rest = rest
  BY <1>1, ConcatEmptySeq
<1>. QED  BY <1>3, <1>7, <1>8 DEF text, new, st, rest

\* The goals of a primary expression and its parts.
LEMMA PrimaryGoals ==
  /\ \A x \in Ids : /\ VarOrCall(x) \in Goals /\ Shaped(VarOrCall(x))
                    /\ Kind(VarOrCall(x)) = "VarOrCall" /\ Piece(VarOrCall(x), <<>>) = <<x>>
  /\ \A x \in Tokens : /\ Args(x) \in Goals /\ Shaped(Args(x))
                       /\ Kind(Args(x)) = "Args" /\ Piece(Args(x), <<>>) = <<x>>
  /\ Do("UnaryOp") \in Goals /\ Shaped(Do("UnaryOp"))
  /\ Kind(Do("UnaryOp")) = "UnaryOp" /\ Piece(Do("UnaryOp"), <<>>) = <<"-">>
<1>1. ASSUME NEW x \in Ids
      PROVE  /\ VarOrCall(x) \in Goals /\ Shaped(VarOrCall(x))
             /\ Kind(VarOrCall(x)) = "VarOrCall" /\ Piece(VarOrCall(x), <<>>) = <<x>>
  <2>. DEFINE goal == VarOrCall(x)
  <2>1. goal \in Goals /\ Shaped(goal) /\ Kind(goal) = "VarOrCall" /\ goal.name = x
    BY PlainGoalTypes, PlainShaped, KindOf DEF PlainGoals, VarOrCall
  <2>. HIDE DEF goal
  <2>2. Piece(goal, <<>>) = <<x>>
    BY <2>1 DEF Piece
  <2>. QED  BY <2>1, <2>2 DEF goal
<1>2. ASSUME NEW x \in Tokens
      PROVE  /\ Args(x) \in Goals /\ Shaped(Args(x))
             /\ Kind(Args(x)) = "Args" /\ Piece(Args(x), <<>>) = <<x>>
  <2>. DEFINE goal == Args(x)
  <2>1. goal \in Goals /\ Shaped(goal) /\ Kind(goal) = "Args" /\ goal.name = x
    BY PlainGoalTypes, PlainShaped, KindOf DEF PlainGoals, Args
  <2>. HIDE DEF goal
  <2>2. Piece(goal, <<>>) = <<x>>
    BY <2>1 DEF Piece
  <2>. QED  BY <2>1, <2>2 DEF goal
<1>3. /\ Do("UnaryOp") \in Goals /\ Shaped(Do("UnaryOp"))
      /\ Kind(Do("UnaryOp")) = "UnaryOp" /\ Piece(Do("UnaryOp"), <<>>) = <<"-">>
  <2>. DEFINE goal == Do("UnaryOp")
  <2>1. goal \in Goals
    BY DEF Goals, Do
  <2>2. Shaped(goal) /\ Kind(goal) = "UnaryOp"
    BY PlainShaped, KindOf
  <2>. HIDE DEF goal
  <2>3. Piece(goal, <<>>) = <<"-">>
    BY <2>2 DEF Piece
  <2>. QED  BY <2>1, <2>2, <2>3 DEF goal
<1>. QED  BY <1>1, <1>2, <1>3

LEMMA PrimaryText ==
  ASSUME IInv, TextInv, ParsePrimary
  PROVE  TextInv'
<1>. DEFINE g == todo[1]
            piece == Piece(g, <<>>)
            more == <<lookahead>>
            Disjoint == /\ Ids \cap Types = {} /\ Ids \cap (Nums \cup {"true", "false", "(", "-"}) = {}
                        /\ Types \cap (Nums \cup {"true", "false", "(", "-"}) = {}
                        /\ Nums \cap {"(", "-"} = {}
<1>1. Doing("Primary")
  BY DEF ParsePrimary
<1>2. /\ status = "running" /\ g.do = "Primary" /\ Head(todo) = g /\ Kind(g) = "Primary"
      /\ lookahead \in Words /\ lookahead \in Tokens
  BY <1>1, HeadKind
<1>3. piece = <<>> /\ more \in Seq(Words) /\ piece \in Seq(Words) /\ piece \o more = more
  <2>1. piece = <<>>
    BY <1>2 DEF Piece
  <2>2. more \in Seq(Words) /\ <<>> \in Seq(Words)
    BY <1>2, OneWord
  <2>. HIDE DEF more, piece
  <2>. QED  BY <2>1, <2>2, ConcatEmptySeq
<1>4. g.do # "Program" /\ Kind(g) \in {"Primary", "UnaryOp", "VarOrCall", "Args", "FirstArg"}
      /\ Kind(g) \in {"Primary", "VarOrCall"}
  BY <1>2
<1>5. Disjoint
  <2>1. Types \cup {"true", "false"} \subseteq Keywords /\ "(" \in Punctuation /\ "-" \in Operators
        /\ Types \cap {"true", "false", "(", "-"} = {}
    BY DEF Keywords, Types, Punctuation, Operators, InfixOps
  <2>. QED  BY <2>1, TokensAssumption
<1>. HIDE DEF g
<1>6. ASSUME NEW goal \in Goals, Shaped(goal),
             Kind(goal) \in {"Primary", "UnaryOp", "VarOrCall", "Args", "FirstArg"},
             Piece(goal, <<>>) = more, Take(<<goal>>, <<>>)
      PROVE  TextInv'
  <2>1. Piece(goal, <<>>) = piece \o more
    BY <1>3, <1>6
  <2>. HIDE DEF more, piece
  <2>2. \A ahead : Stands(<<goal>> \o Tail(todo), State(tree), read \o more, ahead)
    BY <1>2, <1>3, <1>4, <1>6, <2>1, PrimaryAfter DEF g, piece
  <2>3. Appending(<<>>, State(tree))
    BY NoNode
  <2>. QED  BY <1>2, <1>6, <2>2, <2>3, TakeText DEF more
<1>7. CASE lookahead \in Nums \cup {"true", "false"}
  <2>. DEFINE node == [n |-> "Const", text |-> lookahead]
              new == After(State(tree), node)
  <2>1. Take(<<>>, <<node>>)
    BY <1>5, <1>7 DEF ParsePrimary
  <2>2. node \in TreeNodes /\ node.n = "Const" /\ node.text = lookahead
    BY <1>2, NodeTypes
  <2>. HIDE DEF node
  <2>3. piece \o more = <<IF node.n = "Const" THEN node.text ELSE node.name>>
    BY <1>3, <2>2
  <2>. HIDE DEF more, piece
  <2>4. /\ Appending(<<node>>, new)
        /\ \A ahead \in Tokens : Stands(<<>> \o Tail(todo), new, read \o more, ahead)
    BY <1>2, <1>3, <1>4, <2>2, <2>3, LeafAfter DEF g, piece
  <2>. HIDE DEF new
  <2>. QED  BY <1>2, <2>1, <2>4, TakeText DEF more
<1>8. CASE lookahead \in Ids
  <2>. DEFINE goal == VarOrCall(lookahead)
  <2>1. Take(<<goal>>, <<>>)
    BY <1>5, <1>8 DEF ParsePrimary
  <2>2. goal \in Goals /\ Shaped(goal) /\ Kind(goal) = "VarOrCall" /\ Piece(goal, <<>>) = more
    BY <1>8, PrimaryGoals
  <2>. HIDE DEF goal
  <2>. QED  BY <1>6, <2>1, <2>2
<1>9. CASE lookahead \in Types
  <2>. DEFINE goal == Args(lookahead)
  <2>1. Take(<<goal>>, <<>>)
    BY <1>5, <1>9 DEF ParsePrimary
  <2>2. goal \in Goals /\ Shaped(goal) /\ Kind(goal) = "Args" /\ Piece(goal, <<>>) = more
    BY <1>2, PrimaryGoals
  <2>. HIDE DEF goal
  <2>. QED  BY <1>6, <2>1, <2>2
<1>10. CASE lookahead = "-"
  <2>. DEFINE goal == Do("UnaryOp")
  <2>1. Take(<<goal>>, <<>>)
    BY <1>5, <1>10 DEF ParsePrimary
  <2>2. goal \in Goals /\ Shaped(goal) /\ Kind(goal) = "UnaryOp" /\ Piece(goal, <<>>) = more
    BY <1>10, PrimaryGoals
  <2>. HIDE DEF goal
  <2>. QED  BY <1>6, <2>1, <2>2
<1>11. CASE lookahead = "("
  <2>. DEFINE node == Mark("Paren")
              last == Skip(")", <<node>>)
              first == Skip("(", <<>>)
              st == State(tree)
              rest == Tail(todo)
              all == <<last>> \o rest
  <2>1. Take((<<first>> \o Exp) \o <<last>>, <<>>)
    BY <1>5, <1>11 DEF ParsePrimary
  <2>2. node \in TreeNodes /\ node.n = "Paren"
    BY NodeTypes DEF Mark
  <2>3. /\ st \in States /\ rest \in Seq(Goals)
        /\ \E y \in Seq(Words), v \in Nat :
             Waits(rest, st, y, v) /\ Len(st.levels) = v /\ read = y \o Piece(g, <<>>)
        /\ Joins(g, rest[1]) /\ Kind(g) \in PrimaryKinds
    BY <1>2, <1>4, PrimaryHead DEF g
  <2>4. PICK y \in Seq(Words), v \in Nat :
          Waits(rest, st, y, v) /\ Len(st.levels) = v /\ read = y \o Piece(g, <<>>)
    BY <2>3
  <2>5. Appending(<<>>, st)
    BY NoNode
  <2>. HIDE DEF node, st, rest
  <2>6. last \in Goals /\ Kind(last) = "Paren" /\ last.do = "Skip" /\ last.token = ")" /\ last.nodes = <<node>>
        /\ ")" \in Punctuation /\ "(" \in Punctuation /\ first \in Goals
    <3>1. <<node>> \in Seq(TreeNodes) /\ ")" \in Punctuation /\ "(" \in Punctuation
      BY <2>2, OneWord DEF Punctuation
    <3>2. last \in Goals /\ first \in Goals
      BY <3>1, PlainGoalTypes, SkipGoal DEF PlainGoals
    <3>3. Kind(last) = "Paren"
      BY <2>2, KindOf
    <3>. QED  BY <3>1, <3>2, <3>3 DEF Skip
  <2>. HIDE DEF last, first
  <2>7. Shaped(last) /\ Uses(last) = 0 /\ Kind(last) \in PrimaryKinds /\ Piece(last, <<>>) = <<"(", "(">>
    <3>1. Shaped(last)
      BY <2>2, <2>6 DEF Shaped
    <3>2. Uses(last) = 0 /\ Kind(last) \in PrimaryKinds /\ Piece(last, <<>>) = <<"(", "(">>
      BY <2>6 DEF Uses, PrimaryKinds, Piece
    <3>. QED  BY <3>1, <3>2
  <2>8. Joins(last, rest[1])
    BY <2>3, <2>7, PrimaryJoins
  <2>. DEFINE o == "("
              oo == <<o>>
              x == y \o (oo \o oo)
  <2>9. o \in Punctuation /\ oo \in Seq(Words) /\ Piece(last, <<>>) = oo \o oo /\ more = oo
    <3>1. o \in Punctuation /\ o \in Words
      BY <2>6, TokenWords
    <3>2. oo \in Seq(Words) /\ oo \o oo = <<o, o>>
      <4>. HIDE DEF o
      <4>. QED  BY <3>1, OneWord, PairJoined
    <3>. QED  BY <1>11, <2>7, <3>1, <3>2
  <2>. HIDE DEF o, oo
  <2>10. x \in Seq(Words) /\ x = (y \o oo) \o oo /\ read = y
    <3>1. (y \o oo) \o oo = y \o (oo \o oo) /\ (y \o oo) \o oo \in Seq(Words)
      BY <2>9, Assoc
    <3>2. y \o <<>> = y
      BY ConcatEmptySeq
    <3>. QED  BY <1>3, <2>4, <3>1, <3>2
  <2>11. x = (read \o more) \o <<o>> /\ x = y \o Piece(last, <<>>)
    BY <2>9, <2>10 DEF oo
  <2>. HIDE DEF x, all
  <2>12. Waits(all, st, x, v)
    <3>1. v <= Len(st.levels) /\ Kind(last) \notin {"infix", "RightOf", "EndExp"}
      BY <2>4, <2>6
    <3>. QED  BY <2>3, <2>4, <2>6, <2>7, <2>8, <2>10, <2>11, <3>1, PushZero DEF all
  <2>13. all[1] = last /\ all \in Seq(Goals)
    BY <2>3, <2>6, InFront DEF all
  <2>14. \A ahead : Stands(<<Skip(o, <<>>)>> \o (Exp \o all), st, read \o more, ahead)
    <3>. DEFINE text == read \o more
    <3>1. x = text \o <<o>> /\ Kind(all[1]) \in {"EndExp", "Paren", "NextArg", "LastArg"}
      BY <2>6, <2>11, <2>13
    <3>. HIDE DEF text
    <3>2. \A ahead : Stands(<<Skip(o, <<>>)>> \o (Exp \o all), st, text, ahead)
      BY <2>3, <2>4, <2>9, <2>10, <2>12, <3>1, PushExp
    <3>. QED  BY <3>2 DEF text
  <2>15. ((<<first>> \o Exp) \o <<last>>) \o rest = <<first>> \o (Exp \o all)
    <3>. DEFINE f == <<first>>
                l == <<last>>
                fe == f \o Exp
    <3>1. f \in Seq(Goals) /\ l \in Seq(Goals) /\ Exp \in Seq(Goals)
      BY <2>6, OneWord, GoalsOfExp
    <3>. HIDE DEF f, l
    <3>2. fe \in Seq(Goals) /\ all = l \o rest
      BY <3>1, JoinedGoals DEF all, l
    <3>3. fe \o all = f \o (Exp \o all)
      BY <2>13, <3>1, AssocGoals
    <3>. HIDE DEF fe
    <3>4. (fe \o l) \o rest = fe \o all
      BY <2>3, <3>1, <3>2, AssocGoals
    <3>. QED  BY <3>3, <3>4 DEF f, l, fe
  <2>16. first = Skip(o, <<>>)
    BY DEF first, o
  <2>17. \A ahead : Stands(((<<first>> \o Exp) \o <<last>>) \o rest, st, read \o more, ahead)
    BY <2>14, <2>15, <2>16
  <2>. DEFINE goals == (<<first>> \o Exp) \o <<last>>
  <2>. HIDE DEF goals
  <2>18. Take(goals, <<>>) /\ \A ahead : Stands(goals \o rest, st, read \o more, ahead)
    BY <2>1, <2>17 DEF goals
  <2>. QED  BY <1>2, <2>5, <2>18, TakeText DEF rest
<1>12. CASE lookahead \notin Nums \cup {"true", "false"} \cup Ids \cup Types \cup {"(", "-"}
  <2>1. status' = "error"
    BY <1>12 DEF ParsePrimary, TakeError
  <2>. QED  BY <2>1, ErrorText
<1>. QED  BY <1>7, <1>8, <1>9, <1>10, <1>11, <1>12

LEMMA VarOrCallText ==
  ASSUME IInv, TextInv, ParseVarOrCall
  PROVE  TextInv'
<1>. DEFINE g == todo[1]
            piece == Piece(g, <<>>)
            name == g.name
<1>1. Doing("VarOrCall")
  BY DEF ParseVarOrCall
<1>2. /\ status = "running" /\ g.do = "VarOrCall" /\ Head(todo) = g /\ Kind(g) = "VarOrCall"
      /\ g \in Goals /\ g.do # "Program" /\ lookahead \in Tokens
  BY <1>1, HeadKind
<1>3. name \in Ids /\ name \in VarNames /\ name \in Tokens /\ name \in Words
  <2>1. name \in Ids
    BY <1>2, GoalFields
  <2>2. name \in VarNames /\ name \in Tokens
    BY <2>1, TokensAssumption DEF Tokens
  <2>. QED  BY <2>1, <2>2, TokenWords
<1>4. piece = <<name>> /\ piece \in Seq(Words) /\ piece \o <<>> = piece /\ <<>> \in Seq(Words)
      /\ read \o <<>> = read
  <2>1. piece = <<name>>
    BY <1>2 DEF Piece
  <2>2. <<name>> \in Seq(Words) /\ <<>> \in Seq(Words) /\ read \in Seq(Words)
    BY <1>2, <1>3, OneWord, HeadOfText
  <2>. HIDE DEF piece, name
  <2>. QED  BY <2>1, <2>2, ConcatEmptySeq
<1>. HIDE DEF name, piece
<1>5. CASE lookahead = "("
  <2>. DEFINE goal == Args(name)
  <2>1. Go(<<goal>>, <<>>)
    BY <1>2, <1>5 DEF ParseVarOrCall, name
  <2>2. goal \in Goals /\ Shaped(goal) /\ Kind(goal) = "Args" /\ Piece(goal, <<>>) = <<name>>
    BY <1>3, PrimaryGoals
  <2>. HIDE DEF goal
  <2>3. Stands(<<goal>> \o Tail(todo), State(tree), read \o <<>>, lookahead)
    BY <1>2, <1>4, <2>2, PrimaryAfter DEF piece
  <2>4. Stands(<<goal>> \o Tail(todo), State(tree), read, lookahead)
    BY <1>4, <2>3
  <2>. QED  BY <1>2, <2>1, <2>4, NoNode, GoText
<1>6. CASE lookahead # "("
  <2>. DEFINE node == [n |-> "Var", name |-> name]
              new == After(State(tree), node)
  <2>1. Go(<<>>, <<node>>)
    BY <1>2, <1>6 DEF ParseVarOrCall, name
  <2>2. node \in TreeNodes /\ node.n = "Var" /\ node.name = name
    BY <1>3, NodeTypes
  <2>. HIDE DEF node
  <2>3. piece \o <<>> = <<IF node.n = "Const" THEN node.text ELSE node.name>>
    BY <1>4, <2>2
  <2>4. /\ Appending(<<node>>, new)
        /\ \A ahead \in Tokens : Stands(<<>> \o Tail(todo), new, read \o <<>>, ahead)
    BY <1>2, <1>4, <2>2, <2>3, LeafAfter DEF piece
  <2>. HIDE DEF new
  <2>5. Stands(<<>> \o Tail(todo), new, read, lookahead)
    BY <1>2, <1>4, <2>4
  <2>. QED  BY <1>2, <2>1, <2>4, <2>5, GoText
<1>. QED  BY <1>5, <1>6

\* A prefix operator waits for its operand.
LEMMA PrefixGoal ==
  ASSUME NEW op \in Tokens
  PROVE  LET call == Emit(CallNode(op, 1, "prefix")) IN
         /\ call \in Goals /\ Shaped(call) /\ Kind(call) = "prefix" /\ Uses(call) = 0
         /\ Piece(call, <<>>) = <<"-", op>>
<1>. DEFINE node == CallNode(op, 1, "prefix")
            call == Emit(node)
<1>1. node \in TreeNodes /\ node.n = "Call" /\ node.form = "prefix" /\ node.args = 1 /\ node.name = op
  <2>1. node \in TreeNodes
    BY NodeTypes DEF Forms
  <2>. QED  BY <2>1 DEF CallNode
<1>. HIDE DEF node
<1>2. call \in Goals /\ call.do = "Emit" /\ call.node = node
  <2>1. call \in Goals
    BY <1>1, PlainGoalTypes DEF PlainGoals
  <2>. QED  BY <2>1 DEF Emit
<1>3. Kind(call) = "prefix"
  BY <1>1, KindOf
<1>. HIDE DEF call
<1>4. Shaped(call) /\ Uses(call) = 0 /\ Piece(call, <<>>) = <<"-", op>>
  <2>1. Shaped(call)
    BY <1>1, <1>2 DEF Shaped
  <2>. QED  BY <1>1, <1>2, <1>3, <2>1 DEF Uses, Piece
<1>. QED  BY <1>2, <1>3, <1>4 DEF call, node

LEMMA UnaryOpText ==
  ASSUME IInv, TextInv, ParseUnaryOp
  PROVE  TextInv'
<1>. DEFINE g == todo[1]
            st == State(tree)
            rest == Tail(todo)
            a == Do("Primary")
            b == Emit(CallNode(lookahead, 1, "prefix"))
            all == <<b>> \o rest
            minus == <<"-">>
            more == <<lookahead>>
<1>1. Doing("UnaryOp")
  BY DEF ParseUnaryOp
<1>2. /\ status = "running" /\ g.do = "UnaryOp" /\ Head(todo) = g /\ Kind(g) = "UnaryOp"
      /\ g \in Goals /\ g.do # "Program" /\ lookahead \in Tokens /\ lookahead \in Words
  BY <1>1, HeadKind
<1>3. Take(<<a, b>>, <<>>)
  BY DEF ParseUnaryOp
<1>4. /\ st \in States /\ rest \in Seq(Goals)
      /\ \E y \in Seq(Words), v \in Nat :
           Waits(rest, st, y, v) /\ Len(st.levels) = v /\ read = y \o Piece(g, <<>>)
      /\ Joins(g, rest[1]) /\ Kind(g) \in PrimaryKinds
  BY <1>2, PrimaryHead
<1>5. PICK y \in Seq(Words), v \in Nat :
        Waits(rest, st, y, v) /\ Len(st.levels) = v /\ read = y \o Piece(g, <<>>)
  BY <1>4
<1>6. Piece(g, <<>>) = minus
  BY <1>2 DEF Piece
<1>7. b \in Goals /\ Shaped(b) /\ Kind(b) = "prefix" /\ Uses(b) = 0 /\ Piece(b, <<>>) = <<"-", lookahead>>
  BY <1>2, PrefixGoal
<1>8. a \in Goals /\ Shaped(a) /\ Kind(a) = "Primary"
  BY GoalsOfExp, KindOf
<1>9. minus \in Seq(Words) /\ more \in Seq(Words) /\ <<"-", lookahead>> = minus \o more
  <2>1. "-" \in Words
    BY TokenWords
  <2>. QED  BY <1>2, <2>1, OneWord, PairJoined
<1>10. Appending(<<>>, st)
  BY NoNode
<1>. HIDE DEF st, rest, g, b, a, minus
<1>11. Joins(b, rest[1]) /\ Takes(b)
  BY <1>4, <1>7, PrimaryJoins DEF PrimaryKinds, Takes, TakingKinds
<1>. DEFINE text == read \o more
<1>. HIDE DEF more
<1>12. text = y \o (minus \o more) /\ text \in Seq(Words)
  <2>1. (y \o minus) \o more = y \o (minus \o more) /\ (y \o minus) \o more \in Seq(Words)
    BY <1>9, Assoc
  <2>. QED  BY <1>5, <1>6, <2>1
<1>13. text = y \o Piece(b, <<>>)
  BY <1>7, <1>9, <1>12
<1>. HIDE DEF text
<1>14. Waits(all, st, text, v)
  <2>1. v <= Len(st.levels) /\ Kind(b) \notin {"infix", "RightOf", "EndExp"}
    BY <1>5, <1>7
  <2>. QED  BY <1>4, <1>5, <1>7, <1>11, <1>12, <1>13, <2>1, PushZero
<1>15. all[1] = b
  BY <1>4, <1>7, InFront
<1>16. Piece(a, <<>>) = <<>> /\ text \o <<>> = text
  <2>1. Piece(a, <<>>) = <<>>
    BY <1>8 DEF Piece
  <2>. QED  BY <1>12, <2>1, ConcatEmptySeq
<1>17. <<a, b>> \o rest = <<a>> \o all
  <2>1. a \in Goals /\ b \in Goals /\ rest \in Seq(Goals)
    BY <1>4, <1>7, <1>8
  <2>. QED  BY <2>1, GoalsJoined
<1>. HIDE DEF all
<1>18. \A ahead : Stands(<<a>> \o all, st, text, ahead)
  <2>1. Takes(all[1]) /\ Kind(all[1]) # "infix" /\ text = text \o Piece(a, <<>>)
    BY <1>7, <1>11, <1>15, <1>16
  <2>. QED  BY <1>4, <1>5, <1>8, <1>12, <1>14, <2>1, PushPrimary
<1>19. \A ahead \in Tokens : Stands(<<a, b>> \o rest, st, text, ahead)
  BY <1>17, <1>18
<1>. QED  BY <1>2, <1>3, <1>10, <1>19, TakeText DEF rest, text, more

-----------------------------------------------------------------------------
(* Arguments                                                               *)

LEMMA ArgGoals ==
  ASSUME NEW name \in Tokens, NEW n \in Nat
  PROVE  LET next == MoreArgs(name, n)
             last == Skip(")", <<CallNode(name, n, "args")>>)
         IN
         /\ next \in Goals /\ Shaped(next) /\ last \in Goals /\ Shaped(last)
         /\ n = 0 => /\ Kind(next) = "FirstArg" /\ Kind(last) = "NoArgs"
                     /\ Uses(next) = 0 /\ Uses(last) = 0
         /\ n # 0 => /\ Kind(next) = "NextArg" /\ Kind(last) = "LastArg"
                     /\ Uses(next) = n - 1 /\ Uses(last) = n - 1
         /\ \A args : Piece(next, args) = ArgsSoFar(name, args) /\ Piece(last, args) = ArgsSoFar(name, args)
<1>. DEFINE node == CallNode(name, n, "args")
            next == MoreArgs(name, n)
            last == Skip(")", <<node>>)
<1>1. node \in TreeNodes /\ node.n = "Call" /\ node.form = "args" /\ node.args = n /\ node.name = name
  <2>1. node \in TreeNodes
    BY NodeTypes DEF Forms
  <2>. QED  BY <2>1 DEF CallNode
<1>2. next \in Goals /\ next.do = "MoreArgs" /\ next.name = name /\ next.args = n
  BY PlainGoalTypes DEF PlainGoals, MoreArgs
<1>3. Kind(next) = IF n = 0 THEN "FirstArg" ELSE "NextArg"
  BY KindOf
<1>4. Shaped(next)
  BY PlainShaped
<1>. HIDE DEF node, next
<1>5. last \in Goals /\ last.do = "Skip" /\ last.token = ")" /\ last.nodes = <<node>>
  <2>1. <<node>> \in Seq(TreeNodes) /\ ")" \in Punctuation
    BY <1>1, OneWord DEF Punctuation
  <2>2. last \in Goals
    BY <2>1, PlainGoalTypes DEF PlainGoals
  <2>. QED  BY <2>2 DEF Skip
<1>6. Kind(last) = IF n = 0 THEN "NoArgs" ELSE "LastArg"
  BY <1>1, KindOf
<1>. HIDE DEF last
<1>7. Shaped(last)
  BY <1>1, <1>5 DEF Shaped
<1>8. last.nodes[1] = node
  <2>1. <<node>>[1] = node
    OBVIOUS
  <2>. QED  BY <1>5, <2>1
<1>9. ASSUME n = 0
      PROVE  /\ Uses(next) = 0 /\ Uses(last) = 0
             /\ \A args : Piece(next, args) = ArgsSoFar(name, args) /\ Piece(last, args) = ArgsSoFar(name, args)
  BY <1>1, <1>2, <1>3, <1>6, <1>8, <1>9 DEF Uses, Piece
<1>10. ASSUME n # 0
       PROVE  /\ Uses(next) = n - 1 /\ Uses(last) = n - 1
              /\ \A args : Piece(next, args) = ArgsSoFar(name, args) /\ Piece(last, args) = ArgsSoFar(name, args)
  BY <1>1, <1>2, <1>3, <1>6, <1>8, <1>10 DEF Uses, Piece
<1>. QED  BY <1>2, <1>3, <1>4, <1>5, <1>6, <1>7, <1>9, <1>10 DEF node, next, last

LEMMA ArgsGoalText ==
  ASSUME IInv, TextInv, ParseArgs
  PROVE  TextInv'
<1>. DEFINE g == todo[1]
            piece == Piece(g, <<>>)
            name == g.name
            goal == MoreArgs(name, 0)
            o == "("
            first == Skip(o, <<>>)
<1>1. Doing("Args")
  BY DEF ParseArgs
<1>2. /\ status = "running" /\ g.do = "Args" /\ Head(todo) = g /\ Kind(g) = "Args"
      /\ g \in Goals /\ g.do # "Program" /\ lookahead \in Tokens
  BY <1>1, HeadKind
<1>3. name \in Tokens /\ name \in Words
  BY <1>2, GoalFields, TokenWords
<1>4. piece = <<name>>
  BY <1>2 DEF Piece
<1>5. Go(<<first, goal>>, <<>>)
  BY <1>2 DEF ParseArgs
<1>. HIDE DEF name
<1>6. goal \in Goals /\ Shaped(goal) /\ Kind(goal) = "FirstArg" /\ Piece(goal, <<>>) = ArgsSoFar(name, <<>>)
  BY <1>3, ArgGoals
<1>7. ArgsSoFar(name, <<>>) = <<name, o>>
  <2>1. <<>> \in Seq(Texts)
    OBVIOUS
  <2>. QED  BY <1>3, <2>1, ArgsText
<1>8. o \in Punctuation
  BY DEF Punctuation
<1>. HIDE DEF piece, goal, o
<1>9. piece \in Seq(Words) /\ piece \o <<>> = piece /\ <<>> \in Seq(Words) /\ read \o <<>> = read
  <2>1. <<name>> \in Seq(Words) /\ read \in Seq(Words) /\ <<>> \in Seq(Words)
    BY <1>2, <1>3, OneWord, HeadOfText
  <2>. QED  BY <1>4, <2>1, ConcatEmptySeq
<1>10. Piece(goal, <<>>) = (piece \o <<>>) \o <<o>>
  <2>1. <<name>> \o <<o>> = <<name, o>>
    <3>1. o \in Words
      BY <1>8, TokenWords
    <3>. QED  BY <1>3, <3>1, PairJoined
  <2>. QED  BY <1>4, <1>6, <1>7, <1>9, <2>1
<1>11. Stands(<<first, goal>> \o Tail(todo), State(tree), read \o <<>>, lookahead)
  BY <1>2, <1>6, <1>8, <1>9, <1>10, PrimaryAfter DEF piece
<1>12. Stands(<<first, goal>> \o Tail(todo), State(tree), read, lookahead)
  BY <1>9, <1>11
<1>. HIDE DEF first
<1>. QED  BY <1>2, <1>5, <1>12, NoNode, GoText

(* The first argument, or none.                                            *)
LEMMA FirstArgText ==
  ASSUME IInv, TextInv, ParseMoreArgs, todo[1].args = 0
  PROVE  TextInv'
<1>. DEFINE g == todo[1]
            name == g.name
            st == State(tree)
            rest == Tail(todo)
            empty == ArgsSoFar(name, <<>>)
<1>1. status = "running" /\ g.do = "MoreArgs" /\ Head(todo) = g /\ g \in Goals /\ g.args = 0
      /\ g.do # "Program" /\ lookahead \in Tokens /\ read \in Seq(Words)
  BY HeadOfText DEF ParseMoreArgs, Doing
<1>2. Kind(g) = "FirstArg" /\ name \in Tokens
  <2>1. Kind(g) = "FirstArg"
    <3>. HIDE DEF g
    <3>. QED  BY <1>1 DEF Kind, g
  <2>. QED  BY <1>1, <2>1, GoalFields
<1>3. /\ st \in States /\ rest \in Seq(Goals)
      /\ \E y \in Seq(Words), v \in Nat :
           Waits(rest, st, y, v) /\ Len(st.levels) = v /\ read = y \o Piece(g, <<>>)
      /\ Joins(g, rest[1]) /\ Kind(g) \in PrimaryKinds
  BY <1>1, <1>2, PrimaryHead
<1>4. PICK y \in Seq(Words), v \in Nat :
        Waits(rest, st, y, v) /\ Len(st.levels) = v /\ read = y \o Piece(g, <<>>)
  BY <1>3
<1>5. Piece(g, <<>>) = empty
  <2>. HIDE DEF g
  <2>1. Piece(g, <<>>) = ArgsSoFar(g.name, <<>>)
    BY <1>2 DEF Piece
  <2>. QED  BY <2>1
<1>6. Appending(<<>>, st)
  BY NoNode
<1>. HIDE DEF st, rest, g, name, empty
<1>7. ASSUME NEW goal \in Goals, Shaped(goal), Kind(goal) \in {"NextArg", "NoArgs"}, Uses(goal) = 0,
             Piece(goal, <<>>) = empty
      PROVE  Waits(<<goal>> \o rest, st, read, v) /\ (<<goal>> \o rest)[1] = goal
             /\ <<goal>> \o rest \in Seq(Goals)
  <2>1. v <= Len(st.levels) /\ Kind(goal) \notin {"infix", "RightOf", "EndExp"}
        /\ read = y \o Piece(goal, <<>>)
    BY <1>4, <1>5, <1>7
  <2>2. Joins(goal, rest[1])
    BY <1>3, <1>7, PrimaryJoins DEF PrimaryKinds
  <2>3. Waits(<<goal>> \o rest, st, read, v)
    BY <1>1, <1>3, <1>4, <1>7, <2>1, <2>2, PushZero
  <2>. QED  BY <1>3, <2>3, InFront
<1>8. CASE lookahead # ")"
  <2>. DEFINE goal == MoreArgs(name, 1)
              all == <<goal>> \o rest
  <2>1. Go(Exp \o <<goal>>, <<>>)
    <3>. DEFINE n == Head(todo).args
    <3>1. n = 0 /\ Head(todo).name = name
      BY <1>1 DEF name
    <3>. DEFINE f == Head(todo).name
                comma == n > 0 /\ lookahead = ","
                one == Go(Exp \o <<MoreArgs(f, n + 1)>>, <<>>)
                two == Take(Exp \o <<MoreArgs(f, n + 1)>>, <<>>)
                three == Go(<<Skip(")", <<CallNode(f, n, "args")>>)>>, <<>>)
    <3>2. (CASE n = 0 /\ lookahead # ")" -> one [] comma -> two [] OTHER -> three)
      BY DEF ParseMoreArgs
    <3>3. ~comma
      <4>. HIDE DEF n
      <4>1. n \in Nat /\ ~(n > 0)
        BY <3>1
      <4>. QED  BY <4>1
    <3>. HIDE DEF n, one, two, three, comma
    <3>4. one
      BY <1>8, <3>1, <3>2, <3>3
    <3>5. n + 1 = 1
      BY <3>1
    <3>. QED  BY <3>1, <3>4, <3>5 DEF one
  <2>2. goal \in Goals /\ Shaped(goal) /\ Kind(goal) = "NextArg" /\ Uses(goal) = 0
        /\ Piece(goal, <<>>) = empty
    <3>. DEFINE n == 1
                next == MoreArgs(name, n)
    <3>1. n \in Nat /\ n # 0 /\ n - 1 = 0
      OBVIOUS
    <3>. HIDE DEF n
    <3>2. /\ next \in Goals /\ Shaped(next) /\ Kind(next) = "NextArg" /\ Uses(next) = n - 1
          /\ Piece(next, <<>>) = ArgsSoFar(name, <<>>)
      BY <1>2, <3>1, ArgGoals
    <3>. QED  BY <3>1, <3>2 DEF n, empty
  <2>. HIDE DEF goal
  <2>3. Waits(all, st, read, v) /\ all[1] = goal
    BY <1>7, <2>2
  <2>4. (Exp \o <<goal>>) \o rest = Exp \o all
    <3>. DEFINE l == <<goal>>
    <3>1. l \in Seq(Goals) /\ Exp \in Seq(Goals)
      BY <2>2, OneWord, GoalsOfExp
    <3>. HIDE DEF l
    <3>2. (Exp \o l) \o rest = Exp \o (l \o rest)
      BY <1>3, <3>1, AssocGoals
    <3>. QED  BY <3>2 DEF l
  <2>. HIDE DEF all
  <2>5. \A ahead : Stands(Exp \o all, st, read, ahead)
    <3>1. Kind(all[1]) \in {"EndExp", "Paren", "NextArg", "LastArg"}
      BY <2>2, <2>3
    <3>. QED  BY <1>1, <1>3, <1>4, <2>3, <3>1, PushExp
  <2>. DEFINE goals == Exp \o <<goal>>
  <2>6. Stands(goals \o rest, st, read, lookahead)
    BY <2>4, <2>5
  <2>. HIDE DEF goals
  <2>. QED  BY <1>1, <1>6, <2>1, <2>6, GoText DEF rest, goals
<1>9. CASE lookahead = ")"
  <2>. DEFINE goal == Skip(")", <<CallNode(name, 0, "args")>>)
              all == <<goal>> \o rest
  <2>1. Go(<<goal>>, <<>>)
    BY <1>1, <1>9 DEF ParseMoreArgs, name
  <2>2. goal \in Goals /\ Shaped(goal) /\ Kind(goal) = "NoArgs" /\ Uses(goal) = 0
        /\ Piece(goal, <<>>) = empty
    BY <1>2, ArgGoals DEF empty
  <2>. HIDE DEF goal
  <2>3. Waits(all, st, read, v) /\ all[1] = goal
    BY <1>7, <2>2
  <2>4. ~Takes(all[1]) /\ Kind(all[1]) # "Ahead"
    BY <2>2, <2>3 DEF Takes, TakingKinds
  <2>. HIDE DEF all
  <2>5. Stands(all, st, read, lookahead)
    BY <1>1, <1>3, <1>4, <2>3, <2>4, StandsPlain
  <2>. QED  BY <1>1, <1>6, <2>1, <2>5, GoText DEF rest, all
<1>. QED  BY <1>8, <1>9

(* The next argument, or the last one.                                     *)
LEMMA NextArgText ==
  ASSUME IInv, TextInv, ParseMoreArgs, todo[1].args # 0
  PROVE  TextInv'
<1>. DEFINE g == todo[1]
            name == g.name
            n == g.args
            st == State(tree)
            rest == Tail(todo)
            ops == st.written.operands
            more == <<lookahead>>
            comma == n > 0 /\ lookahead = ","
            one == Go(Exp \o <<MoreArgs(name, n + 1)>>, <<>>)
            two == Take(Exp \o <<MoreArgs(name, n + 1)>>, <<>>)
            three == Go(<<Skip(")", <<CallNode(name, n, "args")>>)>>, <<>>)
<1>1. status = "running" /\ g.do = "MoreArgs" /\ Head(todo) = g /\ g \in Goals /\ n # 0
      /\ g.do # "Program" /\ lookahead \in Tokens /\ read \in Seq(Words)
  BY HeadOfText DEF ParseMoreArgs, Doing
<1>2. (CASE n = 0 /\ lookahead # ")" -> one [] comma -> two [] OTHER -> three)
  BY <1>1 DEF ParseMoreArgs
<1>3. name \in Tokens /\ n \in Nat
  BY <1>1, GoalFields
<1>4. Kind(g) = "NextArg" /\ Takes(g) /\ Uses(g) = n - 1 /\ \A args : Piece(g, args) = ArgsSoFar(name, args)
  <2>. DEFINE k == n
  <2>. HIDE DEF g
  <2>1. Kind(g) = "NextArg"
    BY <1>1 DEF Kind
  <2>. QED  BY <2>1 DEF Takes, TakingKinds, Uses, Piece
<1>. HIDE DEF one, two, three, n, name, g, st, rest, ops
<1>5. CASE lookahead = ","
  <2>. DEFINE goal == MoreArgs(name, n + 1)
              all == <<goal>> \o rest
              text == read \o more
  <2>1. Take(Exp \o <<goal>>, <<>>)
    <3>1. n > 0
      BY <1>1, <1>3
    <3>. QED  BY <1>1, <1>2, <1>5, <3>1 DEF two
  <2>2. n + 1 \in Nat /\ n + 1 # 0 /\ (n + 1) - 1 = n /\ n \in Nat \ {0}
    BY <1>1, <1>3
  <2>3. goal \in Goals /\ Shaped(goal) /\ Kind(goal) = "NextArg" /\ Uses(goal) = n
        /\ \A args : Piece(goal, args) = ArgsSoFar(name, args)
    <3>. DEFINE m == n + 1
    <3>1. m \in Nat /\ m # 0 /\ m - 1 = n
      BY <2>2
    <3>. HIDE DEF m
    <3>2. LET next == MoreArgs(name, m) IN
          next \in Goals /\ Shaped(next) /\ Kind(next) = "NextArg" /\ Uses(next) = m - 1
          /\ \A args : Piece(next, args) = ArgsSoFar(name, args)
      BY <1>3, <3>1, ArgGoals
    <3>. QED  BY <3>1, <3>2 DEF m
  <2>. HIDE DEF goal
  <2>4. /\ st \in States /\ rest \in Seq(Goals) /\ Joins(g, rest[1])
        /\ \E y \in Seq(Words), v \in Nat :
             LET args == SubSeq(ops, v + 1, v + n) IN
             /\ Waits(rest, st, y, v) /\ Len(st.levels) = v + n
             /\ ArgsSoFar(name, args) \in Seq(Words)
             /\ read \o <<",">> = y \o ArgsSoFar(name, args)
    <3>1. Kind(g) \in {"NextArg", "LastArg"}
      BY <1>4
    <3>2. Uses(todo[1]) = n - 1 /\ \A args : Piece(todo[1], args) = ArgsSoFar(name, args)
      BY <1>4 DEF g
    <3>. QED  BY <1>1, <1>3, <2>2, <3>1, <3>2, ArgHead DEF g, st, rest, ops
  <2>5. PICK y \in Seq(Words), v \in Nat :
             LET args == SubSeq(ops, v + 1, v + n) IN
             /\ Waits(rest, st, y, v) /\ Len(st.levels) = v + n
             /\ ArgsSoFar(name, args) \in Seq(Words)
             /\ read \o <<",">> = y \o ArgsSoFar(name, args)
    BY <2>4
  <2>. DEFINE u == v + n
              args == SubSeq(ops, v + 1, u)
              piece == ArgsSoFar(name, args)
  <2>6. Waits(rest, st, y, v) /\ Len(st.levels) = u /\ piece \in Seq(Words) /\ text = y \o piece
        /\ u \in Nat /\ v <= u
    <3>1. Waits(rest, st, y, v) /\ Len(st.levels) = u /\ piece \in Seq(Words)
          /\ read \o <<",">> = y \o piece
      BY <2>5
    <3>2. more = <<",">>
      BY <1>5
    <3>3. u \in Nat /\ v <= u
      BY <1>3
    <3>. HIDE DEF u, piece, more
    <3>. QED  BY <3>1, <3>2, <3>3
  <2>7. u = v + Uses(goal) /\ Piece(goal, args) = piece
    BY <2>3
  <2>8. Joins(goal, rest[1])
    <3>1. Kind(g) \in PrimaryKinds /\ Kind(goal) \in PrimaryKinds
      BY <1>4, <2>3 DEF PrimaryKinds
    <3>. QED  BY <2>4, <3>1, PrimaryJoins
  <2>9. Len(ops) = u /\ text \in Seq(Words)
    <3>1. Len(ops) = Len(st.levels)
      BY <2>4, StateFields DEF ops
    <3>2. y \o piece \in Seq(Words)
      <4>. HIDE DEF piece
      <4>. QED  BY <2>6, JoinedWords
    <3>. QED  BY <2>6, <3>1, <3>2
  <2>. HIDE DEF u, text
  <2>10. Waits(all, st, text, u)
    <3>1. text = y \o Piece(goal, SubSeq(st.written.operands, v + 1, u)) /\ u <= Len(st.written.operands)
      BY <2>6, <2>7, <2>9 DEF ops
    <3>2. Kind(goal) \notin {"infix", "RightOf", "EndExp"}
      BY <2>3
    <3>. HIDE DEF piece, args
    <3>. QED  BY <2>3, <2>4, <2>6, <2>7, <2>8, <2>9, <3>1, <3>2, Push
  <2>11. all[1] = goal /\ all \in Seq(Goals)
    <3>1. goal \in Goals /\ rest \in Seq(Goals)
      BY <2>3, <2>4
    <3>. QED  BY <3>1, InFront
  <2>12. (Exp \o <<goal>>) \o rest = Exp \o all
    <3>. DEFINE l == <<goal>>
    <3>1. l \in Seq(Goals) /\ Exp \in Seq(Goals)
      BY <2>3, OneWord, GoalsOfExp
    <3>. HIDE DEF l
    <3>2. (Exp \o l) \o rest = Exp \o (l \o rest)
      BY <2>4, <3>1, AssocGoals
    <3>. QED  BY <3>2 DEF l
  <2>. HIDE DEF all
  <2>13. \A ahead : Stands(Exp \o all, st, text, ahead)
    <3>1. Kind(all[1]) \in {"EndExp", "Paren", "NextArg", "LastArg"}
      BY <2>3, <2>11
    <3>. QED  BY <2>4, <2>6, <2>9, <2>10, <3>1, PushExp
  <2>. DEFINE goals == Exp \o <<goal>>
  <2>14. \A ahead \in Tokens : Stands(goals \o rest, st, text, ahead)
    BY <2>12, <2>13
  <2>15. Appending(<<>>, st)
    BY NoNode DEF st
  <2>16. Take(goals, <<>>)
    BY <2>1
  <2>. HIDE DEF goals
  <2>. QED  BY <1>1, <2>14, <2>15, <2>16, TakeText DEF rest, text
<1>6. CASE lookahead # ","
  <2>. DEFINE goal == Skip(")", <<CallNode(name, n, "args")>>)
              all == <<goal>> \o rest
  <2>1. Go(<<goal>>, <<>>)
    BY <1>1, <1>2, <1>6 DEF three
  <2>2. goal \in Goals /\ Shaped(goal) /\ Kind(goal) = "LastArg" /\ Uses(goal) = n - 1
        /\ \A args : Piece(goal, args) = ArgsSoFar(name, args)
    BY <1>1, <1>3, ArgGoals
  <2>. HIDE DEF goal
  <2>3. /\ st \in States /\ rest \in Seq(Goals)
        /\ \E x, y \in Seq(Words), u, v \in Nat :
              /\ Waits(rest, st, y, v) /\ Joins(g, rest[1])
              /\ u = v + Uses(g) /\ Len(st.levels) = u + 1
              /\ x = y \o Piece(g, SubSeq(st.written.operands, v + 1, u))
              /\ read = x \o st.written.operands[u + 1]
    BY <1>1, <1>4, TakingHead DEF g, st, rest
  <2>4. PICK x \in Seq(Words), y \in Seq(Words), u \in Nat, v \in Nat :
              /\ Waits(rest, st, y, v) /\ Joins(g, rest[1])
              /\ u = v + Uses(g) /\ Len(st.levels) = u + 1
              /\ x = y \o Piece(g, SubSeq(st.written.operands, v + 1, u))
              /\ read = x \o st.written.operands[u + 1]
    BY <2>3
  <2>5. Joins(goal, rest[1])
    <3>1. Kind(g) \in PrimaryKinds /\ Kind(goal) \in PrimaryKinds
      BY <1>4, <2>2 DEF PrimaryKinds
    <3>. QED  BY <2>4, <3>1, PrimaryJoins
  <2>6. u <= Len(st.written.operands) /\ v <= u
    <3>1. Len(st.written.operands) = Len(st.levels)
      BY <2>3, StateFields
    <3>2. u = v + (n - 1)
      BY <1>4, <2>4
    <3>. QED  BY <1>1, <1>3, <2>4, <3>1, <3>2
  <2>7. Waits(all, st, x, u)
    <3>1. x = y \o Piece(goal, SubSeq(st.written.operands, v + 1, u)) /\ u = v + Uses(goal)
      BY <1>4, <2>2, <2>4
    <3>2. Kind(goal) \notin {"infix", "RightOf", "EndExp"}
      BY <2>2
    <3>. QED  BY <2>2, <2>3, <2>4, <2>5, <2>6, <3>1, <3>2, Push
  <2>8. all[1] = goal
    BY <2>2, <2>3, InFront
  <2>. HIDE DEF all
  <2>9. HeadWaits(all, st, x, u, read, lookahead)
    <3>1. Takes(goal) /\ Kind(goal) # "Ahead"
      BY <2>2 DEF Takes, TakingKinds
    <3>2. Due(all, read) = read
      BY <2>8, <3>1 DEF Due
    <3>3. Held(goal, st.levels[u + 1], lookahead)
      <4>1. goal.do # "Remaining"
        BY DEF goal, Skip
      <4>. QED  BY <2>2, <4>1 DEF Held
    <3>. QED  BY <2>4, <2>8, <3>1, <3>2, <3>3 DEF HeadWaits
  <2>10. Stands(all, st, read, lookahead)
    BY <2>3, <2>4, <2>7, <2>9 DEF Stands
  <2>11. Appending(<<>>, st)
    BY NoNode DEF st
  <2>. QED  BY <1>1, <2>1, <2>10, <2>11, GoText DEF rest, all
<1>. QED  BY <1>5, <1>6

LEMMA MoreArgsText ==
  ASSUME IInv, TextInv, ParseMoreArgs
  PROVE  TextInv'
  BY FirstArgText, NextArgText

-----------------------------------------------------------------------------
(* Operators                                                               *)

(* A goal that takes an operand and uses what it did is about to take it.  *)
LEMMA TakingStands ==
  ASSUME NEW goals, NEW st \in States, NEW x \in Seq(Words), NEW u \in Nat, NEW text, NEW ahead,
         Waits(goals, st, x, u), Takes(goals[1]), Kind(goals[1]) # "Ahead", Len(st.levels) = u + 1,
         text = x \o st.written.operands[u + 1], Held(goals[1], st.levels[u + 1], ahead)
  PROVE  Stands(goals, st, text, ahead)
<1>1. Due(goals, text) = text
  BY DEF Due
<1>. QED  BY <1>1 DEF Stands, HeadWaits

LEMMA ThreeGoals ==
  ASSUME NEW a \in Goals, NEW b \in Goals, NEW c \in Goals, NEW s \in Seq(Goals)
  PROVE  <<a, b, c>> \o s = <<a>> \o (<<b>> \o (<<c>> \o s))
<1>. DEFINE x == <<a>>
            y == <<b>>
            z == <<c>>
            t == <<a, b, c>>
            p == <<a, b>>
            zs == z \o s
<1>1. x \in Seq(Goals) /\ y \in Seq(Goals) /\ z \in Seq(Goals) /\ p \in Seq(Goals)
  BY OneWord, TwoWords
<1>2. p = x \o y
  BY PairJoined
<1>3. t = p \o z
  BY TuplesJoined
<1>. HIDE DEF x, y, z, t, p
<1>4. (p \o z) \o s = p \o zs /\ zs \in Seq(Goals)
  <2>1. (p \o z) \o s = p \o (z \o s)
    BY <1>1, AssocGoals
  <2>2. z \o s \in Seq(Goals)
    BY <1>1, JoinedGoals
  <2>. QED  BY <2>1, <2>2
<1>. HIDE DEF zs
<1>5. (x \o y) \o zs = x \o (y \o zs)
  <2>1. x \in Seq(Goals) /\ y \in Seq(Goals) /\ zs \in Seq(Goals)
    BY <1>1, <1>4
  <2>. QED  BY <2>1, AssocGoals
<1>6. t \o s = x \o (y \o zs)
  BY <1>2, <1>3, <1>4, <1>5
<1>. QED  BY <1>6 DEF t, x, y, z, zs

LEMMA RemainingText ==
  ASSUME IInv, TextInv, ParseRemaining
  PROVE  TextInv'
<1>. DEFINE g == todo[1]
            st == State(tree)
            rest == Tail(todo)
            ops == st.written.operands
            ahead == Precedence(lookahead)
            more == <<lookahead>>
<1>1. Doing("Remaining")
  BY DEF ParseRemaining
<1>2. /\ status = "running" /\ g.do = "Remaining" /\ Head(todo) = g /\ Kind(g) = "Remaining"
      /\ g \in Goals /\ Shaped(g) /\ lookahead \in Tokens /\ lookahead \in Words
  BY <1>1, HeadKind
<1>3. IF g.prec > ahead THEN Go(<<>>, <<>>) ELSE Take(<<Do("Primary"), RightOf(lookahead), g>>, <<>>)
  BY <1>2 DEF ParseRemaining
<1>4. todo \in Seq(Goals) /\ todo # <<>> /\ g.prec \in 0 .. 6
  BY <1>2, HeadOfText, GoalFields DEF Precedences
<1>5. Takes(g)
  BY <1>2 DEF Takes, TakingKinds
<1>6. /\ st \in States /\ rest \in Seq(Goals)
      /\ \E x, y \in Seq(Words), u, v \in Nat :
              /\ Waits(todo, st, x, u) /\ Waits(rest, st, y, v) /\ Joins(g, rest[1])
              /\ u = v + Uses(g) /\ Len(st.levels) = u + 1
              /\ x = y \o Piece(g, SubSeq(st.written.operands, v + 1, u))
              /\ read = x \o st.written.operands[u + 1]
              /\ Held(g, st.levels[u + 1], lookahead)
  BY <1>2, <1>5, TakingHead
<1>. HIDE DEF g, st, rest
<1>7. PICK x \in Seq(Words), y \in Seq(Words), u \in Nat, v \in Nat :
              /\ Waits(todo, st, x, u) /\ Waits(rest, st, y, v) /\ Joins(g, rest[1])
              /\ u = v + Uses(g) /\ Len(st.levels) = u + 1
              /\ x = y \o Piece(g, SubSeq(st.written.operands, v + 1, u))
              /\ read = x \o st.written.operands[u + 1]
              /\ Held(g, st.levels[u + 1], lookahead)
  BY <1>6
<1>8. u = v /\ x = y
  <2>1. Uses(g) = 0 /\ \A args : Piece(g, args) = <<>>
    BY <1>2 DEF Uses, Piece
  <2>2. y \o <<>> = y
    BY ConcatEmptySeq
  <2>. QED  BY <1>7, <2>1, <2>2
<1>. DEFINE level == st.levels[u + 1]
<1>9. level \in 0 .. 6 /\ ahead \in Int /\ ahead <= 5 /\ level >= g.prec /\ level >= ahead
  <2>1. st.levels \in Seq(0 .. 6)
    BY <1>6, StateFields DEF Precedences
  <2>2. level \in 0 .. 6
    BY <1>7, <2>1
  <2>3. ahead \in Int /\ ahead <= 5
    BY <1>2, Levels0To5
  <2>4. level >= g.prec /\ level >= ahead
    BY <1>2, <1>7 DEF Held
  <2>. QED  BY <2>2, <2>3, <2>4
<1>10. Appending(<<>>, st)
  BY NoNode DEF st
<1>11. CASE g.prec > ahead
  <2>1. Go(<<>>, <<>>)
    BY <1>3, <1>11
  <2>2. Takes(rest[1]) /\ Kind(rest[1]) # "Ahead" /\ Climbs(g, rest[1])
    BY <1>2, <1>7 DEF Joins, Yields, YieldingKinds
  <2>3. Kind(g) \notin PrimaryKinds
    BY <1>2 DEF PrimaryKinds
  <2>4. Kind(rest[1]) \notin {"prefix", "RightOf"} /\ rest[1].do # "Remaining"
    BY <1>2, <2>2, <2>3 DEF Climbs
  <2>. HIDE DEF level, ahead
  <2>5. Kind(rest[1]) = "infix" => level > Level(rest[1]) /\ ahead <= Level(rest[1])
    <3>. SUFFICES ASSUME Kind(rest[1]) = "infix"
                  PROVE  level > Level(rest[1]) /\ ahead <= Level(rest[1])
      OBVIOUS
    <3>1. g.prec = Level(rest[1]) + 1
      BY <2>2 DEF Climbs
    <3>2. Level(rest[1]) \in Int
      <4>1. rest[1] \in Goals /\ Shaped(rest[1])
        <5>1. rest # <<>>
          BY <1>7 DEF Waits, Chained
        <5>2. rest[1] \in Goals
          BY <1>6, <5>1
        <5>3. Shaped(rest[1])
          <6>1. \E T : Chained(rest, st, T)
            BY <1>7 DEF Waits
          <6>2. 1 \in DOMAIN rest
            BY <1>6, <5>1
          <6>. QED  BY <6>1, <6>2 DEF Chained
        <5>. QED  BY <5>2, <5>3
      <4>. DEFINE h == rest[1]
      <4>2. h \in Goals /\ Shaped(h) /\ Kind(h) = "infix"
        BY <4>1
      <4>. HIDE DEF h
      <4>3. h.do = "Emit"
        <5>1. h.do = "Skip" => Kind(h) # "infix"
          <6>. SUFFICES ASSUME h.do = "Skip" PROVE Kind(h) # "infix"
            OBVIOUS
          <6>1. h.nodes \in Seq(TreeNodes)
            BY <4>2, GoalFields
          <6>2. h.nodes # <<>> => h.nodes[1] \in TreeNodes
            BY <6>1
          <6>3. h.nodes # <<>> => h.nodes[1].n # "infix"
            BY <6>2, TreeFields DEF Marks
          <6>. QED  BY <6>3 DEF Kind
        <5>2. h.do # "infix"
          BY <4>2 DEF Goals
        <5>. QED  BY <4>2, <5>1, <5>2 DEF Kind
      <4>4. h.node \in TreeNodes /\ h.node.n = "Call" /\ h.node.form = "infix"
        <5>1. h.node \in TreeNodes
          BY <4>2, <4>3, GoalFields
        <5>. QED  BY <4>2, <4>3, <5>1 DEF Kind
      <4>5. h.node.name \in InfixOps
        BY <4>2, <4>3, <4>4 DEF Shaped
      <4>6. Level(h) = Precedence(h.node.name)
        BY <4>3 DEF Level
      <4>7. Level(h) \in Int
        BY <4>5, <4>6, Levels0To5
      <4>. QED  BY <4>7 DEF h
    <3>. DEFINE p == g.prec
                l == Level(rest[1])
    <3>3. p = l + 1 /\ l \in Int /\ p > ahead /\ level >= p /\ level \in Int /\ ahead \in Int
      BY <1>9, <1>11, <3>1, <3>2
    <3>. HIDE DEF p, l
    <3>4. level > l /\ ahead <= l
      BY <3>3
    <3>. QED  BY <3>4 DEF l
  <2>6. Held(rest[1], level, lookahead)
    BY <2>4, <2>5 DEF Held, ahead
  <2>7. <<>> \o rest = rest
    BY <1>6, ConcatEmptySeq
  <2>8. Stands(rest, st, read, lookahead)
    BY <1>6, <1>7, <1>8, <2>2, <2>6, TakingStands DEF level
  <2>. QED  BY <1>2, <1>10, <2>1, <2>7, <2>8, GoText DEF rest
<1>12. CASE ~(g.prec > ahead)
  <2>. DEFINE a == Do("Primary")
              b == RightOf(lookahead)
              all == <<b>> \o todo
              operand == ops[u + 1]
              text == read \o more
  <2>1. Take(<<a, b, g>>, <<>>)
    BY <1>3, <1>12
  <2>2. lookahead \in InfixOps
    <3>1. ahead >= 0
      <4>. DEFINE p == g.prec
      <4>1. p \in 0 .. 6 /\ ahead \in Int /\ ~(p > ahead)
        BY <1>4, <1>9, <1>12
      <4>. HIDE DEF p, ahead
      <4>. QED  BY <4>1
    <3>. QED  BY <3>1, Levels0To5
  <2>3. b \in Goals /\ Shaped(b) /\ Kind(b) = "RightOf" /\ b.op = lookahead /\ b.do = "RightOf"
    BY <2>2, PlainGoalTypes, PlainShaped, KindOf DEF PlainGoals, RightOf
  <2>4. a \in Goals /\ Shaped(a) /\ Kind(a) = "Primary"
    BY GoalsOfExp, KindOf
  <2>. HIDE DEF a, b, ahead, level
  <2>5. Uses(b) = 1 /\ Level(b) = ahead /\ \A args : Piece(b, args) = args[1] \o <<lookahead>>
    BY <2>3 DEF Uses, Level, Piece, ahead
  <2>6. Joins(b, g)
    <3>1. Yields(b) /\ ~IsBottom(g) /\ Kind(g) # "Ahead"
      BY <1>2, <2>3 DEF Yields, YieldingKinds, IsBottom, BottomKinds
    <3>2. Level(b) >= g.prec
      <4>. DEFINE p == g.prec
      <4>1. p \in Int /\ ahead \in Int /\ ~(p > ahead)
        BY <1>4, <1>9, <1>12
      <4>. HIDE DEF p
      <4>2. ahead >= p
        BY <4>1
      <4>. QED  BY <2>5, <4>2 DEF p
    <3>3. Climbs(b, g)
      BY <1>2, <2>3, <3>2 DEF Climbs
    <3>. QED  BY <1>5, <3>1, <3>3 DEF Joins
  <2>7. ops \in Seq(Texts) /\ Len(ops) = u + 1
    BY <1>6, <1>7, StateFields
  <2>8. operand \in Seq(Words) /\ read = x \o operand /\ SubSeq(ops, u + 1, u + 1)[1] = operand
    <3>. HIDE DEF ops
    <3>1. operand \in Texts
      BY <2>7
    <3>2. SubSeq(ops, u + 1, u + 1)[1] = operand
      <4>1. SubSeq(ops, u + 1, u + 1) = Append(SubSeq(ops, u + 1, u), operand)
        BY <2>7, OneMore
      <4>2. SubSeq(ops, u + 1, u) = <<>>
        BY EmptySubSeq
      <4>. HIDE DEF operand
      <4>3. Append(<<>>, operand)[1] = operand
        OBVIOUS
      <4>. QED  BY <4>1, <4>2, <4>3
    <3>3. read = x \o operand
      BY <1>7 DEF ops
    <3>. QED  BY <3>1, <3>2, <3>3 DEF Texts
  <2>9. more \in Seq(Words)
    BY <1>2, OneWord
  <2>10. Piece(b, SubSeq(ops, u + 1, u + 1)) = operand \o more
    BY <2>5, <2>8
  <2>. HIDE DEF operand, more
  <2>11. text = x \o (operand \o more) /\ text \in Seq(Words)
    <3>1. (x \o operand) \o more = x \o (operand \o more) /\ (x \o operand) \o more \in Seq(Words)
      BY <2>8, <2>9, Assoc
    <3>. QED  BY <2>8, <3>1
  <2>. HIDE DEF text
  <2>12. Waits(all, st, text, u + 1)
    <3>. DEFINE w == u + 1
    <3>1. w \in Nat /\ w = u + Uses(b) /\ w <= Len(st.written.operands) /\ u <= w
      BY <2>5, <2>7
    <3>2. text = x \o Piece(b, SubSeq(st.written.operands, u + 1, w))
      BY <2>10, <2>11
    <3>3. st.levels[w] >= Level(b)
      BY <1>9, <2>5 DEF level
    <3>4. Joins(b, todo[1]) /\ Kind(b) # "EndExp"
      BY <2>3, <2>6 DEF g
    <3>. HIDE DEF w
    <3>5. Waits(all, st, text, w)
      BY <1>6, <1>7, <2>3, <2>11, <3>1, <3>2, <3>3, <3>4, Push
    <3>. QED  BY <3>5 DEF w
  <2>13. all[1] = b /\ all \in Seq(Goals)
    BY <1>4, <2>3, InFront
  <2>14. <<a, b, g>> \o rest = <<a>> \o all
    <3>1. <<a, b, g>> \o rest = <<a>> \o (<<b>> \o (<<g>> \o rest))
      <4>1. a \in Goals /\ b \in Goals /\ g \in Goals /\ rest \in Seq(Goals)
        BY <1>2, <1>6, <2>3, <2>4
      <4>. QED  BY <4>1, ThreeGoals
    <3>2. <<g>> \o rest = todo
      <4>1. <<Head(todo)>> \o Tail(todo) = todo
        BY <1>4
      <4>. QED  BY <1>2, <4>1 DEF rest
    <3>. QED  BY <3>1, <3>2
  <2>15. Piece(a, <<>>) = <<>> /\ text \o <<>> = text
    <3>1. Piece(a, <<>>) = <<>>
      BY <2>4 DEF Piece
    <3>. QED  BY <2>11, <3>1, ConcatEmptySeq
  <2>. HIDE DEF all
  <2>16. \A t : Stands(<<a>> \o all, st, text, t)
    <3>. DEFINE w == u + 1
    <3>1. w \in Nat /\ Len(st.levels) = w /\ Waits(all, st, text, w)
      BY <1>7, <2>12
    <3>2. Takes(all[1]) /\ Kind(all[1]) # "infix" /\ text = text \o Piece(a, <<>>)
      BY <2>3, <2>13, <2>15 DEF Takes, TakingKinds
    <3>. HIDE DEF w
    <3>. QED  BY <1>6, <2>4, <2>11, <3>1, <3>2, PushPrimary
  <2>17. \A t \in Tokens : Stands(<<a, b, g>> \o rest, st, text, t)
    BY <2>14, <2>16
  <2>. QED  BY <1>2, <1>10, <2>1, <2>17, TakeText DEF rest, text, more
<1>. QED  BY <1>11, <1>12

(* The right operand is taken by the call, or by an operator that binds    *)
(* tighter first.                                                          *)
LEMMA InfixGoal ==
  ASSUME NEW op \in InfixOps
  PROVE  LET call == Emit(CallNode(op, 2, "infix")) IN
         /\ call \in Goals /\ Shaped(call) /\ Kind(call) = "infix" /\ Uses(call) = 1
         /\ call.do = "Emit" /\ Level(call) = Precedence(op)
         /\ \A args : Piece(call, args) = args[1] \o <<op>>
<1>. DEFINE node == CallNode(op, 2, "infix")
            call == Emit(node)
<1>1. node \in TreeNodes /\ node.n = "Call" /\ node.form = "infix" /\ node.args = 2 /\ node.name = op
  <2>1. op \in Tokens
    BY TokensAssumption DEF Tokens, Operators
  <2>2. node \in TreeNodes
    BY <2>1, NodeTypes DEF Forms
  <2>. QED  BY <2>2 DEF CallNode
<1>. HIDE DEF node
<1>2. call \in Goals /\ call.do = "Emit" /\ call.node = node
  <2>1. call \in Goals
    BY <1>1, PlainGoalTypes DEF PlainGoals
  <2>. QED  BY <2>1 DEF Emit
<1>3. Kind(call) = "infix"
  BY <1>1, KindOf
<1>. HIDE DEF call
<1>4. Shaped(call)
  BY <1>1, <1>2 DEF Shaped
<1>5. Uses(call) = 1 /\ Level(call) = Precedence(op) /\ \A args : Piece(call, args) = args[1] \o <<op>>
  BY <1>1, <1>2, <1>3 DEF Uses, Piece, Level
<1>. QED  BY <1>2, <1>3, <1>4, <1>5 DEF call, node

LEMMA RightOfText ==
  ASSUME IInv, TextInv, ParseRightOf
  PROVE  TextInv'
<1>. DEFINE g == todo[1]
            op == g.op
            p == Precedence(op)
            ahead == Precedence(lookahead)
            call == Emit(CallNode(op, 2, "infix"))
            more == Remaining(p + 1)
            st == State(tree)
            rest == Tail(todo)
            ops == st.written.operands
            all == <<call>> \o rest
<1>1. Doing("RightOf")
  BY DEF ParseRightOf
<1>2. /\ status = "running" /\ g.do = "RightOf" /\ Head(todo) = g /\ Kind(g) = "RightOf"
      /\ g \in Goals /\ Shaped(g) /\ lookahead \in Tokens
  BY <1>1, HeadKind
<1>3. IF ahead > p THEN Go(<<more, call>>, <<>>) ELSE Go(<<call>>, <<>>)
  BY <1>2 DEF ParseRightOf
<1>4. op \in InfixOps
  BY <1>2, GoalFields
<1>5. Takes(g)
  BY <1>2 DEF Takes, TakingKinds
<1>6. /\ st \in States /\ rest \in Seq(Goals) /\ rest # <<>>
      /\ \E x, y \in Seq(Words), u, v \in Nat :
              /\ Waits(todo, st, x, u) /\ Waits(rest, st, y, v) /\ Joins(g, rest[1])
              /\ u = v + Uses(g) /\ Len(st.levels) = u + 1
              /\ x = y \o Piece(g, SubSeq(st.written.operands, v + 1, u))
              /\ read = x \o st.written.operands[u + 1]
              /\ Held(g, st.levels[u + 1], lookahead)
              /\ Kind(g) \in {"infix", "RightOf"} => st.levels[u] >= Level(g)
              /\ Kind(g) = "EndExp" => st.written.close = <<g.token>>
  BY <1>2, <1>5, TakingHead
<1>7. Appending(<<>>, st)
  BY NoNode
<1>8. Uses(g) = 1 /\ Level(g) = p /\ \A args : Piece(g, args) = args[1] \o <<op>>
  BY <1>2 DEF Uses, Level, Piece
<1>. HIDE DEF g, st, rest
<1>9. PICK x \in Seq(Words), y \in Seq(Words), u \in Nat, v \in Nat :
              /\ Waits(rest, st, y, v) /\ Joins(g, rest[1])
              /\ u = v + Uses(g) /\ Len(st.levels) = u + 1
              /\ x = y \o Piece(g, SubSeq(st.written.operands, v + 1, u))
              /\ read = x \o st.written.operands[u + 1]
              /\ Held(g, st.levels[u + 1], lookahead)
              /\ st.levels[u] >= Level(g)
  BY <1>2, <1>6
<1>10. /\ call \in Goals /\ Shaped(call) /\ Kind(call) = "infix" /\ Uses(call) = 1
       /\ call.do = "Emit" /\ Level(call) = p
       /\ \A args : Piece(call, args) = args[1] \o <<op>>
  <2>. HIDE DEF op
  <2>. QED  BY <1>4, InfixGoal
<1>11. p \in 0 .. 5 /\ ahead \in Int /\ ahead <= 5
  <2>. HIDE DEF op
  <2>. QED  BY <1>2, <1>4, Levels0To5
<1>12. st.levels[u + 1] = Primary
  BY <1>2, <1>9 DEF Held
<1>. HIDE DEF op, call, ahead, p
<1>13. Joins(call, rest[1]) /\ Takes(call)
  <2>1. Yields(g) /\ Yields(call) /\ Takes(call) /\ Kind(g) \notin PrimaryKinds /\ g.do # "Remaining"
    BY <1>2, <1>10 DEF Yields, YieldingKinds, Takes, TakingKinds, PrimaryKinds
  <2>. QED  BY <1>2, <1>8, <1>9, <1>10, <2>1 DEF Joins, Climbs
<1>14. Waits(all, st, x, u)
  <2>1. u = v + Uses(call) /\ v <= u /\ u <= Len(st.written.operands)
    <3>1. Len(st.written.operands) = u + 1
      BY <1>6, <1>9, StateFields
    <3>2. u = v + 1
      BY <1>8, <1>9
    <3>. QED  BY <1>10, <3>1, <3>2
  <2>2. x = y \o Piece(call, SubSeq(st.written.operands, v + 1, u))
    BY <1>8, <1>9, <1>10
  <2>3. st.levels[u] >= Level(call) /\ Kind(call) # "EndExp"
    BY <1>8, <1>9, <1>10
  <2>. QED  BY <1>6, <1>9, <1>10, <1>13, <2>1, <2>2, <2>3, Push
<1>15. all[1] = call /\ all \in Seq(Goals)
  BY <1>6, <1>10, InFront
<1>. HIDE DEF all
<1>16. CASE ahead > p
  <2>. DEFINE goals == <<more>> \o all
  <2>1. Go(<<more, call>>, <<>>)
    BY <1>3, <1>16
  <2>2. more \in Goals /\ Shaped(more) /\ Kind(more) = "Remaining" /\ more.prec = p + 1 /\ more.do = "Remaining"
    <3>1. p + 1 \in Precedences
      BY <1>11 DEF Precedences
    <3>. QED  BY <3>1, PlainGoalTypes, PlainShaped, KindOf DEF PlainGoals, Remaining
  <2>. HIDE DEF more
  <2>3. Uses(more) = 0 /\ Piece(more, <<>>) = <<>> /\ Takes(more)
    BY <2>2 DEF Uses, Piece, Takes, TakingKinds
  <2>4. Joins(more, call)
    <3>1. Yields(more)
      BY <2>2 DEF Yields, YieldingKinds
    <3>2. Climbs(more, call)
      BY <1>10, <2>2 DEF Climbs
    <3>. QED  BY <1>10, <1>13, <3>1, <3>2 DEF Joins
  <2>5. Waits(goals, st, x, u)
    <3>1. x = x \o Piece(more, <<>>)
      BY <1>9, <2>3, ConcatEmptySeq
    <3>2. u <= Len(st.levels) /\ Kind(more) \notin {"infix", "RightOf", "EndExp"}
      BY <1>9, <2>2
    <3>. QED  BY <1>6, <1>14, <1>15, <2>2, <2>3, <2>4, <3>1, <3>2, PushZero
  <2>6. goals[1] = more /\ <<more, call>> \o rest = goals
    <3>1. goals[1] = more
      BY <1>15, <2>2, InFront
    <3>2. <<more, call>> \o rest = goals
      <4>1. more \in Goals /\ call \in Goals /\ rest \in Seq(Goals)
        BY <1>6, <1>10, <2>2
      <4>. QED  BY <4>1, GoalsJoined DEF all
    <3>. QED  BY <3>1, <3>2
  <2>7. Held(more, st.levels[u + 1], lookahead)
    <3>1. Primary >= p + 1 /\ Primary >= ahead
      BY <1>11 DEF Primary
    <3>. QED  BY <1>12, <2>2, <3>1 DEF Held, ahead
  <2>. HIDE DEF goals
  <2>8. Stands(goals, st, read, lookahead)
    <3>1. Takes(goals[1]) /\ Kind(goals[1]) # "Ahead" /\ Held(goals[1], st.levels[u + 1], lookahead)
      BY <2>2, <2>3, <2>6, <2>7
    <3>. QED  BY <1>6, <1>9, <2>5, <3>1, TakingStands
  <2>. QED  BY <1>2, <1>7, <2>1, <2>6, <2>8, GoText DEF rest
<1>17. CASE ~(ahead > p)
  <2>1. Go(<<call>>, <<>>)
    BY <1>3, <1>17
  <2>2. Held(call, st.levels[u + 1], lookahead)
    <3>1. Primary > p /\ ahead <= p
      BY <1>11, <1>17 DEF Primary
    <3>. QED  BY <1>10, <1>12, <3>1 DEF Held, ahead
  <2>3. Stands(all, st, read, lookahead)
    <3>1. Takes(all[1]) /\ Kind(all[1]) # "Ahead" /\ Held(all[1], st.levels[u + 1], lookahead)
      BY <1>10, <1>13, <1>15, <2>2
    <3>. QED  BY <1>6, <1>9, <1>14, <3>1, TakingStands
  <2>. QED  BY <1>2, <1>7, <2>1, <2>3, GoText DEF rest, all
<1>. QED  BY <1>16, <1>17

-----------------------------------------------------------------------------
LEMMA TextInit ==
  ASSUME Init
  PROVE  TextInv
<1>. DEFINE st == State(tree)
            a == Do("FuncDef")
            b == Program(0)
<1>1. /\ tree = <<>> /\ read = <<>> /\ status = "running"
      /\ todo = <<a, b>>
  BY DEF Init
<1>2. st = [written |-> Nothing, levels |-> <<>>] /\ st \in States
  BY <1>1, StateEmpty
<1>3. st.levels = <<>> /\ st.written.printed = <<>>
  BY <1>2 DEF Nothing
<1>4. b \in Goals /\ Shaped(b) /\ IsBottom(b)
  BY BottomGoals
<1>5. a \in Goals /\ Shaped(a) /\ Kind(a) = "FuncDef"
  BY PlainGoalTypes, PlainShaped, KindOf DEF PlainGoals
<1>. HIDE DEF st, a, b
<1>6. Waits(<<b>>, st, st.written.printed, 0)
  BY <1>2, <1>4, LastWaits
<1>7. <<b>>[1] = b /\ <<a>> \o <<b>> = <<a, b>>
  BY <1>4, <1>5, PairJoined
<1>8. Piece(a, <<>>) = <<>> /\ Kind(a) \in BegunKinds \cup BottomKinds
  BY <1>5 DEF Piece, BegunKinds
<1>9. st.written.printed \in Seq(Words) /\ st.written.printed = st.written.printed \o Piece(a, <<>>)
  <2>1. st.written.printed \in Seq(Words)
    BY <1>2, StateFields
  <2>. QED  BY <1>8, <2>1, ConcatEmptySeq
<1>. DEFINE goals == <<b>>
            x == st.written.printed
<1>10. IsBottom(goals[1]) /\ Waits(goals, st, x, 0) /\ x \in Seq(Words) /\ x = x \o Piece(a, <<>>)
  BY <1>4, <1>6, <1>7, <1>9
<1>. HIDE DEF goals
<1>11. \A ahead : Stands(<<a>> \o goals, st, x, ahead)
  BY <1>2, <1>3, <1>5, <1>8, <1>10, PushBegun
<1>12. Stands(todo, st, read, lookahead)
  BY <1>1, <1>3, <1>7, <1>11 DEF goals
<1>. QED  BY <1>1, <1>12 DEF TextInv, st

LEMMA TextNext ==
  ASSUME IInv, TextInv, [Next \/ Returned]_vars
  PROVE  TextInv'
<1>1. CASE SkipToken \/ EmitNode
  BY <1>1, SkipTokenText, EmitText
<1>2. CASE ParseFunction
  BY <1>2, FuncDefText, FuncIdText, OperatorIdText, ParamsText, VarDeclText, VarIdText, BodyText,
     NextFuncDefText DEF ParseFunction
<1>3. CASE ParseStatement
  BY <1>3, SeqText, StmtsText, StmtText, AssignOrCallText, LocalText, ElseText DEF ParseStatement
<1>4. CASE ParseExpression
  BY <1>4, PrimaryText, VarOrCallText, UnaryOpText, ArgsGoalText, MoreArgsText, RemainingText,
     RightOfText DEF ParseExpression
<1>5. CASE UNCHANGED vars
  <2>1. read' = read /\ lookahead' = lookahead /\ todo' = todo /\ tree' = tree /\ status' = status
    BY <1>5 DEF vars
  <2>. QED  BY <2>1 DEF TextInv
<1>. QED  BY <1>1, <1>2, <1>3, <1>4, <1>5 DEF Next, Returned

-----------------------------------------------------------------------------
(* What an accepted program says                                           *)

LEMMA TextIsTree ==
  ASSUME IInv, TextInv
  PROVE  TreeIsTheText
<1>. SUFFICES ASSUME status = "ok" PROVE Append(Text(tree, TRUE), EOF) = Append(read, lookahead)
  BY DEF TreeIsTheText
<1>1. tree \in Seq(TreeNodes)
  BY DEF IInv, TypeOK
<1>2. Text(tree, TRUE) = Written(tree).printed
  BY <1>1, TextIsFolded
<1>3. read = Written(tree).printed /\ lookahead = EOF
  BY DEF TextInv
<1>. QED  BY <1>2, <1>3

LEMMA LevelsClimb ==
  ASSUME IInv, TextInv
  PROVE  PrecedenceClimbs
<1>. SUFFICES ASSUME status = "ok" PROVE FoldLeft(Binding, <<>>, tree) # Loose
  BY DEF PrecedenceClimbs
<1>1. tree \in Seq(TreeNodes)
  BY DEF IInv, TypeOK
<1>2. FoldLeft(Binding, <<>>, tree) = Levels(tree)
  BY <1>1, LevelsAreFolded
<1>. DEFINE st == State(tree)
<1>3. st \in States /\ st.levels = Levels(tree)
  BY DEF TextInv, State
<1>. HIDE DEF st
<1>4. st.levels # Loose
  BY <1>3, StateFields
<1>. QED  BY <1>2, <1>3, <1>4

(* A plain node is written like it is dumped.                              *)
LEMMA PlainText ==
  ASSUME NEW node \in TreeNodes, IsPlain(node)
  PROVE  \A y : PrintNode(y, node, FALSE) = PrintNode(y, node, TRUE)
<1>1. CASE node.n = "Func"
  <2>. DEFINE def == node.def
              list == CommaList(VarTexts(def))
              name == <<def.name, "(">>
              end == <<")">>
  <2>1. def \in FuncDefs /\ def.body /\ ~IsOperator(def.name)
    BY <1>1, TreeFields DEF IsPlain
  <2>. HIDE DEF def
  <2>2. def.ret \in Words /\ def.name \in Words /\ "(" \in Words
    <3>1. def.ret \in Types /\ def.name \in FuncNames
      BY <2>1, DefFields
    <3>2. "(" \in Words
      BY TokenWords DEF Punctuation
    <3>. QED  BY <3>1, <3>2, TokenWords
  <2>3. Definition(def) = (<<def.ret, def.name, "(">> \o list) \o end
    BY <2>1 DEF Definition, Header, VarTexts
  <2>4. SourceDefinition(def) = (Signed(def) \o end) \o <<>>
    <3>1. SourceDefinition(def) = (Signed(def) \o <<")">>) \o (IF def.body THEN <<>> ELSE <<";">>)
      BY <2>1, DefinitionText
    <3>. QED  BY <2>1, <3>1
  <2>5. Signed(def) = (Named(def) \o name) \o list /\ Signed(def) \in Seq(Words)
    BY <2>1, SignedTyped
  <2>6. Named(def) = <<def.ret>>
    <3>. DEFINE ret == <<def.ret>>
    <3>1. Named(def) = ret \o <<>>
      BY <2>1 DEF Named
    <3>2. ret \in Seq(Words)
      BY <2>2, OneWord
    <3>. HIDE DEF ret
    <3>3. Named(def) = ret
      BY <3>1, <3>2, ConcatEmptySeq
    <3>. QED  BY <3>3 DEF ret
  <2>7. Named(def) \o name = <<def.ret, def.name, "(">>
    BY <2>2, <2>6, TuplesJoined
  <2>8. (Signed(def) \o end) \o <<>> = Signed(def) \o end
    <3>1. end \in Seq(Words)
      BY PunctuationText DEF Punctuation
    <3>. HIDE DEF end
    <3>2. Signed(def) \o end \in Seq(Words)
      BY <2>5, <3>1, JoinedWords
    <3>. QED  BY <3>2, ConcatEmptySeq
  <2>. HIDE DEF list, name, end
  <2>9. Definition(def) = SourceDefinition(def)
    BY <2>3, <2>4, <2>5, <2>7, <2>8
  <2>. QED  BY <1>1, <2>9 DEF PrintNode, def
<1>2. CASE node.n = "Call"
  <2>1. node.form = "args"
    BY <1>2 DEF IsPlain
  <2>2. \A args : SourceCall(node, args) = CallText(node, args)
    BY <2>1 DEF SourceCall
  <2>. QED  BY <1>2, <2>2 DEF PrintNode
<1>3. CASE node.n \notin {"Func", "Call"}
  <2>1. node.n # "Paren"
    BY DEF IsPlain
  <2>. QED  BY <1>3, <2>1 DEF PrintNode
<1>. QED  BY <1>1, <1>2, <1>3

LEMMA PlainIsDumped ==
  ASSUME IInv, TextInv
  PROVE  DumpIsTheText
<1>. SUFFICES ASSUME status = "ok", \A i \in DOMAIN tree : IsPlain(tree[i])
              PROVE  Printed(tree) = read
  BY DEF DumpIsTheText
<1>1. tree \in Seq(TreeNodes) /\ Len(tree) \in Nat /\ DOMAIN tree = 1 .. Len(tree)
  BY DEF IInv, TypeOK
<1>. DEFINE n == Len(tree)
<1>2. Printed(tree) = Folded(tree, n, "dump").printed
  BY <1>1, TextIsFolded DEF Printed
<1>3. Start("dump") = Start("source")
  BY DEF Start
<1>4. \A i \in 1 .. n : \A y : Step("dump", y, tree[i]) = Step("source", y, tree[i])
  <2>. SUFFICES ASSUME NEW i \in 1 .. n, NEW y
                PROVE  Step("dump", y, tree[i]) = Step("source", y, tree[i])
    OBVIOUS
  <2>1. tree[i] \in TreeNodes /\ IsPlain(tree[i])
    BY <1>1
  <2>2. PrintNode(y, tree[i], FALSE) = PrintNode(y, tree[i], TRUE)
    BY <2>1, PlainText
  <2>. QED  BY <2>2 DEF Step
<1>5. Folded(tree, n, "dump") = Folded(tree, n, "source")
  <2>. HIDE DEF n
  <2>1. n \in Nat
    BY <1>1 DEF n
  <2>. QED  BY <1>3, <1>4, <2>1, SameFold
<1>6. read = Written(tree).printed
  BY DEF TextInv
<1>. QED  BY <1>2, <1>5, <1>6 DEF Written

-----------------------------------------------------------------------------
(* Whatever the text, a program that is accepted is, token by token, what  *)
(* its tree says: nothing is skipped, doubled, left over, or put in        *)
(* another order (TokenStream.h:5-10, Parser.cpp:386-389).                 *)
THEOREM TextOfTheTree == Spec => []TreeIsTheText
<1>1. Init => IInv /\ TextInv
  BY InitInv, TextInit
<1>2. IInv /\ TextInv /\ [Next \/ Returned]_vars => (IInv /\ TextInv)'
  BY StepInv, TextNext
<1>3. IInv /\ TextInv => TreeIsTheText
  BY TextIsTree
<1>. QED  BY <1>1, <1>2, <1>3, PTL DEF Spec

(* Whatever the text, no operator of an accepted program has an operand    *)
(* that binds looser by the documented levels (grammar.txt:52-75), nor a   *)
(* right one that binds alike; of % only the level of + is asked           *)
(* (Parser.cpp:130-134).                                                   *)
THEOREM OperatorsClimb == Spec => []PrecedenceClimbs
<1>1. Init => IInv /\ TextInv
  BY InitInv, TextInit
<1>2. IInv /\ TextInv /\ [Next \/ Returned]_vars => (IInv /\ TextInv)'
  BY StepInv, TextNext
<1>3. IInv /\ TextInv => PrecedenceClimbs
  BY LevelsClimb
<1>. QED  BY <1>1, <1>2, <1>3, PTL DEF Spec

(* Whatever the text, the dump of an accepted program that is written      *)
(* without operators, parentheses and bodiless declarations is that        *)
(* program (main.cpp:238-245).                                             *)
THEOREM DumpOfPlainText == Spec => []DumpIsTheText
<1>1. Init => IInv /\ TextInv
  BY InitInv, TextInit
<1>2. IInv /\ TextInv /\ [Next \/ Returned]_vars => (IInv /\ TextInv)'
  BY StepInv, TextNext
<1>3. IInv /\ TextInv => DumpIsTheText
  BY PlainIsDumped
<1>. QED  BY <1>1, <1>2, <1>3, PTL DEF Spec
=============================================================================
