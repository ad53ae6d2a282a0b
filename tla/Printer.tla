------------------------------- MODULE Printer ------------------------------
(***************************************************************************)
(* The dump of a program (Printer.cpp), as the tokens that it consists of: *)
(* layout is left out.  The printers visit the tree like the other         *)
(* passes, so that the text of a node follows that of the nodes before it; *)
(* the texts of operands wait for the call that takes them.                *)
(***************************************************************************)
EXTENDS Tokens, SequencesExt

\* printed: the text so far; operands: texts of the operands that no call has
\* taken yet; close: what follows the expression of the current statement.
Nothing == [printed |-> <<>>, operands |-> <<>>, close |-> <<>>]

Write(st, text)   == [st EXCEPT !.printed = @ \o text]
Open(st, text, t) == [Write(st, text) EXCEPT !.close = <<t>>]
Operand(st, text) == [st EXCEPT !.operands = Append(@, text)]

\* Texts with a comma between them.
CommaList(texts) ==
  FoldLeft(LAMBDA list, text : IF list = <<>> THEN text ELSE list \o <<",">> \o text,
           <<>>, texts)

VarText(p) == <<p.type, p.name>>

Header(def) ==
  <<def.ret, def.name, "(">> \o CommaList([i \in DOMAIN def.params |-> VarText(def.params[i])])
    \o <<")">>

CallText(node, args) == <<node.name, "(">> \o CommaList(args) \o <<")">>

\* Mutation of Definition: the return type is forgotten.
DefinitionUntyped(def) == IF def.body THEN Tail(Header(def)) ELSE <<>>

\* Functions without a body are not printed.
Definition(def) == IF def.body THEN Header(def) ELSE <<>>

\* How the source writes the same: Parser keeps the form of a call.
SourceCall(node, args) ==
  CASE node.form = "infix"  -> args[1] \o <<node.name>> \o args[2]
    [] node.form = "prefix" -> <<"-", node.name>> \o args[1]
    [] node.form = "args"   -> CallText(node, args)

SourceParen(text) == <<"(", "(">> \o text \o <<")">>

SourceDefinition(def) ==
  <<def.ret>> \o (IF IsOperator(def.name) THEN <<"operator">> ELSE <<>>)
    \o Tail(Header(def)) \o (IF def.body THEN <<>> ELSE <<";">>)

PrintNode(st, node, source) ==
  LET n          == Len(st.operands)
      Call(args) == IF source THEN SourceCall(node, args) ELSE CallText(node, args)
  IN
  CASE node.n = "Func"     -> Write(st, IF source THEN SourceDefinition(node.def) ELSE Definition(node.def))
    [] node.n = "Seq"      -> Write(st, <<"{">>)
    [] node.n = "EndSeq"   -> Write(st, <<"}">>)
    [] node.n = "Decl"     -> IF node.init
                              THEN Open(st, VarText(node) \o <<"=">>, ";")
                              ELSE Write(st, VarText(node) \o <<";">>)
    [] node.n = "Assign"   -> Open(st, <<node.name, "=">>, ";")
    [] node.n = "Return"   -> Open(st, <<"return">>, ";")
    [] node.n = "CallStmt" -> Open(st, <<>>, ";")
    [] node.n = "If"       -> Open(st, <<"if", "(">>, ")")
    [] node.n = "Else"     -> Write(st, <<"else">>)
    [] node.n = "While"    -> Open(st, <<"while", "(">>, ")")
    [] node.n = "Const"    -> Operand(st, <<node.text>>)
    [] node.n = "Var"      -> Operand(st, <<node.name>>)
    [] node.n = "Call"     -> [st EXCEPT !.operands =
                                 Append(SubSeq(@, 1, n - node.args),
                                        Call(SubSeq(@, n - node.args + 1, n)))]
    [] node.n = "Paren"    -> [st EXCEPT !.operands[n] = IF source THEN SourceParen(@) ELSE @]
    [] node.n = "EndExp"   -> [Write(st, Last(st.operands) \o st.close) EXCEPT !.operands = <<>>]
    [] OTHER               -> st

\* The text of the nodes, as the source or as the dump has it.
Text(nodes, source) ==
  FoldLeft(LAMBDA st, node : PrintNode(st, node, source), Nothing, nodes).printed

\* The tree does not have the parentheses of the source.
Printed(nodes) == Text(nodes, FALSE)
=============================================================================
