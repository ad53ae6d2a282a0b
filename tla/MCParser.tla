------------------------------ MODULE MCParser ------------------------------
(* Instances of Parser for TLC: the texts that it is given.                *)
EXTENDS Parser

CONSTANTS
  ExpTokens,   \* what the expressions and
  StmtTokens,  \* the statements of the texts consist of,
  MaxExp,      \* how many tokens they
  MaxStmt,     \* may have at most,
  MaxOps       \* and how many operators a chain of them may have

\* int f() { return <any tokens>
\* int g() <any tokens>
\* int k() { return x <operator> x <operator> x ... ; }
\* int h <one of the sentences of the grammar>
ExpText  == <<"int", "f", "(", ")", "{", "return">>
StmtText == <<"int", "g", "(", ")">>
OpsText  == <<"int", "k", "(", ")", "{", "return">>

Opening == {ExpText, StmtText, OpsText}

\* The tokens of the text end where the bound is reached, or earlier.
UpTo(start, tokens, max, s) ==
  IF Len(s) - Len(start) < max THEN tokens \cup {EOF} ELSE {EOF}

\* One operator of every precedence, two that share one, and %.
ChainOps == {"*", "%", "+", "-", "<", "==", "&&", "||"}

Chain(s) ==
  LET n == Len(s) - Len(OpsText) IN
  CASE Last(s) = "}" -> {EOF}
    [] Last(s) = ";" -> {"}"}
    [] n % 2 = 0     -> {"x"}
    [] n > 2 * MaxOps -> {";"}
    [] OTHER         -> ChainOps \cup {";"}

-----------------------------------------------------------------------------
(* Sentences of the grammar as far as the parser agrees with the           *)
(* documents: an opening parenthesis is doubled, and a prefix operator     *)
(* follows a minus sign.                                                   *)

X == <<"x">>
Infix(a, op, b) == a \o <<op>> \o b

Primaries == {X, <<"1">>, <<"true">>, <<"x", "(", ")">>,
              <<"int", "(">> \o Infix(X, "<", X) \o <<",">> \o X \o <<")">>,
              <<"(", "(">> \o Infix(X, "||", X) \o <<")">>,
              <<"-", "!">> \o X, <<"-", "-", "-", "-">> \o X}

Exps == Primaries \cup {Infix(a, op, b) : a, b \in Primaries, op \in {"*", "==", "&&"}}
          \cup {Infix(Infix(X, op, X), oq, X) : op, oq \in InfixOps}

Simple(exp) == {<<"x", "=">> \o exp \o <<";">>, <<"x", "(">> \o exp \o <<")", ";">>,
                <<"bool", "x", "=">> \o exp \o <<";">>, <<"return">> \o exp \o <<";">>}

Compound(s, t) == {<<"{", "}">>, <<"{">> \o s \o t \o <<"}">>, <<"int", "x", ";">>,
                   <<"if", "(", "x", ")">> \o s, <<"while", "(", "x", ")">> \o s,
                   <<"if", "(", "x", ")">> \o s \o <<"else">> \o t}

Stmts1 == UNION {Simple(exp) : exp \in Exps}
Stmts2 == UNION {Compound(s, t) : s, t \in Simple(X)}
Stmts3 == UNION {Compound(s, t) : s, t \in Stmts2}

Signatures == {<<"(", ")">>, <<"(", "int", "x", ")">>, <<"(", "int", "x", ",", "bool", "x", ")">>}

Braced(stmts) == <<"{">> \o stmts \o <<"}">>

Functions(type) ==
       {<<type, "h", "(", ")">> \o Braced(s) : s \in Stmts1 \cup Stmts2 \cup Stmts3}
  \cup {<<type, "h">> \o sig \o body : sig \in Signatures, body \in {Braced(<<>>), <<";">>}}
  \cup {<<type, "operator", op>> \o sig \o <<";">> : sig \in Signatures, op \in OperatorNames}

Sentences == Functions("bool")

PrefixesOf(texts) == UNION {Prefixes(s) : s \in texts}

\* What may follow a prefix of one of the texts.
Continuations(texts) ==
  LET prefixes == PrefixesOf(texts) IN
  [s \in prefixes |-> {t \in Tokens : Append(s, t) \in prefixes}
                        \cup IF s \in texts THEN {EOF} ELSE {}]

OpeningTokens  == Continuations(Opening)
SentenceTokens == Continuations(Sentences)

SomeText(s) ==
  CASE s = <<>>                     -> {"int", "bool"}
    [] s[1] = "bool"                -> IF s \in DOMAIN SentenceTokens THEN SentenceTokens[s] ELSE {EOF}
    [] s \in PrefixesOf(Opening) \ Opening -> OpeningTokens[s]
    [] s[2] = "f"                   -> UpTo(ExpText, ExpTokens, MaxExp, s)
    [] s[2] = "k"                   -> Chain(s)
    [] s[2] = "g"                   -> UpTo(StmtText, StmtTokens, MaxStmt, s)

-----------------------------------------------------------------------------
(* Expressions that the documented grammar has.                            *)
Returning(exp) == ExpText \o exp \o <<";", "}">>

\* Primary expressions (README.md:58-66) ...
Documented == {Returning(exp) : exp \in {<<"(", "x", ")">>, <<"-", "x">>, <<"!", "x">>}}

\* ... and products (grammar.txt:52, 60).
Products == {Returning(Infix(Infix(X, op, X), oq, X)) : op, oq \in {"*", "/", "%", "+"}}

DocumentedTokens == Continuations(Documented)
ProductTokens    == Continuations(Products)

DocumentedText(s) == IF s \in DOMAIN DocumentedTokens THEN DocumentedTokens[s] ELSE {EOF}
ProductText(s)    == IF s \in DOMAIN ProductTokens THEN ProductTokens[s] ELSE {EOF}

\* As Binding, with % held to its documented level, too.
BindingAsDocumented(levels, node) ==
  LET n == Len(levels) IN
  IF /\ levels # Loose /\ node.n = "Call" /\ node.form = "infix"
     /\ levels[n - 1] < BindsAs(node.name) \/ levels[n] <= BindsAs(node.name)
  THEN Loose
  ELSE Binding(levels, node)

(* Sentences of the grammar are accepted: one token of lookahead decides   *)
(* between all alternatives, and every routine consumes as much of the     *)
(* text as its rule says (README.md:34-70, Parser.cpp:39-44).              *)
SentencesAreParsed == read # <<>> /\ read[1] = "bool" => status # "error"

(* The primary expressions of the documented grammar are accepted          *)
(* (README.md:58-66, Parser.cpp:39-44).                                    *)
DocumentedAreParsed == status # "error"

(* An operator % binds as * and / do, and tighter than +: they are all     *)
(* MulOp, which MulExp takes from left to right (grammar.txt:52, 60-64).   *)
ModIsMulOp == status = "ok" => FoldLeft(BindingAsDocumented, <<>>, tree) # Loose
=============================================================================
