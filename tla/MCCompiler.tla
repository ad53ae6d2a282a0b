----------------------------- MODULE MCCompiler -----------------------------
(* Instances of Compiler for TLC: the texts that it is given.              *)
EXTENDS Compiler, SequencesExt

CONSTANTS
  Heads,    \* of the first function of a text,
  Bodies,   \*   its bodies,
  Seconds   \* and the functions that may follow it

IntMain   == <<"int", "main", "(", "int", "x", ")">>
BoolMain  == <<"bool", "main", "(", ")">>
\* The prefix minus can apply the first to one argument.
UnaryPlus == <<"int", "operator", "+", "(", "int", "x", ")">>
\* An operator that is there already.
IntPlus   == <<"int", "operator", "+", "(", "int", "x", ",", "int", "y", ")">>
ToInt     == <<"bool", "operator", "int", "(", "int", "x", ")">>
SameNames == <<"int", "f", "(", "int", "x", ",", "int", "x", ")">>

X == <<"x">>
Exps == {X, <<"1">>, <<"true">>, <<"main", "(", "x", ")">>, <<"main", "(", ")">>,
         <<"-", "!", "true">>, <<"int", "(", "true", ")">>, <<"int", "(", "x", ")">>,
         <<"-", "+", "x">>, <<"x", "+", "x", "*", "x">>, <<"x", "==", "x">>,
         <<"(", "(", "x", ")", "-", "1">>}

Return(exp) == <<"return">> \o exp \o <<";">>
Braced(stmts) == <<"{">> \o stmts \o <<"}">>

\* Every way of using and not using the parameter, the other functions, the
\* builtins, and a return that does not end the function.
SomeBodies ==
       {Braced(Return(exp)) : exp \in Exps}
  \cup {Braced(<<"if", "(", t, ")">> \o Return(exp)) : t \in {"1", "x"}, exp \in {X, <<"true">>}}
  \cup {Braced(<<"if", "(", "true", ")">> \o Return(X) \o <<"else">> \o Return(<<"1">>)),
        Braced(<<"int", "y", ";", "while", "(", "x", "<", "y", ")", "y", "=", "y", "+", "1", ";">>
                 \o Return(<<"y">>)),
        Braced(<<"bool", "x", "=">> \o <<"true", ";">> \o Return(X)),
        Braced(Return(X) \o Return(X)), Braced(<<"main", "(", "x", ")", ";">>), Braced(<<>>)}

SomeHeads == {IntMain, BoolMain, UnaryPlus, IntPlus, ToInt, SameNames}

SomeSeconds ==
       {h \o Braced(Return(e)) : h \in {IntMain, BoolMain},
          e \in {X, <<"1">>, <<"true">>, <<"main", "(", "x", ")">>, <<"main", "(", ")">>,
                 <<"-", "+", "x">>, <<"int", "(", "1", ")">>, <<"true", "+", "true">>}}
  \cup {<<"int", "main", "(", ")", ";">>}

MainBodies == {Braced(Return(exp)) : exp \in {X, <<"1">>, <<"true">>}}

-----------------------------------------------------------------------------
Declared == {<<"int", "main", "(", ")", ";">>,
             <<"int", "operator", "+", "(", "bool", "x", ",", "bool", "y", ")", ";">>}

Firsts == {h \o b : h \in Heads, b \in Bodies} \cup Declared

PrefixesOf(texts) == UNION {Prefixes(s) : s \in texts}

\* What may follow a prefix of one of the texts.
Continuations(texts) ==
  LET prefixes == PrefixesOf(texts) IN
  [s \in prefixes |-> {t \in Tokens : Append(s, t) \in prefixes}]

FirstTokens  == Continuations(Firsts)
SecondTokens == Continuations(Seconds)

\* A first function, a second one or not; or the text ends anywhere.
SomeSource(s) ==
  CASE s # <<>> /\ Last(s) = EOF -> {EOF}
    [] s \in DOMAIN FirstTokens \ Firsts -> FirstTokens[s] \cup {EOF}
    [] OTHER -> LET first == CHOOSE f \in Firsts : IsPrefix(f, s)
                IN  SecondTokens[SubSeq(s, Len(first) + 1, Len(s))] \cup {EOF}
=============================================================================
