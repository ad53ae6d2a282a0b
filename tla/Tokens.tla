------------------------------- MODULE Tokens -------------------------------
(***************************************************************************)
(* Lexical tokens (Token.h).  A token is its text (Token::ToString): the   *)
(* tags of keywords, operators and punctuation correspond to one text      *)
(* each, and two identifiers, or two numbers, are equal if their values    *)
(* are.                                                                    *)
(***************************************************************************)
EXTENDS Syntax

CONSTANTS
  Ids,   \* identifiers
  Nums   \* integer literals

Keywords    == {"bool", "true", "false", "int", "if", "else", "return", "while", "operator"}
Operators   == InfixOps \cup {"!"}
Punctuation == {"{", "}", "(", ")", ",", "=", ";"}

EOF == "<EOF>"

Tokens == Ids \cup Nums \cup Keywords \cup Operators \cup Punctuation \cup {EOF}

ASSUME TokensAssumption ==
  /\ Ids \cap (Nums \cup Keywords \cup Operators \cup Punctuation \cup {EOF}) = {}
  /\ Nums \cap (Keywords \cup Operators \cup Punctuation \cup {EOF}) = {}
  /\ Ids \subseteq VarNames \cap FuncNames
  /\ OperatorNames \subseteq FuncNames

\* Tokens that may follow the keyword operator.
IsOperator(t) == t \in OperatorNames
=============================================================================
