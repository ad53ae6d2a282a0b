------------------------------ MODULE MCLexer -------------------------------
(* Instances of Lexer for TLC: the texts that it is given.                 *)
EXTENDS Lexer

CONSTANTS
  AnyChars,  \* the characters of the texts of any characters,
  MaxChars,  \*   and how many they may have,
  MaxTokens  \* and how many tokens the other texts are made from

VARIABLE meant  \* the tokens that a text is made from

Keyword == {<<"i", "f">>}

AnyTexts == UNION {[1 .. n -> AnyChars] : n \in 0 .. MaxChars}

SomeTokens ==
       {[rule |-> "id", text |-> t] : t \in {<<"i">>, <<"f", "1">>, <<"i", "f", "i">>}}
  \cup {[rule |-> "keyword", text |-> t] : t \in Keyword}
  \cup {[rule |-> "integer", text |-> t] : t \in {<<"1">>, <<"-", "1">>, <<"1", "1">>}}
  \cup {[rule |-> "symbol", text |-> t] :
          t \in {<<"-">>, <<"=">>, <<"=", "=">>, <<"!">>, <<"!", "=">>, <<"<", "=">>, <<"&", "&">>, <<"(">>}}

MCInit ==
  \/ \E t \in AnyTexts : Read(t) /\ meant = <<>>
  \/ \E n \in 1 .. MaxTokens : \E ts \in [1 .. n -> SomeTokens] : Read(Packed(ts)) /\ meant = ts

\* Spec, on these texts.
MCSpec ==
  /\ MCInit
  /\ [][(Next \/ Stopped) /\ UNCHANGED meant]_<<vars, meant>>
  /\ WF_vars(Next)

(***************************************************************************)
(* Properties                                                              *)
(***************************************************************************)

(* Spaces mean nothing but where two tokens would glue: the tokens that a  *)
(* text is made from, put together without other spaces, are those that    *)
(* are found.  A minus sign before a digit does glue, so that x-1 is x and *)
(* -1 (Lexer.re:20, 24-58).                                                *)
SpacesAreFree == status # "running" /\ meant # <<>> => status = "eof" /\ tokens = meant
=============================================================================
