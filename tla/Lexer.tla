------------------------------- MODULE Lexer --------------------------------
(***************************************************************************)
(* The lexer (Lexer.re): called again and again, it takes from the text    *)
(* the longest piece that one of its rules matches, and of several rules   *)
(* the first.  re2c makes an automaton of the rules; it is external, and   *)
(* modelled by what it does.                                               *)
(*                                                                         *)
(* A text is a sequence of characters.  A token is the piece of text that  *)
(* it was made from, with its rule; the values of numbers are abstracted.  *)
(* The action for unexpected characters does not return a token, nor start *)
(* again: what happens after it depends on the generated code.             *)
(***************************************************************************)
EXTENDS Naturals, Sequences, SequencesExt

CONSTANTS
  Chars,                    \* characters, of which texts are made,
  Letters, Digits, Spaces,  \*   and classes of them
  Keywords                  \* the texts of the keywords

NUL == "\\0"

Singles == {"+", "-", "*", "/", "%", "<", ">", "!", "(", ")", "{", "}", ",", "=", ";"}

\* No character is of two classes, and keywords are made of letters.
ASSUME LexerAssumption ==
  /\ Letters \cap (Digits \cup Spaces) = {} /\ Digits \cap Spaces = {}
  /\ (Letters \cup Digits \cup Spaces) \cap (Singles \cup {"&", "|", NUL}) = {}
  /\ \A k \in Keywords : k \in Seq(Letters) /\ k # <<>>

\* The texts of operators and punctuation.
Symbols == {<<c>> : c \in Singles}
             \cup {<<c, "=">> : c \in {"=", "!", "<", ">"}} \cup {<<c, c>> : c \in {"&", "|"}}

VARIABLES
  text,    \* the buffer, which a null ends
  source,  \* the position of the next character
  tokens,  \* the tokens that have been returned
  status   \* "running", "eof" after the end, "undefined" after an unexpected character

vars == <<text, source, tokens, status>>

\* A file has been read into the buffer.
Read(t) ==
  /\ text = Append(t, NUL)
  /\ source = 1 /\ tokens = <<>> /\ status = "running"

Init == \E t \in Seq(Chars) : Read(t)

-----------------------------------------------------------------------------
AllIn(s, chars) == \A i \in DOMAIN s : s[i] \in chars

IsNumber(s)  == s # <<>> /\ AllIn(s, Digits)
IsInteger(s) == IsNumber(s) \/ (s[1] = "-" /\ IsNumber(Tail(s)))
\* Characters that another rule matches.
Known == Letters \cup Digits \cup Spaces \cup Singles \cup {NUL}

IsId(s)      == s[1] \in Letters /\ AllIn(s, Letters \cup Digits)

\* Mutation of Rule: the rule for identifiers comes first.
RuleIdFirst(s) ==
  CASE IsInteger(s)                     -> "integer"
    [] IsId(s)                          -> "id"
    [] s \in Symbols                    -> "symbol"
    [] AllIn(s, Spaces)                 -> "space"
    [] s = <<NUL>>                      -> "eof"
    [] Len(s) = 1 /\ s[1] \notin Known  -> "any"
    [] OTHER                            -> "none"

\* The first rule that matches the whole of a piece of text.
Rule(s) ==
  CASE IsInteger(s)                     -> "integer"
    [] s \in Keywords                   -> "keyword"
    [] IsId(s) /\ s \notin Keywords     -> "id"
    [] s \in Symbols                    -> "symbol"
    [] AllIn(s, Spaces)                 -> "space"
    [] s = <<NUL>>                      -> "eof"
    [] Len(s) = 1 /\ s[1] \notin Known  -> "any"
    [] OTHER                            -> "none"

Piece(n) == SubSeq(text, source, source + n - 1)

Matches == {n \in 1 .. Len(text) + 1 - source : Rule(Piece(n)) # "none"}

\* Mutation of Longest: the first match is taken.
Shortest == CHOOSE n \in Matches : \A m \in Matches : n <= m

Longest == CHOOSE n \in Matches : \A m \in Matches : m <= n

Token(n) == [rule |-> Rule(Piece(n)), text |-> Piece(n)]

-----------------------------------------------------------------------------
Scanning(rules) == status = "running" /\ Rule(Piece(Longest)) \in rules

\* The action of a rule for tokens.
Return ==
  /\ Scanning({"integer", "keyword", "id", "symbol"})
  /\ tokens' = Append(tokens, Token(Longest))
  /\ source' = source + Longest
  /\ UNCHANGED <<text, status>>

\* Mutations of Skip: another character is skipped, or none.
SkipMore ==
  /\ Scanning({"space"})
  /\ source' = IF source + Longest < Len(text) THEN source + Longest + 1 ELSE source + Longest
  /\ UNCHANGED <<text, tokens, status>>

SkipNothing == Scanning({"space"}) /\ UNCHANGED vars

\* goto start
Skip ==
  /\ Scanning({"space"})
  /\ source' = source + Longest
  /\ UNCHANGED <<text, tokens, status>>

ReturnEOF ==
  /\ Scanning({"eof"})
  /\ source' = source + 1 /\ status' = "eof"
  /\ UNCHANGED <<text, tokens>>

Unexpected ==
  /\ Scanning({"any"})
  /\ source' = source + 1 /\ status' = "undefined"
  /\ UNCHANGED <<text, tokens>>

Next == Return \/ Skip \/ ReturnEOF \/ Unexpected

\* The lexer is not called again, or nothing is known of it.
Stopped == status # "running" /\ UNCHANGED vars

\* Nothing but its own steps keeps the lexer from going on.
Spec == Init /\ [][Next \/ Stopped]_vars /\ WF_vars(Next)

-----------------------------------------------------------------------------
\* The text of tokens, and the parts of a text that tokens are made from.
Joined(ts) == FoldLeft(LAMBDA s, t : s \o t.text, <<>>, ts)

Dense(s) == FoldLeft(LAMBDA d, c : IF c \in Spaces \cup {NUL} THEN d ELSE Append(d, c), <<>>, s)

\* Tokens that are not themselves any more when the first character of the
\* second one follows the first.
Glues(a, b) ==
  \/ a.rule \in {"id", "keyword"} /\ b.text[1] \in Letters \cup Digits
  \/ a.rule = "integer" /\ b.text[1] \in Digits
  \/ a.text = <<"-">> /\ b.text[1] \in Digits
  \/ a.text \in {<<c>> : c \in {"=", "!", "<", ">"}} /\ b.text[1] = "="

\* A text of the tokens, with spaces only where two of them would glue.
Packed(ts) ==
  FlattenSeq([i \in DOMAIN ts |->
    IF i > 1 /\ Glues(ts[i - 1], ts[i]) THEN <<CHOOSE c \in Spaces : TRUE>> \o ts[i].text ELSE ts[i].text])

(***************************************************************************)
(* Properties                                                              *)
(***************************************************************************)

(* Whatever the text, every character that has been passed is part of one  *)
(* token, or is a space: nothing is lost, doubled or reordered between the *)
(* tokens (Lexer.h:5-8).                                                   *)
TokensAreTheText ==
  status # "undefined" => Joined(tokens) = Dense(SubSeq(text, 1, source - 1))

(* The lexer comes to an end of every text: each of its steps consumes a   *)
(* character, and the null is found before the buffer ends                 *)
(* (Lexer.re:55-60, main.cpp:233-234).                                     *)
EndIsFound == <>(status # "running" /\ source <= Len(text) + 1)
=============================================================================
