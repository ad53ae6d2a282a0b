# A verification of the Weekend Compiler

TLA+ models of the compiler in this repository, from the characters of the
source to the execution of the generated code, TLC runs that check them, and
TLAPS proofs of what holds of the lexer, the parser, the typechecker, the code generator
and the code itself for every text and every program. Line numbers refer to the repository's files.

## The system

The compiler is one sequential program (`main.cpp`). It reads a source file,
parses it, typechecks it, generates LLVM IR, verifies and optimizes that, hands
it to a JIT engine and calls the function `main`. Nothing runs concurrently,
nothing is persisted and nothing is retried: what is hard about it is that each
pass is a recursion with mutable state (one token of lookahead, a current scope,
a current basic block) over a text or tree of any shape, and that each pass
relies on what an earlier one has checked or stored in the tree. The default
build (`CMakeLists.txt`) does not define `NDEBUG`, so that assertions are part
of the behaviour.

| component | state | operations | interaction | hard part | module |
|---|---|---|---|---|---|
| Lexer (`Lexer.re`) | position in the text | next token | called by the token stream | longest match, end of the text | `Lexer` |
| Token, TokenStream (`Token*`, `TokenStream.h`) | one token | peek, skip | called by the parser | the lexer runs one token ahead | `Tokens`, `Parser` |
| Parser (`Parser.cpp`) | recursion, token stream | one routine per nonterminal | builds the tree; `ParseError` ends the compilation | precedence, lookahead, loops at the end of the text, conformance with the grammar | `Parser` |
| Syntax tree (`Exp.h`, `Stmt.h`, `VarDecl.h`, `FuncDef.h`, `Program.h`) | nodes, types, links | `SetType`, `SetVarDecl`, `SetFuncDef` | written by the typechecker, read by the code generator | links are uninitialised before typechecking | `Syntax`, `Visitor` |
| Printer (`Printer.cpp`) | none | dump of a program | reads the tree | order and completeness | `Printer` |
| Typechecker (`Typechecker.cpp`, `Scope.h`) | function table, chain of scopes, recursion | one `Visit` per node kind | decorates the tree; `TypeError` ends the compilation | shadowing, restoring of scopes, overloads and duplicates | `Typechecker` |
| Code generator (`Codegen.cpp`) | symbol table, function table, blocks, insertion point, recursion | one `Visit` per node kind | reads the links; uses LLVM's builder | which block is current, terminators, missing definitions | `Codegen` |
| LLVM IR and verifier | - | - | external library | what is well formed | `IR` |
| The generated code | position, storage | its instructions | run by the driver | does it do what the source says | `Execution`, `Meaning` |
| Driver, builtins (`main.cpp`, `Builtins.h`) | phase | one step per pass | runs the passes in order | error exits, the assertions, the signature of `main` | `Compiler` |
| Optimizer, JIT (`SimpleJIT.h`) | LLVM objects | `addModule`, `findSymbol` | external library | outcomes only | `Compiler` |

What makes them correct: the tokens are those that the text was written with;
the parser accepts exactly the texts that its trees stand for, and comes to an
end of every text; the typechecker resolves every name lexically and every call
to the first match; the code generator's lookups succeed and its output is well
formed and does what the source says; the composition never runs a program that
one of its passes should have refused.

## The modules

* `Syntax` - the tree. All passes walk it depth first and left to right, so a
  program is the **sequence of its nodes** in visiting order: expressions in
  postfix order closed by `EndExp`, compound statements closed by a mark. The
  position of a node is the identity of the C++ object. A `VarDecl` is a record
  with the position of its owner, a `FuncDef` the position of its `Func` node.
  Constants have a type and no value. `Null` is a link that the typechecker has
  not assigned (an uninitialised pointer in the code, which no pass reads before
  it is assigned).
* `Tokens` - a token is its text.
* `Lexer` - the rules of `Lexer.re` on texts of characters: longest match, and
  of several rules the first. The automaton that re2c makes of them is external.
  After an unexpected character the action of the code neither returns nor
  starts again; nothing is said of what follows (`"undefined"`).
* `Parser` - one run of `ParseProgram`. `todo` is the C++ call stack, as the
  sequence of what the active routines still have to do: entering a routine
  replaces its goal by the goals of its body. `Take` consumes the lookahead, and
  lexes the next token; a routine that fails after it has consumed a token
  (`TakeError`) and one that fails before (`ParseError`) are told apart. The
  text is not an input but chosen as it is read: `Supply` says which tokens may
  follow those lexed so far. Two things are in the tree for the properties
  alone: the form of a call (infix, prefix, with arguments), and a `Paren` node
  behind an expression in parentheses, which `Compiler` drops.
* `Printer` - the dump of a tree, by tokens. The same fold, given other texts
  for calls, parentheses and definitions, writes a tree as source, which
  `Parser` compares with what it has read.
* `Visitor` - the C++ call stack of active `Visit` functions as a sequence of
  frames with control points, and how a frame resumes.
* `Typechecker` - one run of `Typecheck`. There is an action for every `Visit`
  call and for every point where one goes on or returns. On its own, its program
  is **not** an input: every visit picks its node, so the behaviours are the
  runs over all programs within the bounds, and `syntax` holds the decorated
  tree so far. A `TypeError` unwinds everything at once.
* `IR` - LLVM as the code generator uses it (external): instructions with the
  types of their operands, and what the verifier checks.
* `Codegen` - one run of `Codegen` over a program of the constant `Programs`.
  An action per `Visit` and per resumption, `Put` for the builder, `insert` for
  its insertion point; a failed assertion or `args.at` ends in `"aborted"`.
* `Meaning` - the **abstract specification** of generated code: what one call of
  a function does, said of its source alone. What can be observed are its
  accesses to local variables, its calls, the outcomes of its conditions, and
  its return.
* `Execution` - a module of `Codegen` that the verifier has accepted, executed
  instruction by instruction. It is shown to implement `Meaning`
  (`INSTANCE Meaning`, `ImplementsSource`). `at` and `defined`, the position in
  the source and its defined variables, are history variables: each observable
  instruction moves them as the source says, and the property is that the event
  seen is the event that the source has there.
* `Compiler` - the driver. It instantiates `Parser` (twice: on the text of the
  builtins, and on the source), `Typechecker` and `Codegen` on one shared tree:
  the builtins are parsed and checked first, then the source is parsed into the
  same program and all of it is checked again, and what is generated is exactly
  what was accepted and decorated. The verifier is the one of `IR`; the JIT
  engine may fail at its construction (`m_initialized`) and at each of its calls.
* `Typing` - the types of a program, said of its nodes alone: nodes are kept in
  postfix order, so the types of the expressions visited and not yet consumed
  are a stack, and a typing gives the stack before each node. It is what the
  typechecker promises and the code generator, which checks no type, relies on.
* `LexerProofs`; `ParserProofs` and, extending it, `TextProofs`;
  `TypecheckerProofs`; `CodegenProofs`, `VerifierProofs` and `ExecutionProofs`,
  each of which extends the one before; and `CompilerProofs`, which instantiates
  those of the passes - the theorems.
* `MCLexer`, `MCParser`, `MCTypechecker`, `MCCodegen`, `MCExecution`,
  `MCCompiler` - instances for TLC.

An operator whose comment starts with "Mutation of" is a plausible wrong version
of the definition after it. No run uses it: it is there to show, by putting it
in the place of the original, that the property named beside it in
`PROJECT.json` can fail.

## The runs

| run | about | checks |
|---|---|---|
| `MCLexer` | all texts of up to 4 characters, and of up to 3 tokens with as few spaces as possible | `TokensAreTheText`, `SpacesAreFree`, `EndIsFound` |
| `MCParser` | all token sequences up to 7 in an expression and up to 9 in a function body, chains of up to 4 operators, sentences of the grammar | `TreeIsTheText`, `PrecedenceClimbs`, `ElseIsNearest`, `StopsAtEnd`, `DumpIsTheText`, `SentencesAreParsed`, `Terminates` |
| `MCTypechecker` | up to 3 functions and 12 nodes, 3 of them builtins: bodies of nested sequences, shadowed parameters and locals, declarations as branches; overloads, duplicates with other return types, redefined builtins | `ScopeChainIsLexical`, `LinksAreLexical`, `LinksSuffice`, `VisitRestoresScope`, `CallsLinkToFirstMatch` |
| `MCCodegenNested` | all functions of two levels of nested statements (or one and a further statement), for both return types | `LookupsSucceed`, `BlocksTerminated`, `BlocksAreConnected`, `StorageDominatesUses`, `VerifiedIffClean` |
| `MCExecution` | every path through the code of functions of two levels of nested statements | `ImplementsSource`, `DefinedIsStored`, `CallsReturn` |
| `MCCompiler` | all passes on texts of up to 2 functions: overloads and duplicates of `main`, operators, declarations, wrong types; each cut short anywhere | `BuiltinsAreDeclared`, `AbortsIffNotDefined`, `VerifiedIffClean`, `OperandsAreTyped`, `CallsReachTheirDefinitions`, `Finishes` |

`MCTypechecker`, `MCCodegenNested`, `MCParser` and `MCCompiler` also check
their module's `TypeOK`. What
they show:

* **Lexer.** Every text is covered by its tokens, and comes to an end. Spaces
  matter only where two tokens would glue; a minus sign before a digit is one of
  these cases (`x-1` is `x` and `-1`).
* **Parser.** A text is accepted only if the tree, written as source, is that
  text, token by token (`TreeIsTheText`); together with the shape of the tree
  (`PrecedenceClimbs`, `ElseIsNearest`) this says which of the trees of that
  text it is. The levels that `PrecedenceClimbs` has for the operators are not those
  of the code's table but of the documents (`BindsAs`: `grammar.txt:52-75`, and C for
  `==` and `!=`, which have no rule there). The code departs from them for `%`: here
  its operands are held to the level of `+` only, and what the documents ask of them
  is left to `MCParserProducts`. `SentencesAreParsed` is the other direction: the sentences of the
  grammar, as far as the code agrees with it, are accepted. The parser ends on
  every text, and consumes nothing behind the end of it, with one exception: the
  prefix minus takes any token for its operator, the end included. A step that
  consumes the end and fails is the last one (`StopsAtEnd`).
* **Typechecker.** The scope chain always agrees with a definition of lexical
  scope on the text of the program alone (`DeclsAt`, which counts the marks of
  sequences), for every name and at every step, not only for the names that are
  used. A program that typechecks has all the links that the code generator uses
  without asking (`WellLinked` in `Syntax`: `LinksSuffice`). Calls are linked to the first definition that matches, and the link is
  the function that the generated code calls, if no operator is redefined.
* **Code generator.** `Clean` is a condition on the source: every `return` is
  the last statement of its branch or function, none is the end of a loop body,
  and a `bool` function ends in one. The verifier accepts the code **exactly**
  for clean functions (`VerifiedIffClean`): misplaced returns are the only
  defect. This is said of programs whose operator calls are linked to builtins
  (`OperatorCallsAreBuiltin`): a call of an operator that the text declares,
  with types that no builtin has, passes the typechecker and becomes an
  instruction on those types (`bool operator+(bool x, bool y);`). The three ways in which a
  program fails to be clean are a missing return (`Codegen.cpp:428`), a return
  at the end of a loop body (`344`) and a statement after a return (`272`).
* **Generated code.** On every path, accepted code accesses the same variables,
  calls the same functions and takes the same decisions as the source, in the
  same order, and returns if the loops of its source end. Storage is allocated once
  in a call and never cleared, but a variable that has a value in the source has
  been stored to since its declaration was last executed (`DefinedIsStored`):
  `stored` loses it there, as `defined` does.
* **Composition.** The types that the typechecker has established are those of
  the operands: in generated code no instruction, branch, call or return has
  operands of other types than it takes, apart from the return supplied at the
  end of a `bool` function (`OperandsAreTyped`). Code generation aborts exactly for calls of functions that
  are only declared and of operators with too few operands; no other lookup by
  the links of the typechecker can fail. Whatever the text, the compiler reaches
  an exit, a failed assertion, or the call of `main`.

**Bounds.** `MaxChars` 4: two tokens, one of two characters, with spaces between
them; the second instance, of whole tokens, has three (`MaxTokens`). `MaxExp` 7
holds two calls, one in the argument list of the other, or three operators, and
every way to cut them short; `MaxStmt` 9 an `if` with `else` inside another one
or a loop; `MaxOps` 4 operators are one more than the three that a wrong bound
of the recursion needs to show; `%` is among them. A defect of scoping needs at most a parameter,
an outer and an inner declaration of one name, a use after the inner sequence
has ended, and perhaps a branch: 9 nodes after the builtins hold that. Of
overloading: two alike definitions and a different one with a call in the last
of them, which 9 nodes hold, too; `StmtKinds` and `CallNames` give a function
either the statements that scoping is about or those that call, and a program
may have both kinds of function. Of blocks: a statement that
ends a block inside another that goes on in a new one, and a statement after it:
two levels. In `Typechecker` `MaxNodes` stops a program from growing, but what
is needed to complete open statements remains possible, so that runs end in
`Finish` or in an error; `MaxArgs` bounds the pending operands, `MaxFuncs` the
user's functions. In `MCCompiler` the texts are finite and `MaxNodes` (100) is
never reached. `MaxBlocks` (9) is more than any function of `MCExecution` has;
it only delimits a fairness condition. Deadlock is checked in every run.

**Fairness.** The compiler is one thread that nothing stops: `Parser`,
`Compiler` and the lexer's instance assume weak fairness of their steps, and
nothing of the text. `Finishes` stops at the call of `main`, which may loop.
`Execution` assumes weak fairness of its steps, and strong fairness of `Leave(b)`
for each block: a loop whose condition may fail again and again is left at last.
That is a property of the program and not of the compiler, and `CallsReturn`
says what the compiler adds: the code has no loops of its own, and a loop of the
source does test its condition again. The properties of the typechecker and the
code generator alone are safety; that they end is part of `Finishes`.

**Runs that find a violation.** Each checks one statement of a comment, an
assertion or the documented grammar, and is a finding in `PROJECT.json`:

| run | statement | what happens |
|---|---|---|
| `MCParserProducts` | `%` is a `MulOp`, as `*` and `/` are (`grammar.txt:52, 60`) | it binds like `+` and `-` (`Parser.cpp:175`): `x + x % x` becomes `(x + x) % x`, and `x % x * x` becomes `x % (x * x)` |
| `MCParserGrammar` | `( Exp )` and `UnaryOp PrimaryExp` are expressions (`README.md:58-66`) | the parser skips a second parenthesis, and takes the token after the minus for the operator |
| `MCCodegenMissingReturn` | the module verifies (`main.cpp:122`) | the supplied return of a `bool` function is `ret i32 0` |
| `MCCodegenForward` | called functions have an LLVM function (`Codegen.cpp:183`) | not those declared without a body |
| `MCCodegenOperator` | operators can be defined by ordinary definitions (`Token.h:114`) | the definition is compiled and never called |
| `MCCompilerMain` | `main` takes the input value (`main.cpp:150`) | its signature is never checked |

Differences that are modelled as the code has them, and have no run of their own:
`Lexer.h:7` says that invalid characters are discarded, but the action falls off
its end (`Lexer.re:59`); `&&` and `||` evaluate both operands, a TODO of the
code (`Codegen.cpp:172`); on an error at the end of the text the parser asks the
lexer for a token behind it, and does not look at what it gets.

## The proofs

`LexerProofs` proves `TokensOfTheText`, `Spec => []TokensAreTheText`, for **every**
text, and any letters, digits, spaces and keywords. It assumes of them
(`LexerAssumption`) that no character is of two classes, nor one of the
punctuation, and that keywords are made of letters. The theorem also says that
`source` never gets further than behind the null that ends the buffer. The
invariant (`LexInv`) is that of the property with `ScanOK`: while the lexer is
running, the null is still ahead. `LongestMatches` finds a longest match there,
as some rule matches every character (`CharsMatch`). What the rules match
(`RuleMatches`) decides the rest: a piece that is a token has no space in it, so
that it goes to both sides of the equation as a whole (`DenseFolds`, by the
induction on sets that `TextProofs` also uses); and neither a token nor space
contains the null (`StaysBefore`).

`ParserProofs` proves, for **every** text (`Supply` is any operator), every set
of identifiers and numbers apart from the other tokens (`TokensAssumption`), and
nesting of any depth:

* `TypeCorrect`: `Spec => []TypeOK`;
* `NothingBehindTheEnd`: `Spec => []StopsAtEnd`;
* `ElseOfNearestIf`: `Spec => []ElseIsNearest`.

The first two follow from one inductive invariant, `IInv`. `TypeOK` is not inductive: an
error cuts the tree at the number in the last goal, which must not exceed its
length, and an `else` updates the node that its goal refers to, which must be an
`if` statement. `StopsAtEnd` is not inductive either: the token that `UnaryOp`
consumes is excepted because of the token before it. So `IInv` adds

* `Base`: the last goal, and no other, is that of the program, and it starts
  within the tree;
* `ElsesHaveIf`: every `Else` goal has its `if` statement in the tree;
* `AfterMinus`: the goal `UnaryOp` is only ever the first, right after a minus
  sign has been consumed.

A lemma for each group of actions (`...Keeps`) proves all of these for a step,
over two general ones, `GoKeeps` and `TakeKeeps`: goals and nodes that are
`Ready` may take the place of the first goal, with or without a token.

`ElseIsNearest` compares `if` statements that are found by counting marks from
the end of a branch back, so its proof needs what the counts are at every point
of the tree, and adds `NearInv` to `IInv`. The depth of a node is the number of
`If` marks up to it less that of `EndIf` marks. `NearInv` says

* `Deep`: the depth of the tree's end is that of the first goal; a goal of an
  `if` (its `Else`, or the mark that ends its else branch) is one deeper than
  the goals below it, and its `if` is in the tree at that depth, with nothing
  less deep behind it - with its else branch, once the goal `Else` is done;
* `HeadOK`: where a statement has just ended and the lookahead is `else`, every
  `if` that ends there has an else branch (`AllTaken`). This survives the end of
  an enclosing statement because the goal `Else` of an inner `if` is left without
  a branch only when the lookahead is another token;
* `Followed` and `FitGoal`: what the goals append, and that the goal behind a
  statement appends nothing before the enclosing one ends;
* `NearestIn`: the property, for the tree so far, with the `if` of a mark given by
  depths; `TakenIf` shows that this is the one that `IfOf` finds.

`NearStep` proves these for a step that replaces the first goal and appends at
most one node; a lemma for each group of actions (`...Near`) supplies the rest.

`TextProofs` proves, under the same assumptions,

* `TextOfTheTree`: `Spec => []TreeIsTheText`;
* `OperatorsClimb`: `Spec => []PrecedenceClimbs`;
* `DumpOfPlainText`: `Spec => []DumpIsTheText`.

All three compare a state with a fold over the tree. No induction over the tree
is needed for what the parser does, as it appends one node at a time; but it has
to be shown that a fold goes on from each node to the next. `FoldLeft` of the
community modules is a recursive function on sets of positions, which a `CHOOSE`
names: `FoldsExist` constructs such a function, position by position (`UpTo`,
the induction, is a proof by the least counterexample), `FoldNext` is the step,
and `SameFold` compares two folds. `State` is then what the tree so far has
written, with the text and the level of each operand that no call has taken, and
`After` what one more node makes of it.

The invariant that is missing is what the parser has read and not appended yet.
It depends on the goals that wait: a call of a function with three arguments, the
second of which is being read, has a name, a parenthesis, an operand and a comma
that are nowhere in the tree. So `TextInv` says that the goals, from the last one
to the first, lead from the text that the tree has written to the tokens that
have been read (`Chained`, `Stands`). Each goal adds its `Piece`, and takes as
many of the waiting operands as it `Uses`; a goal that leaves one more operand is
followed by one that takes it (`Joins`); and at the goals of a statement or
definition all operands have been taken. A token that is about to be skipped
counts as read (`Due`). For `PrecedenceClimbs`, the goals of operators also say
how tightly the operands next to them bind (`Climbs`, `Held`): the loop that an
operator starts for its right operand takes operators of higher precedence only,
and ends at none of them, so the operand that it leaves binds tighter than the
operator, and what follows does not. The parser's steps guarantee this for the
levels of the code; `DocumentedLevels` says that no operator binds looser by the
documents, nor is any asked for more (`Asks`). With `Loose` ruled out of the levels by their type, no operator
has ever taken a looser operand.

`Push` puts a goal in front of others, `Pop` takes one away; `ValuedFrom`, `NodeStated`
and `ExpStated` say what a node does to `State`, by kind of node; and a lemma for
each action (`...Text`) proves that it keeps `TextInv`. The proof needs `Null`
to be none of the definitions (`NullAssumption`): the parser tells a parameter
from a local variable by the definition that it belongs to.

`TypecheckerProofs` proves, for every list of builtins, every set of user
definitions and names, and any bounds (`TypecheckerAssumption`):

* `TypeCorrect`: `Spec => []TypeOK`;
* `FirstMatch`: `Spec => []CallsLinkToFirstMatch`;
* `ScopesRestored`: `Spec => VisitRestoresScope`;
* `ChainLexical`: `Spec => []ScopeChainIsLexical`;
* `LinksLexical`: `Spec => []LinksAreLexical`;
* `LinksHandedOn`: `Spec => []LinksSuffice`.

The first three follow from one inductive invariant, `IInv`, with a lemma for each
group of actions (`...Keeps`) that proves the invariant and the action property
of a step together. Besides `TypeOK` it says:

* `FramesOK`: every active `Visit` function was called with the scopes that its
  caller had made current (one more than its own for a sequence), and the chain
  is now what the innermost one has made it. A function other than that of a
  sequence has thus changed nothing when it returns, and that of a sequence
  takes away exactly the scope that it has added. An assignment's frame stands
  at such a node, which gets the link.
* `TableOK`: the function table holds all function definitions so far, and only
  these, in the order of the program. Hence the first match in the table
  (`FindFuncFirst`) is the first match in the program.
* `LinksOK`: `CallsLinkToFirstMatch`, and links refer to function definitions.

The steps of these proofs are those of `AnyNext`: a visit of any node whatever.
The bounds and constants of a run only restrict which nodes may come
(`NextIsAny`), so the same lemmas serve `CompilerProofs`, where the nodes come
from the parser.

The others compare the chain of scopes, which the code changes as it goes, with
a count of marks over the whole text. What connects them (`LexInv`) is:

* `ChainOK`: there is one scope more than sequences open at the end of the text;
  the first has the parameters and nothing else, and scope `s` exactly the
  declarations that stand at depth `s - 1` in sequences still open; no scope has
  two declarations of a name. The scopes are then ordered as the text is, so the
  innermost scope with a name has the last enclosing declaration of it
  (`ChainFinds`).
* `FramesShape`: functions do not nest, no statement stands in an expression,
  and everything but a function's own frame has its two scopes; so the scope a
  sequence takes away is its own.
* `AssignExpLast`, `LinkedBut`: every reference and assignment so far is linked
  to what the text at its place says, but for the one assignment whose
  expression is being visited, behind which there is nothing but that. The link
  is set after the expression, and is still that of the statement's own place,
  as an expression declares nothing.

What the text says of a place never changes by what is appended (`LinkedGrows`).
A success comes when no `Visit` function is active (`OkAtEnd`), and only local
variables are ever assigned to (`AssignsLocal`); with `LinksOK` this is all of
`WellLinked`.

Last, it proves `ProgramsAreTyped`: a program that typechecks has a typing
(`Typing`). Its state keeps the types of the expressions that no call or
statement has consumed (`pending`); `TypingInv` says that the nodes so far have a
typing whose last stack is `pending`, and that behind the statement that waits
for an expression there is nothing but nodes of it (`OwnerWaits`). The second part
makes the statement that an expression belongs to one and the same (`OneOwner`),
so what the code compares at the end of an expression - with the type of the
declaration, of the linked variable, or of the function around a return
(`ReturnFits`) - is what the typing asks for. The link of an assignment is set
only then, and a step that sets it changes no type of an earlier node
(`StepKept`). The arguments of a call are the last of the pending types
(`SplitAt`), and `CallsLinkToFirstMatch` gives them the types of the parameters.

`CodegenProofs` proves, for every set of programs (the assumption
`CodegenAssumption`: they are sequences of nodes) and any depth of nesting:

* `TypeCorrect`: `Spec => []TypeOK`;
* `AllBlocksTerminated`: `Spec => []BlocksTerminated`;
* `StorageDominates`: `Spec => []StorageDominatesUses`.

Neither `TypeOK` nor `BlocksTerminated` is inductive. The invariant `IInv` adds:

* `NodesOK`: the frame of a declaration or assignment stands at such a node,
  from which the store at its end takes the variable;
* `OpenInv`: while a function is being generated, `insert` is one of its blocks,
  and a block without terminator is either that block or one that an active `if`
  or `while` has created and will still continue in (`Pending`: `join`, and
  `else` while the first branch is being generated); only the outermost frame is
  that of a function. So when the function ends, nothing is pending, and the
  return that is supplied if needed closes the only block that can be open.

The proofs have a lemma for each group of actions (`Type...`, `Open...`) over
lemmas about frames (`EnterFrames`, `PendingSplit`, ...) and about the builder
(`PutType`, `BranchEnds`, `CondBlocks`).

`StorageDominatesUses` is about finished functions and is not inductive either.
`StorageInv` says, of the function being generated:

* `StorageOK`: allocations stand only in the entry block, at most one for each
  declaration, which lies before `cursor` - so the next declaration is a new one;
  every variable in `m_symbols` (`symbols`) is allocated ahead of all other
  instructions; and every load and store refers to such a variable;
* `TargetsOK`: the frames of declarations and assignments whose store is still to
  come refer to such a variable. A declaration enters its variable before its
  initial value is generated, and nothing is removed while the function lasts.

It rests on `IInv`, for the shape of frames and nodes.

Its second part is about the links of the typechecker, under the same assumption:

* `OnlyUndefinedFail`: in every behaviour, if the program is `WellLinked`, code
  generation aborts only at a call that is `NotDefined`: of a function without a
  body, or of an operator with too few operands;
* `SuccessIfDefined`: code generation is done only if there is no such call;
* `LookupsOfLinks`: if all programs are `WellLinked` and have no such call,
  `Spec => []LookupsSucceed`.

`TablesOK` is the invariant behind the first: `m_symbols` has everything that
the function around `cursor` has declared before it, and `m_functions` every
definition with a body before it. Nothing takes an entry away before the
function ends, though the code generator has no scopes: a declaration stays
known after its sequence, which no link makes use of. `CallsOK`, behind the
second, is the converse: only definitions with a body are in `m_functions`, and
the calls before `cursor` are defined.

and of calls:

* `ReferencesBecomeCalls`: in every behaviour, if the calls of the program are
  linked to definitions of the name they call, and no operator has a body in it
  (`LinksByName`, `NoUserOperators`), then `DefinitionsAreCalled`.

Both hypotheses are needed. The code generator looks first at the name of a
call: one that is an operator's becomes an instruction, whatever its link is
(the finding of `MCCodegenOperator`). `CallsInv` is a balance: for every
definition, its calls in finished functions and those in the blocks of the
current one are together as many as the references before `cursor`
(`CountOK`). An appended call is a new position (`PutCalls`); an allocation moves
the instructions of the entry block up, but not their number (`AllocaCalls`);
and the blocks of a function become part of the module without change
(`FinishedCalls`). The outermost frame is that of a function
(`OutermostOK`), so there are no blocks when nothing is active, and at the end
all references have been visited. That the code of an expression is at most one
call, and has none unless it is for a call, comes from `StmtExpInstrs` and
`InstrCallee` of `CodegenProofs`.

`VerifierProofs` proves `OperandsOfTypedPrograms`: if a program has a typing, it has
`OperandsAreTyped`, under the same assumption. `OperandInv` says, for any typing of
the program:

* the values that the generator holds have, as IR types, the types of the stack
  before `cursor`, and every instruction so far is typed (`StackOK`, `AllTyped`);
* a frame that waits for an expression is the innermost one, and its statement
  has nothing but that expression behind it (`WaitsOK`). So the statement whose
  type the typing speaks of is the one that stores, returns or tests the value.

That the instruction for an operator takes the operands it is given comes from
the builtin declarations, one by one (`BuiltinCases`), which is where the
hypothesis `OperatorCallsAreBuiltin` is needed. The return that is supplied to a
function without one is the only instruction that may be ill typed, and there is
at most one of it in a function.

It also proves `VerifierOfTypedPrograms`,
`Spec => [](Typable => VerifiedIffClean)`: if a program has a typing and
its operator calls are those of builtins, the verifier accepts the module if and
only if the source is `Clean`. `Clean` is a condition on the tree; the verifier
sees blocks only. What connects them:

* `CleanInv`: a block has something behind its terminator (`SomeCut`) if and only
  if a statement so far has been generated where control does not get, or a loop
  body has ended in a return (`Bad`); and the current block has a terminator if
  and only if the statement generated last is a return, or a sequence that ends
  in one (`Dead`). While an expression is visited the same is said of the
  statement it belongs to (`Started`): the defect only shows when an instruction
  is appended, and a call that is a statement has one by its end.
* `JumpInv`: the blocks that an active `if` or `while` will still go to are
  empty, each belongs to one of them, and branches stay inside the function and
  never go to its first block.
* `CleanAtEnd`: at the end of a function `Bad` and `Dead` say whether the function
  is clean, and `EndIsVerified` that the verifier sees the same, the supplied
  return of a `bool` function included.

The typing is needed for the types that the verifier compares (`AllTyped`), and
because a statement that is a call must be one in the tree.

Its third theorem is `BlocksOfTypedPrograms`: if a program has a typing, then in
each of its functions branches go to blocks of that function other than the
first, and the blocks without a way in are the first and one more for each `if`
both of whose branches end in a return (`BlocksAreConnected`). The property finds
the `Else` of an `EndIf` by counting marks over the nodes; the code generator has
it from its call stack. `NestingInv` connects them:

* `Nested`: between the marks of an active `Visit` function there are only complete
  statements (`Closed`: no `EndIf` before its `If`, and as many of each), so that
  its `Else` is the one that counting finds; and the join of an active `if` has a
  way in already, unless each branch so far has ended in a return.
* The blocks that no branch enters (`Unreached`), apart from those that an active
  `if` or `while` will still go to, are as many as the ifs so far both of whose
  branches have returned (`Returning`), and the first block of the function. The
  number grows at the end of an `if`, by the join that is then taken from the
  active ones, or not at all.
* `FlowInv` has what it rests on: `JumpInv`, by which branches stay in the function
  and the blocks to come are distinct and empty, and `CleanInv`, by which the
  current block has a terminator if and only if the last statement returns.

`ExecutionProofs` proves what the others lead up to, the refinement: for every
set of programs, and any nesting of statements,

* `CodeImplementsSource`: `ExecSpec => ImplementsSource` - every step of a call of
  a function that the verifier has accepted is a step of `Meaning`, or none;
* `DefinedVariablesAreStored`: `ExecSpec => []DefinedIsStored`.

Neither asks for a typing or for sound links: that the verifier has accepted the
module is all that is needed, and that is what `Run` waits for, as the driver does.
What the code of a program that the verifier refuses would do is not said.

The argument is a forward simulation in two parts: what the blocks stand for is
established while they are generated, and their execution needs nothing else.

* `Meaning` has nodes that cannot be observed (`Silent`); `Leads(x, z)` says that
  silent steps lead from node `x` to `z`. There is one way (`LeadsOneWay`), and
  none from an observable node (`LeadsNowhere`); so where the points of two
  computations lead silently to the same node, the next observable node is the
  same. It is defined by the sets that silent steps do not leave, so that loops
  without a test or access of their own do no harm, and no induction is needed.
* Every block stands for a point of the source (`en`), and so does every place
  between two of its instructions (`Traced`). `Moves` says what an instruction
  must be: a load, store, call or return that of the observable node that its
  point leads to, leaving the source behind that node; a conditional branch the
  test of that node, to blocks that stand for what the source goes on with in
  either case; and all others take no observable step. `CodeOK` is this for all
  blocks of a function, `EndsAt` for the open end of the one that is generated.
* `TraceInv` says it of finished functions (`Compiled`) and of the one that is
  being generated (`Built`). Its hard part is `Fits`: the code generator knows from
  its call stack which `else` and which end a condition belongs to, and creates
  the blocks of both before it has seen either, while `Meaning` finds them by
  counting marks. `FrameFits` has, for every active `if` or `while`, that the blocks
  that it will still go to stand for the points that counting finds (`EndIfOf`,
  `ElseOf`, `EndWhileOf`, `WhileOf`), and that between its marks there are only
  complete statements (`Shut`), whence the mark that it ends at is the one found.
  A block that no statement leads to, or that is written behind a terminator
  (`Cut`), stands for nothing; the verifier refuses the latter.
* `ExecInv` connects this with the execution: the point of the next instruction
  and the node followed (`at`) lead silently to one node (`OnTrack`). A lemma for
  each action (`RunStep`, `FollowStep`, `ComputeStep`, `PerformStep`, `BranchStep`)
  shows that it is kept, and which step of `Meaning` it is. `at` is the history
  variable that `Execution` moves whether or not the events agree; that they
  agree is the theorem.

`CodeInv` conjoins `IInv`, `LookupInv` and `OperandInv` of the modules before, for
the shape of frames and blocks, with `TraceInv`; `TraceNext` combines one lemma
per action of the code generator. From `VerifierProofs` come the counts of marks
and what is between them.

`CompilerProofs` puts the passes together, for every text of the source file,
every list of builtins and every set of names (`TokensAssumption`):

* `TypeCorrect`: `Spec => []TypeOK`;
* `FailsIffNotDefined`: `Spec => []AbortsIffNotDefined`;
* `CallsAreFaithful`: `Spec => []CallsReachTheirDefinitions`, and that the main
  function is called only when code generation is complete;
* `TypesAreSound`: `Spec => []OperandsAreTyped` - type soundness of the compiler:
  `ProgramsAreTyped` provides the typing that `OperandsOfTypedPrograms` asks for;
* `VerifierSeesReturns`: `Spec => []VerifiedIffClean` - whatever the text, a
  misplaced or missing return is the only reason for which a generated module is
  refused;
* `OnlyCleanCodeRuns`: `Spec => []RunsCleanCode` - `main` is called only in a
  module that was accepted, so every function of the source behind it is clean
  (both under the hypothesis `OperatorCallsAreBuiltin`, as in the property);
* `CompiledBlocksAreConnected`: `Spec => []CG!BlocksAreConnected`, for which the
  typechecker again provides the typing.

Nothing is assumed here of the programs that a pass is given: they are what the
pass before it has left. `IInv` keeps the invariants of `ParserProofs`,
`TypecheckerProofs` in every phase, over both runs of the parser and of the
typechecker; it says that no code has been generated before a program has been
accepted, that the invariants of `CodegenProofs` and `VerifierProofs` hold from then
on, and that the phases behind the code generator are entered only with a complete
module, and those behind the verifier only with one that it accepts. The `LinksByName` that the counting of calls
needs is part of the typechecker's `LinksOK`. The steps
that connect the passes are the lemmas `VisitIsAny` (whatever the parser has
built, a visit of it is one of the typechecker's steps `AnyNext`; a call of
something that names no function is a type error, by `CallOfOther`), `AfreshInv`
(the typechecker starts again after the builtins) and `CoderStarts`; and
`LinksSufficeWhenDone`, which provides the `WellLinked` of `OnlyUndefinedFail`.
`Compiler` and the proof modules instantiate the same definitions, which are
different operators to the prover: the lemmas `Same...` say that they agree, by
expanding every definition on both sides. The theorems of an instance carry the
assumptions on its constants as hypotheses (`...Assumptions`), which hold.

TLC has checked each property before its proof, in the run that lists it.

**Only model-checked:** all liveness (`Finishes`, `Terminates`, `EndIsFound`,
`CallsReturn`; the refinement of `Meaning` is proved, which is safety); what is
said of the texts of the runs (`SentencesAreParsed`, `SpacesAreFree`); and
`BuiltinsAreDeclared`, which depends on what the parser makes of one particular
text. Out of the prover's reach: liveness under fairness,
`ENABLED`, and the library's theorems on induction over data, which take an
operator as a parameter; where `TextProofs` needs induction on a number, it has
sets instead. No module uses `RECURSIVE`.

## Not modelled

* Values. Integers and booleans are their types: overflow, division by zero
  (undefined in the IR) and literals out of range (`atoi`, `Lexer.re:25`) are
  not seen, and a condition may have either outcome wherever it is tested.
* What a called function does while `Execution` runs its caller: it returns.
  Recursion is thus one call deep.
* What the lexer finds behind the terminating null, and after an unexpected
  character (`Lexer.re:59`): undefined in the source.
* The optimizer's passes and the JIT engine's internals (LLVM, `SimpleJIT.h`):
  `Compiler` has their outcomes. The names that LLVM gives to functions of one
  name are in `Main`.
* The layout of dumps, locations and texts of error messages.
* The command line, file input and dumps to files: input and output, of which
  `Compiler` has the outcomes (an error exit, or any of the texts). The build.

## What is left

1. Integer values in `Execution`: 32 bit overflow, division, and undefined
   results of uninitialised reads; and the call stack of generated functions.
2. A proof of `BuiltinsAreDeclared`: what the parser makes of the text of the
   builtin declarations, step by step.
