----------------------------- MODULE Execution ------------------------------
(***************************************************************************)
(* One call of a function that Codegen has generated, and that the         *)
(* verifier has accepted: its instructions are executed one after the      *)
(* other.  LLVM is external; what an instruction does is what Codegen.cpp  *)
(* uses it for.  Conditions may have either outcome, and a called function *)
(* returns.                                                                *)
(*                                                                         *)
(* The position in the source (at) and the variables that it has defined   *)
(* follow the execution for the properties alone: the observable steps of  *)
(* the code are followed one by one, whether or not they agree.            *)
(***************************************************************************)
EXTENDS Codegen

CONSTANT MaxBlocks  \* bound on the blocks of a function

VARIABLES
  running,    \* the function of the module that is running, 0 if none
  block,      \* the block that is being executed,
  next,       \* and its next instruction
  stored,     \* the variables stored to in this call, since they were last declared
  event,      \* what has been observed last
  at, defined \* the source that is being followed

execVars == <<running, block, next, stored, event, at, defined>>
allVars  == <<vars, execVars>>

Source == INSTANCE Meaning

ExecInit == Init /\ running = 0 /\ block = 0 /\ next = 0 /\ stored = {} /\ Source!Init

-----------------------------------------------------------------------------
GenerateCode == Next /\ UNCHANGED execVars

\* The driver runs nothing that the verifier has not accepted.
Run ==
  /\ status = "done" /\ running = 0 /\ ModuleVerifies
  /\ \E m \in DOMAIN module :
       running' = m /\ at' = module[m].def + 1
  /\ block' = 1 /\ next' = 1 /\ stored' = {}
  /\ event' = Source!Called /\ defined' = {}
  /\ UNCHANGED vars

\* The source is followed up to its next observable step.  What it declares
\* has storage still, but from now on nothing in it that is its own.
Settled == running # 0 /\ ~(Source!Executing /\ ~Source!Observable(at))

Follow ==
  /\ running # 0 /\ Source!Executing /\ ~Source!Observable(at)
  /\ Source!Proceed(FALSE)
  /\ stored' = IF syntax[at].n = "Decl" THEN stored \ {Source!Target(at)} ELSE stored
  /\ UNCHANGED <<vars, running, block, next, event>>

Running == Settled /\ event # Source!Returned

Current == module[running].blocks[block][next]

\* The next instruction, or the first one of a block that is branched to.
GoOn(taken) ==
  IF Current.to = <<>>
  THEN block' = block /\ next' = next + 1
  ELSE block' = Current.to[IF taken THEN 1 ELSE Len(Current.to)] /\ next' = 1

Events == [load |-> Source!Load(Current.ref), store |-> Source!Store(Current.ref),
           call |-> Source!CallOf(Current.callee), ret |-> Source!Returned]

\* Instructions that only compute a value, and branches.
Compute ==
  /\ Running /\ Current.op \notin DOMAIN Events \cup {"condbr"}
  /\ GoOn(TRUE)
  /\ UNCHANGED <<vars, running, stored, event, at, defined>>

Observe(taken, e) ==
  /\ GoOn(taken)
  /\ event' = e
  /\ stored' = IF Current.op = "store" THEN stored \cup {Current.ref} ELSE stored
  /\ IF Source!Executing THEN Source!Proceed(taken) ELSE UNCHANGED <<at, defined>>
  /\ UNCHANGED <<vars, running>>

Perform == Running /\ Current.op \in DOMAIN Events /\ Observe(FALSE, Events[Current.op])

Branch == Running /\ Current.op = "condbr" /\ \E taken \in BOOLEAN : Observe(taken, Source!Test(taken))

Execute == Run \/ Follow \/ Compute \/ Perform \/ Branch

\* Nothing is run, or the call has returned.
Over ==
  \/ status = "aborted"
  \/ status = "done" /\ ~ModuleVerifies
  \/ event = Source!Returned

\* A loop of the source is left at the test that ends the given block.
Leave(b) ==
  /\ Running /\ block = b /\ Current.op = "condbr"
  /\ Source!Executing /\ Source!Tests(at) /\ Source!Stmt(at) = "While"
  /\ Observe(FALSE, Source!Test(FALSE))

\* Compiler and code are one thread.  A loop whose condition may fail again
\* and again is left at last: that it is not is a property of the program.
ExecSpec ==
  /\ ExecInit /\ [][GenerateCode \/ Execute \/ (Over /\ UNCHANGED allVars)]_allVars
  /\ WF_allVars(GenerateCode \/ Execute)
  /\ \A b \in 1 .. MaxBlocks : SF_allVars(Leave(b))

(***************************************************************************)
(* Properties                                                              *)
(***************************************************************************)

(* What verified code does is what its source says: on every path through  *)
(* branches and loops it accesses the same variables, calls the same       *)
(* functions, tests as many conditions and returns at the same points, in  *)
(* the same order (Codegen.cpp:216-348).                                   *)
ImplementsSource == Source!Spec

(* A variable that has a value in the source has storage that has been     *)
(* written since it was declared, in this call and in this turn of a loop: *)
(* what it is read from holds nothing older, and nothing undefined, unless *)
(* the source reads a variable before it gives it a value - though storage *)
(* is allocated once in a call, outlives the scope, and is never cleared   *)
(* (Codegen.cpp:252-264).                                                  *)
DefinedIsStored == defined \subseteq stored

(* A call returns, if every loop of its source is left: the code has no    *)
(* loops of its own, and never waits at a block that does not end          *)
(* (Codegen.cpp:323-348, 426-428).                                         *)
CallsReturn == <>Over
=============================================================================
