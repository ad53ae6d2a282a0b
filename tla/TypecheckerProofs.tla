------------------------- MODULE TypecheckerProofs --------------------------
(***************************************************************************)
(* Proofs about Typechecker, for every set of builtins and definitions and *)
(* programs of any size and nesting: its type invariant, that a Visit      *)
(* function leaves the chain of scopes as it found it, and that a call is  *)
(* linked to the first definition that matches it; the chain of scopes     *)
(* resolves every name as the text of the program does                     *)
(* (ScopeChainIsLexical), and so do the links that are stored in the tree  *)
(* (LinksAreLexical); a program that typechecks has a typing.              *)
(***************************************************************************)
EXTENDS Typechecker, Typing, FiniteSetTheorems, SequenceTheorems, WellFoundedInduction, TLAPS

NodeAt(program, k, kind) == k \in DOMAIN program /\ program[k].n = kind

\* The number of scopes while the Visit functions above a frame run.
Depth(fr) == IF fr.pc = "Seq" THEN fr.scope + 1 ELSE fr.scope

\* The active Visit functions: those of assignments stand at such nodes, and
\* each has been called with the scopes that its caller had made current; n
\* is the number of scopes now.
FramesOK(program, n, fs) ==
  /\ fs \in Seq(Frames)
  /\ \A i \in DOMAIN fs : fs[i].pc = "AssignExp" => NodeAt(program, fs[i].node, "Assign")
  /\ \A i \in 2 .. Len(fs) : fs[i].scope = Depth(fs[i - 1])
  /\ fs # <<>> => n = Depth(fs[Len(fs)])

\* The function table holds the function definitions in the order of the
\* program, and calls are linked to the first that they match.
TableOK(program, table) ==
  /\ \A i \in DOMAIN table : NodeAt(program, table[i], "Func")
  /\ \A i, j \in DOMAIN table : i < j => table[i] < table[j]
  /\ \A k \in DOMAIN program : program[k].n = "Func" => \E i \in DOMAIN table : table[i] = k

LinkOK(program, i) ==
  LET f == program[i].def IN
  /\ NodeAt(program, f, "Func") /\ f < i /\ program[f].def.name = program[i].name
  /\ \A g \in 1 .. f - 1 :
       ~ /\ program[g].n = "Func"
         /\ program[g].def.name = program[f].def.name
         /\ ParamTypes(program[g].def) = ParamTypes(program[f].def)

LinksOK(program) == \A i \in DOMAIN program : program[i].n = "Call" => LinkOK(program, i)

IInv ==
  /\ TypeOK
  /\ FramesOK(syntax, Len(scopes), frames)
  /\ TableOK(syntax, funcTable)
  /\ LinksOK(syntax)

-----------------------------------------------------------------------------
(* The least of a set of positions ...                                     *)
LEMMA MinOfPositions ==
  ASSUME NEW S \in SUBSET Nat, S # {}
  PROVE  Min(S) \in S /\ \A y \in S : Min(S) <= y
<1>1. IsWellFoundedOn(OpToRel(<, Nat), Nat)
  BY NatLessThanWellFounded
<1>2. PICK x \in S : \A y \in S : ~ (<<y, x>> \in OpToRel(<, Nat))
  <2>. HIDE DEF OpToRel
  <2>. QED  BY <1>1, WFMin
<1>3. \A y \in S : ~ (y < x)
  BY <1>2 DEF OpToRel
<1>4. x \in S /\ \A y \in S : x =< y
  BY <1>3
<1>. QED  BY <1>4 DEF Min

(* ... and the greatest, of positions up to n.                             *)
LEMMA MaxOfPositions ==
  ASSUME NEW n \in Nat, NEW S \in SUBSET (1 .. n), S # {}
  PROVE  Max(S) \in S /\ \A y \in S : y <= Max(S)
<1>. DEFINE T == {n - y : y \in S}
<1>1. T \in SUBSET Nat /\ T # {}
  <2>1. \A y \in S : n - y \in Nat
    OBVIOUS
  <2>. QED  BY <2>1
<1>2. Min(T) \in T /\ \A z \in T : Min(T) <= z
  <2>. HIDE DEF T
  <2>. QED  BY <1>1, MinOfPositions
<1>3. PICK x \in S : Min(T) = n - x
  BY <1>2
<1>4. \A y \in S : n - x <= n - y
  BY <1>2, <1>3
<1>5. x \in S /\ \A y \in S : x >= y
  BY <1>4
<1>. QED  BY <1>5 DEF Max

(* A visible name is found, and what is found is a declaration.            *)
LEMMA FindType ==
  ASSUME TypeOK, NEW x, Visible(x)
  PROVE  Find(x) \in VarDecls
<1>. DEFINE I == {i \in 1 .. Len(scopes) : Declares(scopes[i], x)}
<1>1. scopes \in Seq(Scopes) /\ Len(scopes) \in Nat /\ DOMAIN scopes = 1 .. Len(scopes)
  BY DEF TypeOK
<1>2. I \in SUBSET (1 .. Len(scopes)) /\ I # {}
  BY <1>1 DEF Visible
<1>3. Max(I) \in I
  <2>. HIDE DEF I
  <2>. QED  BY <1>1, <1>2, MaxOfPositions
<1>4. SelectLastInSeq(scopes, LAMBDA scope : Declares(scope, x)) = Max(I)
  BY <1>2 DEF SelectLastInSeq
<1>5. Find(x) = CHOOSE d \in scopes[Max(I)] : d.name = x
  BY <1>4 DEF Find
<1>6. Max(I) \in DOMAIN scopes /\ Declares(scopes[Max(I)], x)
  BY <1>1, <1>3
<1>7. scopes[Max(I)] \subseteq VarDecls
  <2>. HIDE DEF I
  <2>1. scopes[Max(I)] \in Scopes
    BY <1>1, <1>6, ElementOfSeq
  <2>. QED  BY <2>1 DEF Scopes
<1>. HIDE DEF I
<1>. QED  BY <1>5, <1>6, <1>7 DEF Declares

(* The function that is found is the first one with that name and those    *)
(* parameter types.                                                        *)
LEMMA FindFuncFirst ==
  ASSUME TypeOK, NEW name, NEW args
  PROVE  LET Matches(f) == syntax[f].def.name = name /\ ParamTypes(syntax[f].def) = args
             pos == FindFunc(name, args)
         IN  /\ pos \in DOMAIN funcTable \cup {0}
             /\ pos # 0 => /\ Matches(funcTable[pos])
                           /\ \A i \in 1 .. pos - 1 : ~ Matches(funcTable[i])
<1>. DEFINE Matches(f) == syntax[f].def.name = name /\ ParamTypes(syntax[f].def) = args
            I == {i \in 1 .. Len(funcTable) : Matches(funcTable[i])}
            pos == FindFunc(name, args)
<1>1. Len(funcTable) \in Nat /\ DOMAIN funcTable = 1 .. Len(funcTable)
  BY DEF TypeOK
<1>2. pos = IF I # {} THEN Min(I) ELSE 0
  BY DEF FindFunc, SelectInSeq
<1>3. I \in SUBSET Nat /\ I \subseteq 1 .. Len(funcTable)
  BY <1>1
<1>4. I # {} => Min(I) \in I /\ \A y \in I : Min(I) <= y
  <2>. HIDE DEF I
  <2>. QED  BY <1>3, MinOfPositions
<1>5. CASE I = {}
  BY <1>2, <1>5
<1>6. CASE I # {}
  <2>1. pos \in I /\ \A y \in I : pos <= y
    BY <1>2, <1>4, <1>6
  <2>2. pos \in 1 .. Len(funcTable) /\ Matches(funcTable[pos])
    BY <2>1
  <2>3. ASSUME NEW i \in 1 .. pos - 1 PROVE ~ Matches(funcTable[i])
    <3>1. i \in 1 .. Len(funcTable) /\ ~ (pos <= i)
      BY <1>1, <2>2
    <3>. QED  BY <2>1, <3>1
  <2>. QED  BY <1>1, <2>2, <2>3
<1>. QED  BY <1>5, <1>6
-----------------------------------------------------------------------------
(* Programs that grow by a node.                                           *)

\* Nodes keep their kind, functions and calls also what they hold.
Grows(old, new) ==
  /\ \A k \in DOMAIN old : k \in DOMAIN new /\ new[k].n = old[k].n
  /\ \A k \in DOMAIN old : old[k].n \in {"Func", "Call"} => new[k] = old[k]

\* No function and no call has been added.
AddsNone(old, new) ==
  \A k \in DOMAIN new : new[k].n \in {"Func", "Call"} => k \in DOMAIN old

(* Appending a node.                                                       *)
LEMMA AppendNode ==
  ASSUME NEW prog \in Seq(Nodes), NEW node \in Nodes
  PROVE  /\ Append(prog, node) \in Seq(Nodes)
         /\ Len(prog) + 1 \in Nat
         /\ DOMAIN Append(prog, node) = DOMAIN prog \cup {Len(prog) + 1}
         /\ Grows(prog, Append(prog, node))
         /\ NodeAt(Append(prog, node), Len(prog) + 1, node.n)
         /\ node.n \notin {"Func", "Call"} => AddsNone(prog, Append(prog, node))
<1>1. /\ Append(prog, node) \in Seq(Nodes) /\ Len(Append(prog, node)) = Len(prog) + 1
      /\ \A k \in 1 .. Len(prog) : Append(prog, node)[k] = prog[k]
      /\ Append(prog, node)[Len(prog) + 1] = node
      /\ DOMAIN prog = 1 .. Len(prog) /\ Len(prog) \in Nat
      /\ DOMAIN Append(prog, node) = 1 .. Len(prog) + 1
  OBVIOUS
<1>2. DOMAIN Append(prog, node) = DOMAIN prog \cup {Len(prog) + 1}
  BY <1>1
<1>3. \A k \in DOMAIN prog : Append(prog, node)[k] = prog[k]
  BY <1>1
<1>. QED  BY <1>1, <1>2, <1>3 DEF Grows, NodeAt, AddsNone

(* A link stays right as the program grows.                                *)
LEMMA LinkKept ==
  ASSUME NEW old \in Seq(Nodes), NEW new, Grows(old, new),
         NEW i \in DOMAIN old, old[i].n = "Call", LinkOK(old, i)
  PROVE  LinkOK(new, i)
<1>. DEFINE f == old[i].def
<1>1. new[i] = old[i]
  BY DEF Grows
<1>2. NodeAt(old, f, "Func") /\ f < i /\ old[f].def.name = old[i].name
  BY DEF LinkOK
<1>3. NodeAt(new, f, "Func") /\ new[f] = old[f]
  BY <1>2 DEF NodeAt, Grows
<1>4. ASSUME NEW g \in 1 .. f - 1, new[g].n = "Func"
      PROVE  ~ /\ new[g].def.name = new[f].def.name
               /\ ParamTypes(new[g].def) = ParamTypes(new[f].def)
  <2>1. f \in 1 .. Len(old) /\ Len(old) \in Nat /\ DOMAIN old = 1 .. Len(old)
    BY <1>2 DEF NodeAt
  <2>2. \A m \in 1 .. Len(old) : 1 .. m - 1 \subseteq 1 .. Len(old)
    BY <2>1
  <2>3. g \in DOMAIN old
    <3>. HIDE DEF f
    <3>. QED  BY <1>4, <2>1, <2>2
  <2>4. old[g].n = "Func" /\ new[g] = old[g]
    BY <1>4, <2>3 DEF Grows
  <2>. QED  BY <1>3, <1>4, <2>4 DEF LinkOK
<1>. QED  BY <1>1, <1>2, <1>3, <1>4 DEF LinkOK

(* Without new functions and calls, the table and the links stay right.    *)
LEMMA LinksKept ==
  ASSUME NEW old \in Seq(Nodes), NEW new, Grows(old, new), AddsNone(old, new),
         NEW table, TableOK(old, table), LinksOK(old)
  PROVE  TableOK(new, table) /\ LinksOK(new)
<1>1. TableOK(new, table)
  BY DEF TableOK, Grows, AddsNone, NodeAt
<1>2. ASSUME NEW i \in DOMAIN new, new[i].n = "Call" PROVE LinkOK(new, i)
  <2>1. i \in DOMAIN old /\ old[i].n = "Call"
    BY <1>2 DEF Grows, AddsNone
  <2>. QED  BY <2>1, LinkKept DEF LinksOK
<1>. QED  BY <1>1, <1>2 DEF LinksOK

-----------------------------------------------------------------------------
(* The sequences of frames that the actions make from the current one.     *)
LEMMA FramesGrown ==
  ASSUME NEW old, NEW new, Grows(old, new), NEW n, NEW fs, FramesOK(old, n, fs)
  PROVE  FramesOK(new, n, fs)
  BY DEF FramesOK, Grows, NodeAt

(* The innermost frame.                                                    *)
LEMMA LastFrame ==
  ASSUME NEW fs \in Seq(Frames), fs # <<>>
  PROVE  /\ Len(fs) \in Nat \ {0} /\ Len(fs) \in DOMAIN fs /\ DOMAIN fs = 1 .. Len(fs)
         /\ Last(fs) = fs[Len(fs)] /\ Last(fs) \in Frames
         /\ fs[Len(fs)] \in Frames /\ fs[Len(fs)].scope \in Nat
<1>1. Len(fs) \in Nat \ {0} /\ DOMAIN fs = 1 .. Len(fs)
  OBVIOUS
<1>2. Len(fs) \in DOMAIN fs /\ fs[Len(fs)] \in Frames
  BY <1>1
<1>. QED  BY <1>1, <1>2 DEF Last, Frames

(* A Visit function that returns leaves the frame of its caller, which had *)
(* as many scopes as it was called with.                                   *)
LEMMA FramesPopped ==
  ASSUME NEW prog, NEW n, NEW fs, FramesOK(prog, n, fs), fs # <<>>
  PROVE  FramesOK(prog, Last(fs).scope, Front(fs)) /\ Len(Front(fs)) = Len(fs) - 1
<1>. DEFINE m == Len(fs) - 1
<1>1. fs \in Seq(Frames) /\ m \in Nat /\ Len(fs) = m + 1 /\ Last(fs) = fs[m + 1]
  BY LastFrame DEF FramesOK
<1>2. \A i \in 1 .. m : fs[i] \in Frames
  BY <1>1
<1>3. Front(fs) = SubSeq(fs, 1, m)
  BY DEF Front
<1>. HIDE DEF m
<1>4. /\ Front(fs) \in Seq(Frames) /\ Len(Front(fs)) = m /\ DOMAIN Front(fs) = 1 .. m
      /\ \A i \in 1 .. m : Front(fs)[i] = fs[i]
  BY <1>1, <1>2, <1>3
<1>5. DOMAIN fs = 1 .. m + 1
  BY <1>1
<1>6. \A i \in DOMAIN Front(fs) :
        Front(fs)[i].pc = "AssignExp" => NodeAt(prog, Front(fs)[i].node, "Assign")
  BY <1>1, <1>4, <1>5 DEF FramesOK
<1>7. \A i \in 2 .. m : Front(fs)[i].scope = Depth(Front(fs)[i - 1])
  <2>1. \A i \in 2 .. m : i \in 1 .. m /\ i - 1 \in 1 .. m /\ i \in 2 .. m + 1
    BY <1>1
  <2>2. \A i \in 2 .. m : Front(fs)[i] = fs[i] /\ Front(fs)[i - 1] = fs[i - 1]
    BY <1>4, <2>1
  <2>. QED  BY <1>1, <2>1, <2>2 DEF FramesOK
<1>8. Front(fs) # <<>> => Last(fs).scope = Depth(Front(fs)[m])
  <2>. SUFFICES ASSUME Front(fs) # <<>> PROVE Last(fs).scope = Depth(Front(fs)[m])
    OBVIOUS
  <2>1. m # 0
    BY <1>4
  <2>2. m + 1 \in 2 .. m + 1 /\ m \in 1 .. m /\ (m + 1) - 1 = m
    BY <1>1, <2>1
  <2>3. fs[m + 1].scope = Depth(fs[m])
    BY <1>1, <2>2 DEF FramesOK
  <2>. QED  BY <1>1, <1>4, <2>2, <2>3
<1>9. FramesOK(prog, Last(fs).scope, Front(fs))
  BY <1>4, <1>6, <1>7, <1>8 DEF FramesOK
<1>. QED  BY <1>4, <1>9 DEF m

(* The innermost Visit function goes on, with the scopes that it has.      *)
LEMMA FramesMoved ==
  ASSUME NEW prog, NEW n, NEW fs, FramesOK(prog, n, fs), fs # <<>>,
         NEW pc \in ControlPoints \ {"AssignExp"}, pc = "Seq" <=> fs[Len(fs)].pc = "Seq"
  PROVE  /\ FramesOK(prog, n, SetPc(fs, pc)) /\ Len(SetPc(fs, pc)) = Len(fs)
         /\ SetPc(fs, pc) # <<>>
<1>. DEFINE fr == [fs[Len(fs)] EXCEPT !.pc = pc]
            new == [fs EXCEPT ![Len(fs)] = fr]
<1>1. fs \in Seq(Frames) /\ Len(fs) \in Nat \ {0} /\ fs[Len(fs)] \in Frames
  BY LastFrame DEF FramesOK
<1>2. fr \in Frames /\ fr.pc = pc /\ fr.scope = fs[Len(fs)].scope
  BY <1>1 DEF Frames
<1>3. SetPc(fs, pc) = new
  BY DEF SetPc
<1>4. Depth(fr) = Depth(fs[Len(fs)])
  BY <1>2 DEF Depth
<1>. HIDE DEF fr
<1>5. /\ new \in Seq(Frames) /\ Len(new) = Len(fs) /\ DOMAIN new = DOMAIN fs
      /\ new[Len(fs)] = fr /\ new # <<>>
      /\ \A i \in DOMAIN fs : i # Len(fs) => new[i] = fs[i]
  BY <1>1, <1>2
<1>6. \A i \in DOMAIN fs : Depth(new[i]) = Depth(fs[i]) /\ new[i].scope = fs[i].scope
  BY <1>2, <1>4, <1>5
<1>7. \A i \in DOMAIN new : new[i].pc = "AssignExp" => NodeAt(prog, new[i].node, "Assign")
  BY <1>2, <1>5 DEF FramesOK
<1>8. \A i \in 2 .. Len(fs) : i \in DOMAIN fs /\ i - 1 \in DOMAIN fs
  BY <1>1
<1>. HIDE DEF new
<1>9. FramesOK(prog, n, new)
  BY <1>1, <1>5, <1>6, <1>7, <1>8 DEF FramesOK
<1>. QED  BY <1>3, <1>5, <1>9

(* A Visit function is called: it is given the current scopes.             *)
LEMMA FramesEntered ==
  ASSUME NEW prog, NEW n \in Nat, NEW fs, FramesOK(prog, n, fs), At(fs, StmtPoints)
  PROVE  /\ FramesOK(prog, n, Resume(fs)) /\ Len(Resume(fs)) = Len(fs)
         /\ \A fr \in Frames :
              fr.scope = n /\ (fr.pc = "AssignExp" => NodeAt(prog, fr.node, "Assign"))
                => FramesOK(prog, Depth(fr), Enter(fs, fr)) /\ Len(Enter(fs, fr)) = Len(fs) + 1
<1>. DEFINE old == fs[Len(fs)]
            res == Resume(fs)
<1>1. fs \in Seq(Frames) /\ fs # <<>> /\ old.pc \in StmtPoints /\ Len(fs) \in DOMAIN fs
  BY LastFrame DEF FramesOK, At
<1>2. /\ After[old.pc] \in ControlPoints \ {"AssignExp"}
      /\ After[old.pc] = "Seq" <=> old.pc = "Seq"
  BY <1>1 DEF After, ControlPoints, StmtPoints, EndPoints
<1>3. res = SetPc(fs, After[old.pc])
  BY <1>1 DEF Resume, SetPc
<1>4. FramesOK(prog, n, res) /\ Len(res) = Len(fs) /\ res # <<>>
  BY <1>1, <1>2, <1>3, FramesMoved
<1>. HIDE DEF res
<1>5. ASSUME NEW fr \in Frames, fr.scope = n,
             fr.pc = "AssignExp" => NodeAt(prog, fr.node, "Assign")
      PROVE  FramesOK(prog, Depth(fr), Append(res, fr)) /\ Len(Append(res, fr)) = Len(fs) + 1
  <2>. DEFINE new == Append(res, fr)
  <2>1. res \in Seq(Frames) /\ Len(res) \in Nat \ {0} /\ n = Depth(res[Len(res)])
    BY <1>4, LastFrame DEF FramesOK
  <2>2. /\ new \in Seq(Frames) /\ Len(new) = Len(res) + 1 /\ new[Len(res) + 1] = fr
        /\ \A i \in 1 .. Len(res) : new[i] = res[i]
        /\ DOMAIN new = 1 .. Len(res) + 1 /\ DOMAIN res = 1 .. Len(res)
    BY <2>1
  <2>. HIDE DEF new
  <2>3. \A i \in DOMAIN new : new[i].pc = "AssignExp" => NodeAt(prog, new[i].node, "Assign")
    <3>1. \A i \in DOMAIN new : i = Len(res) + 1 \/ i \in DOMAIN res
      BY <2>1, <2>2
    <3>. QED  BY <1>4, <1>5, <2>2, <3>1 DEF FramesOK
  <2>4. ASSUME NEW i \in 2 .. Len(new) PROVE new[i].scope = Depth(new[i - 1])
    <3>1. i - 1 \in 1 .. Len(res) /\ new[i - 1] = res[i - 1]
      BY <2>1, <2>2
    <3>2. CASE i = Len(res) + 1
      BY <1>5, <2>1, <2>2, <3>1, <3>2
    <3>3. CASE i # Len(res) + 1
      <4>1. i \in 2 .. Len(res) /\ new[i] = res[i]
        BY <2>1, <2>2, <3>3
      <4>. QED  BY <1>4, <3>1, <4>1 DEF FramesOK
    <3>. QED  BY <3>2, <3>3
  <2>5. Depth(fr) = Depth(new[Len(new)])
    BY <2>2
  <2>6. FramesOK(prog, Depth(fr), new)
    BY <2>2, <2>3, <2>4, <2>5 DEF FramesOK
  <2>. QED  BY <1>4, <2>2, <2>6 DEF new
<1>6. \A fr : Enter(fs, fr) = Append(res, fr)
  BY DEF Enter, res
<1>. QED  BY <1>4, <1>5, <1>6 DEF res
-----------------------------------------------------------------------------
(* The steps.  Each keeps the invariant, and when a Visit function returns *)
(* to another one, the scopes are those it has been called with.           *)
RestoresScope ==
  Len(frames') < Len(frames) /\ frames' # <<>> => scopes' = SubSeq(scopes, 1, Last(frames).scope)

(* The nodes that the typechecker visits.                                  *)
LEMMA NodeTypes ==
  /\ \A m \in Marks : Mark(m) \in Nodes /\ Mark(m).n = m /\ m \notin {"Func", "Call"}
  /\ \A def \in FuncDefs : [n |-> "Func", def |-> def] \in Nodes
  /\ \A x \in VarNames, t \in Types, init \in BOOLEAN :
       [n |-> "Decl", name |-> x, type |-> t, init |-> init] \in Nodes
  /\ \A x \in VarNames, d \in VarDecls \cup {Null} :
       [n |-> "Assign", name |-> x, decl |-> d] \in Nodes
  /\ \A else \in BOOLEAN : [n |-> "If", else |-> else] \in Nodes
  /\ \A t \in Types : [n |-> "Const", type |-> t] \in Nodes
  /\ \A x \in VarNames, d \in VarDecls : [n |-> "Var", name |-> x, decl |-> d] \in Nodes
  /\ \A name \in FuncNames, n \in Nat, t \in Types, f \in Nat :
       [n |-> "Call", name |-> name, args |-> n, type |-> t, def |-> f] \in Nodes
<1>1. \A m \in Marks : Mark(m) \in Nodes /\ Mark(m).n = m /\ m \notin {"Func", "Call"}
  BY DEF Mark, Marks, Nodes
<1>. QED  BY <1>1 DEF Nodes

(* The fields of nodes that the typechecker reads or sets.                 *)
LEMMA NodeFields ==
  ASSUME NEW node \in Nodes
  PROVE  /\ node.n = "Func" => node.def \in FuncDefs /\ node.def.ret \in Types
         /\ node.n = "Assign" => \A d \in VarDecls : [node EXCEPT !.decl = d] \in Nodes
  BY DEF Nodes, Marks, FuncDefs

(* The declarations of variables.                                          *)
LEMMA DeclTypes ==
  /\ \A owner \in Nat, x \in VarNames, t \in Types : LocalDecl(owner, x, t) \in VarDecls
  /\ \A owner \in Nat, def \in FuncDefs : ParamDecls(owner, def) \in Scopes
<1>1. \A owner \in Nat, x \in VarNames, t \in Types : LocalDecl(owner, x, t) \in VarDecls
  BY DEF LocalDecl, VarDecls
<1>2. ASSUME NEW owner \in Nat, NEW def \in FuncDefs
      PROVE  ParamDecls(owner, def) \in Scopes
  <2>1. def.params \in Seq(Params)
    BY DEF FuncDefs
  <2>2. ASSUME NEW i \in DOMAIN def.params
        PROVE  i \in Nat /\ def.params[i].name \in VarNames /\ def.params[i].type \in Types
    <3>1. i \in 1 .. Len(def.params) /\ def.params[i] \in Params
      BY <2>1, <2>2
    <3>. QED  BY <3>1 DEF Params
  <2>. QED  BY <2>2 DEF ParamDecls, VarDecls, Scopes
<1>. QED  BY <1>1, <1>2

(* A frame that is not a sequence's has the current scopes.                *)
LEMMA ScopeOfFrame ==
  ASSUME IInv, frames # <<>>
  PROVE  /\ Len(frames) \in Nat \ {0} /\ Last(frames) = frames[Len(frames)]
         /\ Len(scopes) \in Nat /\ Last(frames).scope \in Nat
         /\ Last(frames).pc = "Seq" => Len(scopes) = Last(frames).scope + 1
         /\ Last(frames).pc # "Seq" => /\ Len(scopes) = Last(frames).scope
                                       /\ scopes = SubSeq(scopes, 1, Last(frames).scope)
<1>1. scopes \in Seq(Scopes) /\ Len(scopes) \in Nat /\ frames \in Seq(Frames)
  BY DEF IInv, TypeOK
<1>2. /\ Len(frames) \in Nat \ {0} /\ Last(frames) = frames[Len(frames)]
      /\ Last(frames).scope \in Nat
  BY <1>1, LastFrame
<1>3. Len(scopes) = Depth(Last(frames))
  BY <1>2 DEF IInv, FramesOK
<1>4. SubSeq(scopes, 1, Len(scopes)) = scopes
  BY <1>1, SubSeqFull
<1>. QED  BY <1>1, <1>2, <1>3, <1>4 DEF Depth

(* An error leaves no Visit function active.                               *)
LEMMA TypeErrorKeeps ==
  ASSUME IInv, TypeError
  PROVE  IInv' /\ RestoresScope
<1>1. TypeOK'
  BY DEF IInv, TypeOK, TypeError
<1>2. FramesOK(syntax', Len(scopes'), frames')
  BY DEF TypeError, FramesOK
<1>. QED  BY <1>1, <1>2 DEF IInv, TypeError, RestoresScope

(* A statement whose Visit function first visits an expression.            *)
LEMMA VisitExpOfKeeps ==
  ASSUME IInv, NEW kind, NEW node \in Nodes, node.n \notin {"Func", "Call"},
         NEW pc \in ExpPoints, pc = "AssignExp" => node.n = "Assign", VisitExpOf(kind, node, pc)
  PROVE  IInv' /\ RestoresScope
<1>. DEFINE prog == Append(syntax, node)
            fr == NewFrame(pc)
<1>1. /\ syntax \in Seq(Nodes) /\ Len(scopes) \in Nat /\ FramesOK(syntax, Len(scopes), frames)
      /\ TableOK(syntax, funcTable) /\ LinksOK(syntax) /\ At(frames, StmtPoints)
  BY DEF IInv, TypeOK, VisitExpOf, MayVisit
<1>2. /\ prog \in Seq(Nodes) /\ Grows(syntax, prog) /\ AddsNone(syntax, prog)
      /\ NodeAt(prog, Len(syntax) + 1, node.n) /\ Len(syntax) + 1 \in Nat
  BY <1>1, AppendNode
<1>3. TableOK(prog, funcTable) /\ LinksOK(prog)
  BY <1>1, <1>2, LinksKept
<1>4. FramesOK(prog, Len(scopes), frames)
  BY <1>1, <1>2, FramesGrown
<1>5. /\ fr \in Frames /\ fr.scope = Len(scopes) /\ fr.pc = pc /\ fr.node = Len(syntax) + 1
      /\ Depth(fr) = Len(scopes)
  BY <1>1, <1>2 DEF NewFrame, Frames, ControlPoints, ExpPoints, Depth
<1>. HIDE DEF prog, fr
<1>6. /\ FramesOK(prog, Len(scopes), Enter(frames, fr)) /\ Len(Enter(frames, fr)) = Len(frames) + 1
  <2>1. fr.pc = "AssignExp" => NodeAt(prog, fr.node, "Assign")
    BY <1>2, <1>5
  <2>. QED  BY <1>1, <1>4, <1>5, <2>1, FramesEntered
<1>7. syntax' = prog /\ frames' = Enter(frames, fr) /\ UNCHANGED <<funcTable, scopes, types, status>>
  BY DEF VisitExpOf, prog, fr
<1>8. FramesOK(syntax', Len(scopes'), frames') /\ Len(frames') = Len(frames) + 1
  BY <1>6, <1>7
<1>9. TypeOK'
  BY <1>2, <1>7, <1>8 DEF IInv, TypeOK, FramesOK
<1>10. ~ (Len(frames') < Len(frames))
  BY <1>8 DEF IInv, TypeOK
<1>. QED  BY <1>3, <1>7, <1>8, <1>9, <1>10 DEF IInv, RestoresScope
(* A declaration is added to the innermost scope.                          *)
LEMMA VisitDeclKeeps ==
  ASSUME IInv, NEW x \in VarNames, NEW t \in Types, NEW init \in BOOLEAN, VisitDecl(x, t, init)
  PROVE  IInv' /\ RestoresScope
<1>. DEFINE node == [n |-> "Decl", name |-> x, type |-> t, init |-> init]
            prog == Append(syntax, node)
            fr == NewFrame("DeclInit")
            decl == LocalDecl(Len(syntax) + 1, x, t)
            new == [scopes EXCEPT ![Len(scopes)] = @ \cup {decl}]
<1>1. /\ syntax \in Seq(Nodes) /\ Len(scopes) \in Nat /\ FramesOK(syntax, Len(scopes), frames)
      /\ TableOK(syntax, funcTable) /\ LinksOK(syntax) /\ At(frames, StmtPoints)
      /\ scopes \in Seq(Scopes) /\ node \in Nodes /\ node.n = "Decl"
  BY NodeTypes DEF IInv, TypeOK, VisitDecl, MayVisit
<1>. HIDE DEF node
<1>2. /\ prog \in Seq(Nodes) /\ Grows(syntax, prog) /\ AddsNone(syntax, prog)
      /\ Len(syntax) + 1 \in Nat
  BY <1>1, AppendNode
<1>3. TableOK(prog, funcTable) /\ LinksOK(prog)
  BY <1>1, <1>2, LinksKept
<1>4. FramesOK(prog, Len(scopes), frames)
  BY <1>1, <1>2, FramesGrown
<1>5. fr \in Frames /\ fr.scope = Len(scopes) /\ fr.pc = "DeclInit" /\ Depth(fr) = Len(scopes)
  BY <1>1, <1>2 DEF NewFrame, Frames, ControlPoints, ExpPoints, Depth
<1>6. new \in Seq(Scopes) /\ Len(new) = Len(scopes)
  <2>1. decl \in VarDecls
    BY <1>2, DeclTypes
  <2>. HIDE DEF decl
  <2>2. \A i \in DOMAIN scopes : scopes[i] \cup {decl} \in Scopes
    BY <1>1, <2>1 DEF Scopes
  <2>3. CASE Len(scopes) \in DOMAIN scopes
    <3>. DEFINE scope == scopes[Len(scopes)] \cup {decl}
    <3>1. scope \in Scopes /\ new = [scopes EXCEPT ![Len(scopes)] = scope]
      BY <2>2, <2>3
    <3>. HIDE DEF scope, new
    <3>. QED  BY <1>1, <2>3, <3>1
  <2>4. CASE Len(scopes) \notin DOMAIN scopes
    <3>1. new = scopes
      BY <1>1, <2>4
    <3>. QED  BY <1>1, <3>1
  <2>. QED  BY <2>3, <2>4
<1>. HIDE DEF prog, fr, new
<1>7. CASE TypeError
  BY <1>7, TypeErrorKeeps
<1>8. CASE ~ TypeError
  <2>1. /\ syntax' = prog /\ scopes' = new /\ UNCHANGED <<funcTable, types, status>>
        /\ frames' = Enter(frames, fr) \/ frames' = Resume(frames)
    BY <1>8 DEF VisitDecl, prog, node, new, fr, decl
  <2>2. /\ FramesOK(prog, Len(scopes), Enter(frames, fr)) /\ Len(Enter(frames, fr)) = Len(frames) + 1
        /\ FramesOK(prog, Len(scopes), Resume(frames)) /\ Len(Resume(frames)) = Len(frames)
    BY <1>1, <1>4, <1>5, FramesEntered
  <2>3. FramesOK(syntax', Len(scopes'), frames')
    BY <1>6, <2>1, <2>2
  <2>4. TypeOK'
    BY <1>2, <1>6, <2>1, <2>3 DEF IInv, TypeOK, FramesOK
  <2>5. ~ (Len(frames') < Len(frames))
    BY <2>1, <2>2 DEF IInv, TypeOK
  <2>. QED  BY <1>3, <2>1, <2>3, <2>4, <2>5 DEF IInv, RestoresScope
<1>. QED  BY <1>7, <1>8

(* A sequence opens a scope, which only its own frame counts.              *)
LEMMA VisitSeqKeeps ==
  ASSUME IInv, VisitSeq
  PROVE  IInv' /\ RestoresScope
<1>. DEFINE prog == Append(syntax, Mark("Seq"))
            fr == NewFrame("Seq")
<1>1. /\ syntax \in Seq(Nodes) /\ Len(scopes) \in Nat /\ FramesOK(syntax, Len(scopes), frames)
      /\ TableOK(syntax, funcTable) /\ LinksOK(syntax) /\ At(frames, StmtPoints)
      /\ scopes \in Seq(Scopes)
  BY DEF IInv, TypeOK, VisitSeq, MayVisit
<1>2. Mark("Seq") \in Nodes /\ Mark("Seq").n \notin {"Func", "Call"}
  BY NodeTypes DEF Marks
<1>3. /\ prog \in Seq(Nodes) /\ Grows(syntax, prog) /\ AddsNone(syntax, prog)
      /\ Len(syntax) + 1 \in Nat
  BY <1>1, <1>2, AppendNode
<1>4. TableOK(prog, funcTable) /\ LinksOK(prog)
  BY <1>1, <1>3, LinksKept
<1>5. FramesOK(prog, Len(scopes), frames)
  BY <1>1, <1>3, FramesGrown
<1>6. fr \in Frames /\ fr.scope = Len(scopes) /\ fr.pc = "Seq" /\ Depth(fr) = Len(scopes) + 1
  BY <1>1, <1>3 DEF NewFrame, Frames, ControlPoints, StmtPoints, Depth
<1>7. /\ syntax' = prog /\ scopes' = Append(scopes, {}) /\ frames' = Enter(frames, fr)
      /\ UNCHANGED <<funcTable, types, status>>
  BY DEF VisitSeq
<1>. HIDE DEF prog, fr
<1>8. FramesOK(prog, Len(scopes) + 1, Enter(frames, fr)) /\ Len(Enter(frames, fr)) = Len(frames) + 1
  BY <1>1, <1>5, <1>6, FramesEntered
<1>9. Append(scopes, {}) \in Seq(Scopes) /\ Len(Append(scopes, {})) = Len(scopes) + 1
  <2>1. {} \in Scopes
    BY DEF Scopes
  <2>. QED  BY <1>1, <2>1
<1>10. FramesOK(syntax', Len(scopes'), frames') /\ Len(frames') = Len(frames) + 1
  BY <1>7, <1>8, <1>9
<1>11. TypeOK'
  BY <1>3, <1>7, <1>9, <1>10 DEF IInv, TypeOK, FramesOK
<1>12. ~ (Len(frames') < Len(frames))
  BY <1>10 DEF IInv, TypeOK
<1>. QED  BY <1>4, <1>7, <1>10, <1>11, <1>12 DEF IInv, RestoresScope

(* What an action adds to the program and to the frames when it ends a     *)
(* Visit function or moves it on; only a sequence's takes its scope away.  *)
LEMMA EndKeeps ==
  ASSUME IInv, frames # <<>>,
         NEW prog \in Seq(Nodes), Grows(syntax, prog), AddsNone(syntax, prog),
         syntax' = prog, UNCHANGED <<funcTable, status>>, types' \in Seq(Types),
         \/ /\ frames' = Front(frames)
            /\ IF Last(frames).pc = "Seq" THEN scopes' = SubSeq(scopes, 1, Last(frames).scope)
                                          ELSE scopes' = scopes
         \/ /\ Last(frames).pc # "Seq" /\ scopes' = scopes
            /\ \E pc \in ControlPoints \ {"AssignExp", "Seq"} : frames' = SetPc(frames, pc)
  PROVE  IInv' /\ RestoresScope
<1>1. /\ FramesOK(syntax, Len(scopes), frames) /\ TableOK(syntax, funcTable) /\ LinksOK(syntax)
      /\ syntax \in Seq(Nodes) /\ scopes \in Seq(Scopes)
  BY DEF IInv, TypeOK
<1>2. TableOK(prog, funcTable) /\ LinksOK(prog)
  BY <1>1, LinksKept
<1>3. FramesOK(prog, Len(scopes), frames)
  BY <1>1, FramesGrown
<1>4. /\ Len(frames) \in Nat \ {0} /\ Last(frames) = frames[Len(frames)]
      /\ Len(scopes) \in Nat /\ Last(frames).scope \in Nat
      /\ Last(frames).pc = "Seq" => Len(scopes) = Last(frames).scope + 1
      /\ Last(frames).pc # "Seq" => /\ Len(scopes) = Last(frames).scope
                                    /\ scopes = SubSeq(scopes, 1, Last(frames).scope)
  BY ScopeOfFrame
<1>5. ASSUME frames' = Front(frames)
      PROVE  /\ FramesOK(syntax', Len(scopes'), frames') /\ scopes' \in Seq(Scopes)
             /\ RestoresScope
  <2>. DEFINE k == Last(frames).scope
  <2>1. scopes' = SubSeq(scopes, 1, k)
    <3>1. CASE Last(frames).pc = "Seq"
      BY <3>1
    <3>2. CASE Last(frames).pc # "Seq"
      BY <1>4, <3>2
    <3>. QED  BY <3>1, <3>2
  <2>2. k \in 0 .. Len(scopes)
    BY <1>4
  <2>. HIDE DEF k
  <2>3. SubSeq(scopes, 1, k) \in Seq(Scopes) /\ Len(SubSeq(scopes, 1, k)) = k
    <3>1. \A i \in 1 .. k : scopes[i] \in Scopes
      BY <1>1, <2>2
    <3>. QED  BY <2>2, <3>1
  <2>4. FramesOK(prog, k, Front(frames))
    BY <1>3, FramesPopped DEF k
  <2>. QED  BY <1>5, <2>1, <2>3, <2>4 DEF RestoresScope, k
<1>6. ASSUME NEW pc \in ControlPoints \ {"AssignExp", "Seq"},
             frames' = SetPc(frames, pc), Last(frames).pc # "Seq", scopes' = scopes
      PROVE  /\ FramesOK(syntax', Len(scopes'), frames') /\ scopes' \in Seq(Scopes)
             /\ RestoresScope
  <2>1. FramesOK(prog, Len(scopes), SetPc(frames, pc)) /\ Len(SetPc(frames, pc)) = Len(frames)
    BY <1>3, <1>4, <1>6, FramesMoved
  <2>2. ~ (Len(frames') < Len(frames))
    BY <1>4, <1>6, <2>1
  <2>. QED  BY <1>1, <1>6, <2>1, <2>2 DEF RestoresScope
<1>7. FramesOK(syntax', Len(scopes'), frames') /\ scopes' \in Seq(Scopes) /\ RestoresScope
  BY <1>5, <1>6
<1>8. TypeOK'
  BY <1>7 DEF IInv, TypeOK, FramesOK
<1>. QED  BY <1>2, <1>7, <1>8 DEF IInv
(* Appending the mark that closes a statement or an expression.            *)
LEMMA MarkEnds ==
  ASSUME IInv, NEW m \in Marks
  PROVE  /\ Append(syntax, Mark(m)) \in Seq(Nodes)
         /\ Grows(syntax, Append(syntax, Mark(m))) /\ AddsNone(syntax, Append(syntax, Mark(m)))
<1>1. syntax \in Seq(Nodes)
  BY DEF IInv, TypeOK
<1>. QED  BY <1>1, NodeTypes, AppendNode

(* The ends of statements, and the step from a then to an else branch.     *)
LEMMA EndStmtsKeep ==
  ASSUME IInv, EndSeq \/ VisitElse \/ EndIf \/ EndWhile \/ EndFunction
  PROVE  IInv' /\ RestoresScope
<1>1. types \in Seq(Types) /\ \A m \in {"EndSeq", "Else", "EndIf", "EndWhile", "EndFunc"} : m \in Marks
  BY DEF IInv, TypeOK, Marks
<1>2. CASE EndSeq
  <2>1. /\ frames # <<>> /\ Last(frames).pc = "Seq" /\ frames' = Front(frames)
        /\ scopes' = SubSeq(scopes, 1, Last(frames).scope)
        /\ syntax' = Append(syntax, Mark("EndSeq")) /\ UNCHANGED <<funcTable, types, status>>
    BY <1>2 DEF EndSeq, At
  <2>. QED  BY <1>1, <2>1, MarkEnds, EndKeeps
<1>3. CASE VisitElse
  <2>1. /\ frames # <<>> /\ Last(frames).pc # "Seq" /\ frames' = SetPc(frames, "IfElse")
        /\ syntax' = Append(syntax, Mark("Else")) /\ UNCHANGED <<funcTable, scopes, types, status>>
    BY <1>3 DEF VisitElse, At
  <2>2. "IfElse" \in ControlPoints \ {"AssignExp", "Seq"}
    BY DEF ControlPoints, StmtPoints
  <2>. QED  BY <1>1, <2>1, <2>2, MarkEnds, EndKeeps
<1>4. ASSUME NEW pc \in EndPoints, NEW m \in {"EndIf", "EndWhile"}, EndStmt(pc, m)
      PROVE  IInv' /\ RestoresScope
  <2>1. /\ frames # <<>> /\ Last(frames).pc # "Seq" /\ frames' = Front(frames)
        /\ syntax' = Append(syntax, Mark(m)) /\ UNCHANGED <<funcTable, scopes, types, status>>
    BY <1>4 DEF EndStmt, At, EndPoints
  <2>. QED  BY <1>1, <2>1, MarkEnds, EndKeeps
<1>5. CASE EndIf \/ EndWhile
  BY <1>4, <1>5 DEF EndIf, EndWhile, EndPoints
<1>6. CASE EndFunction
  <2>. DEFINE prog == Append(syntax, Mark("EndFunc"))
  <2>1. /\ syntax' = prog /\ scopes' = <<>> /\ frames' = <<>>
        /\ UNCHANGED <<funcTable, types, status>>
    BY <1>6 DEF EndFunction
  <2>2. prog \in Seq(Nodes) /\ Grows(syntax, prog) /\ AddsNone(syntax, prog)
    BY <1>1, MarkEnds
  <2>. HIDE DEF prog
  <2>3. TableOK(prog, funcTable) /\ LinksOK(prog)
    BY <2>2, LinksKept DEF IInv, TypeOK
  <2>4. TypeOK' /\ FramesOK(syntax', Len(scopes'), frames')
    BY <2>1, <2>2 DEF IInv, TypeOK, FramesOK
  <2>. QED  BY <2>1, <2>3, <2>4 DEF IInv, RestoresScope
<1>. QED  BY <1>2, <1>3, <1>5, <1>6

(* The statement around a complete expression ends or moves on.            *)
LEMMA EndExpsKeep ==
  ASSUME IInv,
         EndIfCond \/ EndWhileCond \/ EndCallStmt \/ EndReturn \/ EndDeclInit \/ EndAssign
  PROVE  IInv' /\ RestoresScope
<1>1. "EndExp" \in Marks /\ <<>> \in Seq(Types)
  BY DEF Marks
<1>2. ASSUME NEW pc \in ExpPoints, ExpDone(pc)
      PROVE  frames # <<>> /\ Last(frames).pc = pc /\ pc # "Seq"
  BY <1>2 DEF ExpDone, At, ExpPoints
<1>3. ASSUME NEW fs, EndExp(fs)
      PROVE  /\ syntax' = Append(syntax, Mark("EndExp")) /\ frames' = fs /\ types' = <<>>
             /\ UNCHANGED <<funcTable, scopes, status>>
  BY <1>3 DEF EndExp
<1>4. ASSUME NEW pc \in ExpPoints, ExpDone(pc), EndExp(Front(frames))
      PROVE  IInv' /\ RestoresScope
  BY <1>1, <1>2, <1>3, <1>4, MarkEnds, EndKeeps
<1>5. CASE EndIfCond \/ EndWhileCond
  <2>1. PICK pc \in {"IfThen", "WhileBody"} :
          EndExp(SetPc(frames, pc)) /\ frames # <<>> /\ Last(frames).pc # "Seq"
    BY <1>2, <1>5 DEF EndIfCond, EndWhileCond, ExpPoints
  <2>2. pc \in ControlPoints \ {"AssignExp", "Seq"}
    BY DEF ControlPoints, StmtPoints
  <2>. DEFINE prog == Append(syntax, Mark("EndExp"))
  <2>3. /\ syntax' = prog /\ frames' = SetPc(frames, pc) /\ types' = <<>>
        /\ UNCHANGED <<funcTable, scopes, status>>
    BY <1>3, <2>1
  <2>4. prog \in Seq(Nodes) /\ Grows(syntax, prog) /\ AddsNone(syntax, prog)
    BY <1>1, MarkEnds
  <2>. HIDE DEF prog
  <2>. QED  BY <1>1, <2>1, <2>2, <2>3, <2>4, EndKeeps
<1>6. CASE EndCallStmt \/ EndReturn \/ EndDeclInit
  BY <1>4, <1>6, TypeErrorKeeps DEF EndCallStmt, EndReturn, EndDeclInit, ExpPoints
<1>7. CASE EndAssign
  <2>. DEFINE k == Last(frames).node
              x == syntax[k].name
              d == Find(x)
              node == [syntax[k] EXCEPT !.decl = d]
              old == [syntax EXCEPT ![k] = node]
              prog == Append(old, Mark("EndExp"))
  <2>1. frames # <<>> /\ Last(frames).pc = "AssignExp"
    BY <1>2, <1>7 DEF EndAssign, ExpPoints
  <2>2. CASE TypeError
    BY <2>2, TypeErrorKeeps
  <2>3. CASE ~ TypeError
    <3>1. /\ Visible(x) /\ syntax' = prog /\ frames' = Front(frames) /\ types' = <<>>
          /\ UNCHANGED <<funcTable, scopes, status>>
      BY <1>7, <2>3 DEF EndAssign
    <3>2. d \in VarDecls
      BY <3>1, FindType DEF IInv
    <3>3. k \in DOMAIN syntax /\ syntax[k].n = "Assign" /\ syntax \in Seq(Nodes)
      BY <2>1, LastFrame DEF IInv, TypeOK, FramesOK, NodeAt
    <3>4. syntax[k] \in Nodes
      BY <3>3
    <3>5. node \in Nodes /\ node.n = "Assign"
      <4>1. node \in Nodes
        BY <3>2, <3>3, <3>4, NodeFields
      <4>. QED  BY <3>3, <3>4, <4>1 DEF Nodes
    <3>. HIDE DEF k, node
    <3>6. /\ old \in Seq(Nodes) /\ DOMAIN old = DOMAIN syntax
          /\ old[k] = node /\ \A i \in DOMAIN syntax : i # k => old[i] = syntax[i]
      BY <3>3, <3>5
    <3>7. Grows(syntax, old) /\ AddsNone(syntax, old)
      BY <3>3, <3>5, <3>6 DEF Grows, AddsNone
    <3>. HIDE DEF old
    <3>8. prog \in Seq(Nodes) /\ Grows(old, prog) /\ AddsNone(old, prog)
      BY <1>1, <3>6, NodeTypes, AppendNode
    <3>9. Grows(syntax, prog) /\ AddsNone(syntax, prog)
      BY <3>7, <3>8 DEF Grows, AddsNone
    <3>. HIDE DEF prog
    <3>. QED  BY <1>1, <2>1, <3>1, <3>8, <3>9, EndKeeps
  <2>. QED  BY <2>2, <2>3
<1>. QED  BY <1>5, <1>6, <1>7
(* What an action on an expression leaves: the frames and scopes stay.     *)
LEMMA ExpKeeps ==
  ASSUME IInv, NEW node \in Nodes, syntax' = Append(syntax, node), types' \in Seq(Types),
         UNCHANGED <<funcTable, scopes, frames, status>>,
         TableOK(Append(syntax, node), funcTable), LinksOK(Append(syntax, node))
  PROVE  IInv' /\ RestoresScope
<1>1. syntax \in Seq(Nodes) /\ FramesOK(syntax, Len(scopes), frames)
  BY DEF IInv, TypeOK
<1>2. Append(syntax, node) \in Seq(Nodes) /\ Grows(syntax, Append(syntax, node))
  BY <1>1, AppendNode
<1>3. FramesOK(syntax', Len(scopes'), frames')
  BY <1>1, <1>2, FramesGrown
<1>4. TypeOK'
  BY <1>2 DEF IInv, TypeOK
<1>5. ~ (Len(frames') < Len(frames))
  BY DEF IInv, TypeOK
<1>. QED  BY <1>3, <1>4, <1>5 DEF IInv, RestoresScope

(* Constants and references to variables.                                  *)
LEMMA VisitLeafKeeps ==
  ASSUME IInv,
         \/ \E t \in Types : VisitConst(t)
         \/ \E x \in VarNames : VisitVarExp(x)
  PROVE  IInv' /\ RestoresScope
<1>1. types \in Seq(Types) /\ syntax \in Seq(Nodes) /\ TableOK(syntax, funcTable) /\ LinksOK(syntax)
  BY DEF IInv, TypeOK
<1>2. ASSUME NEW node \in Nodes, node.n \in {"Const", "Var"}, NEW t \in Types,
             syntax' = Append(syntax, node), types' = Append(types, t),
             UNCHANGED <<funcTable, scopes, frames, status>>
      PROVE  IInv' /\ RestoresScope
  <2>1. TableOK(Append(syntax, node), funcTable) /\ LinksOK(Append(syntax, node))
    BY <1>1, <1>2, AppendNode, LinksKept
  <2>2. types' \in Seq(Types)
    BY <1>1, <1>2
  <2>. QED  BY <1>2, <2>1, <2>2, ExpKeeps
<1>3. ASSUME NEW t \in Types, VisitConst(t) PROVE IInv' /\ RestoresScope
  <2>. DEFINE node == [n |-> "Const", type |-> t]
  <2>1. /\ node \in Nodes /\ node.n = "Const" /\ syntax' = Append(syntax, node)
        /\ types' = Append(types, t) /\ UNCHANGED <<funcTable, scopes, frames, status>>
    BY <1>3, NodeTypes DEF VisitConst
  <2>. HIDE DEF node
  <2>. QED  BY <1>2, <2>1
<1>4. ASSUME NEW x \in VarNames, VisitVarExp(x), ~ TypeError PROVE IInv' /\ RestoresScope
  <2>. DEFINE d == Find(x)
              node == [n |-> "Var", name |-> x, decl |-> d]
  <2>1. /\ Visible(x) /\ syntax' = Append(syntax, node) /\ types' = Append(types, d.type)
        /\ UNCHANGED <<funcTable, scopes, frames, status>>
    BY <1>4 DEF VisitVarExp
  <2>2. d \in VarDecls
    BY <2>1, FindType DEF IInv
  <2>. HIDE DEF d
  <2>3. node \in Nodes /\ node.n = "Var" /\ d.type \in Types
    BY <2>2, NodeTypes DEF VarDecls
  <2>. HIDE DEF node
  <2>. QED  BY <1>2, <2>1, <2>3
<1>5. CASE TypeError
  BY <1>5, TypeErrorKeeps
<1>. QED  BY <1>3, <1>4, <1>5

(* A call is linked to the first definition that matches it.               *)
LEMMA VisitCallExpKeeps ==
  ASSUME IInv, NEW name \in FuncNames, NEW n \in Nat, VisitCallExp(name, n)
  PROVE  IInv' /\ RestoresScope
<1>. DEFINE first == Len(types) - n
            args == SubSeq(types, first + 1, Len(types))
            pos == FindFunc(name, args)
            f == funcTable[pos]
            ret == syntax[f].def.ret
            node == [n |-> "Call", name |-> name, args |-> n, type |-> ret, def |-> f]
            prog == Append(syntax, node)
            Matches(g) == syntax[g].def.name = name /\ ParamTypes(syntax[g].def) = args
<1>1. /\ types \in Seq(Types) /\ syntax \in Seq(Nodes) /\ funcTable \in Seq(Nat) /\ TypeOK
      /\ TableOK(syntax, funcTable) /\ LinksOK(syntax) /\ DOMAIN funcTable \subseteq Nat
      /\ DOMAIN syntax = 1 .. Len(syntax) /\ Len(syntax) \in Nat
  BY DEF IInv, TypeOK
<1>2. CASE TypeError
  BY <1>2, TypeErrorKeeps
<1>3. CASE ~ TypeError
  <2>1. /\ pos # 0 /\ first \in 0 .. Len(types)
        /\ syntax' = prog /\ types' = Append(SubSeq(types, 1, first), ret)
        /\ UNCHANGED <<funcTable, scopes, frames, status>>
    BY <1>1, <1>3 DEF VisitCallExp, MayCall
  <2>2. /\ pos \in DOMAIN funcTable /\ Matches(f)
        /\ \A i \in 1 .. pos - 1 : ~ Matches(funcTable[i])
    <3>. HIDE DEF args
    <3>. QED  BY <1>1, <2>1, FindFuncFirst
  <2>. HIDE DEF pos, args
  <2>3. NodeAt(syntax, f, "Func") /\ f \in Nat
    BY <1>1, <2>2 DEF TableOK, NodeAt
  <2>4. ret \in Types
    <3>1. syntax[f] \in Nodes /\ syntax[f].n = "Func"
      BY <1>1, <2>3 DEF NodeAt
    <3>. QED  BY <3>1, NodeFields
  <2>5. \A g \in 1 .. f - 1 : ~ (syntax[g].n = "Func" /\ Matches(g))
    <3>. SUFFICES ASSUME NEW g \in 1 .. f - 1, syntax[g].n = "Func", Matches(g) PROVE FALSE
      OBVIOUS
    <3>1. g \in DOMAIN syntax /\ g < f
      BY <1>1, <2>3 DEF NodeAt
    <3>2. PICK i \in DOMAIN funcTable : funcTable[i] = g
      BY <1>1, <3>1 DEF TableOK
    <3>3. ~ (pos < i) /\ i # pos
      <4>1. pos < i => f < g
        BY <1>1, <2>2, <3>2 DEF TableOK
      <4>. QED  BY <2>3, <3>1, <3>2, <4>1
    <3>4. i \in 1 .. pos - 1
      BY <1>1, <2>2, <3>3
    <3>. QED  BY <2>2, <3>2, <3>4
  <2>. HIDE DEF f, ret
  <2>6. /\ node \in Nodes /\ node.n = "Call" /\ node.def = f /\ node.name = name
    BY <2>3, <2>4, NodeTypes
  <2>. HIDE DEF node
  <2>7. /\ prog \in Seq(Nodes) /\ Grows(syntax, prog) /\ prog[Len(syntax) + 1] = node
        /\ DOMAIN prog = DOMAIN syntax \cup {Len(syntax) + 1}
        /\ \A i \in DOMAIN syntax : prog[i] = syntax[i]
    BY <1>1, <2>6, AppendNode
  <2>. HIDE DEF prog
  <2>8. TableOK(prog, funcTable)
    BY <1>1, <2>6, <2>7 DEF TableOK, NodeAt
  <2>9. LinksOK(prog)
    <3>1. ASSUME NEW i \in DOMAIN syntax, syntax[i].n = "Call" PROVE LinkOK(prog, i)
      BY <1>1, <2>7, <3>1, LinkKept DEF LinksOK
    <3>2. /\ NodeAt(prog, f, "Func") /\ f < Len(syntax) + 1 /\ prog[f].def.name = name
          /\ prog[f] = syntax[f]
      BY <1>1, <2>2, <2>3, <2>7 DEF NodeAt, f
    <3>3. \A g \in 1 .. f - 1 : prog[g] = syntax[g]
      BY <1>1, <2>3, <2>7 DEF NodeAt
    <3>4. syntax[f].def.name = name /\ ParamTypes(syntax[f].def) = args
      BY <2>2 DEF f
    <3>5. \A g \in 1 .. f - 1 :
            ~ /\ prog[g].n = "Func"
              /\ prog[g].def.name = prog[f].def.name
              /\ ParamTypes(prog[g].def) = ParamTypes(prog[f].def)
      BY <2>5, <3>2, <3>3, <3>4
    <3>6. LinkOK(prog, Len(syntax) + 1)
      BY <2>6, <2>7, <3>2, <3>5 DEF LinkOK
    <3>7. \A i \in DOMAIN prog : i \in DOMAIN syntax \/ i = Len(syntax) + 1
      BY <2>7
    <3>. QED  BY <2>7, <3>1, <3>6, <3>7 DEF LinksOK
  <2>10. types' \in Seq(Types)
    <3>1. SubSeq(types, 1, first) \in Seq(Types)
      <4>1. first \in Nat /\ \A i \in 1 .. first : types[i] \in Types
        BY <1>1, <2>1
      <4>. HIDE DEF first
      <4>. QED  BY <4>1
    <3>. QED  BY <2>1, <2>4, <3>1
  <2>. QED  BY <2>1, <2>6, <2>8, <2>9, <2>10, ExpKeeps DEF prog
<1>. QED  BY <1>2, <1>3

(* A function is entered in the table after all functions before it.       *)
LEMMA CheckFunctionKeeps ==
  ASSUME IInv, NEW def \in FuncDefs, CheckFunction(def)
  PROVE  IInv' /\ RestoresScope
<1>. DEFINE node == [n |-> "Func", def |-> def]
            k == Len(syntax) + 1
            prog == Append(syntax, node)
            table == Append(funcTable, k)
            fr == [pc |-> "FuncBody", node |-> k, scope |-> 1]
<1>1. /\ syntax \in Seq(Nodes) /\ funcTable \in Seq(Nat) /\ frames = <<>> /\ node \in Nodes
      /\ TableOK(syntax, funcTable) /\ LinksOK(syntax) /\ node.n = "Func"
      /\ DOMAIN syntax = 1 .. Len(syntax) /\ Len(syntax) \in Nat
  BY NodeTypes DEF IInv, TypeOK, CheckFunction
<1>2. CASE TypeError
  BY <1>2, TypeErrorKeeps
<1>3. CASE ~ TypeError
  <2>. HIDE DEF node
  <2>1. /\ prog \in Seq(Nodes) /\ Grows(syntax, prog) /\ k \in Nat /\ prog[k] = node /\ k \notin DOMAIN syntax
        /\ DOMAIN prog = DOMAIN syntax \cup {k} /\ \A i \in DOMAIN syntax : i < k
        /\ \A i \in DOMAIN syntax : prog[i] = syntax[i]
    BY <1>1, AppendNode
  <2>2. /\ syntax' = prog /\ funcTable' = table /\ UNCHANGED <<types, status>>
        /\ \/ scopes' = <<ParamDecls(k, def)>> /\ frames' = <<fr>>
           \/ UNCHANGED <<scopes, frames>>
    BY <1>3 DEF CheckFunction, node
  <2>. HIDE DEF prog, k
  <2>3. /\ table \in Seq(Nat) /\ Len(funcTable) \in Nat /\ DOMAIN funcTable = 1 .. Len(funcTable)
        /\ DOMAIN table = 1 .. Len(funcTable) + 1 /\ table[Len(funcTable) + 1] = k
        /\ \A i \in DOMAIN funcTable : table[i] = funcTable[i]
    BY <1>1, <2>1
  <2>. HIDE DEF table
  <2>4. TableOK(prog, table)
    <3>1. \A i \in DOMAIN table : i = Len(funcTable) + 1 \/ i \in DOMAIN funcTable
      BY <2>3
    <3>2. \A i \in DOMAIN table : NodeAt(prog, table[i], "Func")
      <4>1. \A i \in DOMAIN funcTable : NodeAt(prog, table[i], "Func")
        BY <1>1, <2>1, <2>3 DEF TableOK, NodeAt
      <4>2. NodeAt(prog, k, "Func")
        BY <1>1, <2>1 DEF NodeAt
      <4>. QED  BY <2>3, <3>1, <4>1, <4>2
    <3>3. ASSUME NEW i \in DOMAIN table, NEW j \in DOMAIN table, i < j
          PROVE  table[i] < table[j]
      <4>1. i \in DOMAIN funcTable
        BY <2>3, <3>3
      <4>2. CASE j \in DOMAIN funcTable
        BY <1>1, <2>3, <3>3, <4>1, <4>2 DEF TableOK
      <4>3. CASE j = Len(funcTable) + 1
        <5>1. table[i] \in DOMAIN syntax
          BY <1>1, <2>3, <4>1 DEF TableOK, NodeAt
        <5>. QED  BY <2>1, <2>3, <4>3, <5>1
      <4>. QED  BY <3>1, <4>2, <4>3
    <3>4. ASSUME NEW m \in DOMAIN prog, prog[m].n = "Func"
          PROVE  \E i \in DOMAIN table : table[i] = m
      <4>1. CASE m = k
        BY <2>3, <4>1
      <4>2. CASE m \in DOMAIN syntax
        <5>1. PICK i \in DOMAIN funcTable : funcTable[i] = m
          BY <1>1, <2>1, <3>4, <4>2 DEF TableOK
        <5>2. i \in DOMAIN table
          BY <2>3
        <5>. QED  BY <2>3, <5>1, <5>2
      <4>. QED  BY <2>1, <4>1, <4>2
    <3>. QED  BY <3>2, <3>3, <3>4 DEF TableOK
  <2>5. LinksOK(prog)
    <3>1. \A i \in DOMAIN prog : prog[i].n = "Call" => i \in DOMAIN syntax /\ syntax[i].n = "Call"
      BY <1>1, <2>1
    <3>. QED  BY <1>1, <2>1, <3>1, LinkKept DEF LinksOK
  <2>6. /\ fr \in Frames /\ fr.pc = "FuncBody" /\ fr.scope = 1
    BY <2>1 DEF Frames, ControlPoints, StmtPoints
  <2>7. /\ scopes' \in Seq(Scopes) /\ FramesOK(prog, Len(scopes'), frames')
    <3>1. CASE UNCHANGED <<scopes, frames>>
      BY <1>1, <3>1 DEF IInv, TypeOK, FramesOK
    <3>2. CASE scopes' = <<ParamDecls(k, def)>> /\ frames' = <<fr>>
      <4>1. ParamDecls(k, def) \in Scopes
        BY <2>1, DeclTypes
      <4>2. scopes' \in Seq(Scopes) /\ Len(scopes') = 1
        BY <3>2, <4>1
      <4>. HIDE DEF fr
      <4>3. /\ <<fr>> \in Seq(Frames) /\ Len(<<fr>>) = 1 /\ <<fr>>[1] = fr
            /\ DOMAIN <<fr>> = 1 .. 1
        BY <2>6
      <4>4. FramesOK(prog, 1, <<fr>>)
        BY <2>6, <4>3 DEF FramesOK, Depth
      <4>. QED  BY <3>2, <4>2, <4>4
    <3>. QED  BY <2>2, <3>1, <3>2
  <2>8. TypeOK'
    BY <2>1, <2>2, <2>3, <2>7 DEF IInv, TypeOK, FramesOK
  <2>9. ~ (Len(frames') < Len(frames))
    <3>1. Len(frames) = 0 /\ Len(frames') \in Nat
      BY <1>1, <2>8 DEF TypeOK
    <3>. QED  BY <3>1
  <2>. QED  BY <2>2, <2>4, <2>5, <2>7, <2>8, <2>9 DEF IInv, RestoresScope
<1>. QED  BY <1>2, <1>3

-----------------------------------------------------------------------------
(* The invariant holds at the start.                                       *)
LEMMA InitInv == ASSUME Init PROVE IInv
  BY DEF Init, IInv, TypeOK, FramesOK, TableOK, LinksOK

(* The steps of the typechecker on any program: whatever functions it      *)
(* defines and calls.                                                      *)
AnyNext ==
  \/ \E def \in FuncDefs : CheckFunction(def)
  \/ VisitStmt
  \/ \E t \in Types : VisitConst(t)
  \/ \E x \in VarNames : VisitVarExp(x)
  \/ \E name \in FuncNames, n \in Nat : VisitCallExp(name, n)
  \/ EndVisit \/ Finish \/ TypeError \/ UNCHANGED vars

(* No function has a name that is not one of a function, so that a call of *)
(* such a name is an error.                                                *)
LEMMA CallOfOther ==
  ASSUME IInv, NEW name, name \notin FuncNames, NEW n \in Nat, VisitCallExp(name, n)
  PROVE  TypeError
<1>. DEFINE args == SubSeq(types, Len(types) - n + 1, Len(types))
            pos == FindFunc(name, args)
<1>1. ASSUME pos # 0 PROVE FALSE
  <2>1. pos \in DOMAIN funcTable /\ syntax[funcTable[pos]].def.name = name
    <3>. HIDE DEF args
    <3>. QED  BY <1>1, FindFuncFirst DEF IInv
  <2>. HIDE DEF pos
  <2>2. syntax[funcTable[pos]] \in Nodes /\ syntax[funcTable[pos]].n = "Func"
    BY <2>1 DEF IInv, TypeOK, TableOK, NodeAt
  <2>3. syntax[funcTable[pos]].def \in FuncDefs
    BY <2>2, NodeFields
  <2>. QED  BY <2>1, <2>3 DEF FuncDefs
<1>. QED  BY <1>1 DEF VisitCallExp

LEMMA NextIsAny == ASSUME IInv, [Next \/ Returned]_vars PROVE AnyNext
<1>1. ASSUME NextFunction PROVE \E def \in FuncDefs : CheckFunction(def)
  <2>1. Len(funcTable) + 1 \in 1 .. Len(Builtins) => Builtins[Len(funcTable) + 1] \in FuncDefs
    BY TypecheckerAssumption
  <2>2. NextFunction => \/ Len(funcTable) < Len(Builtins) /\ CheckFunction(Builtins[Len(funcTable) + 1])
                        \/ \E def \in UserDefs : CheckFunction(def)
    BY DEF NextFunction
  <2>3. Len(Builtins) \in Nat /\ Len(funcTable) \in Nat
    BY TypecheckerAssumption DEF IInv, TypeOK
  <2>. QED  BY <1>1, <2>1, <2>2, <2>3, TypecheckerAssumption
<1>2. \A n \in 0 .. MaxArgs : n \in Nat
  BY TypecheckerAssumption
<1>. QED  BY <1>1, <1>2 DEF Next, Returned, VisitExp, AnyNext

(* Every step keeps it, and restores the scopes if it ends a Visit         *)
(* function.                                                               *)
LEMMA Inductive ==
  ASSUME IInv, AnyNext
  PROVE  IInv' /\ RestoresScope
<1>1. CASE \E def \in FuncDefs : CheckFunction(def)
  BY <1>1, CheckFunctionKeeps
<1>2. CASE VisitStmt
  <2>1. ASSUME VisitCallStmt \/ VisitReturn \/ VisitWhile PROVE IInv' /\ RestoresScope
    BY <2>1, NodeTypes, VisitExpOfKeeps
    DEF VisitCallStmt, VisitReturn, VisitWhile, Marks, ExpPoints
  <2>2. ASSUME NEW x \in VarNames, VisitAssign(x) PROVE IInv' /\ RestoresScope
    BY <2>2, NodeTypes, VisitExpOfKeeps DEF VisitAssign, ExpPoints
  <2>3. ASSUME NEW else \in BOOLEAN, VisitIf(else) PROVE IInv' /\ RestoresScope
    BY <2>3, NodeTypes, VisitExpOfKeeps DEF VisitIf, ExpPoints
  <2>. QED  BY <1>2, <2>1, <2>2, <2>3, VisitSeqKeeps, VisitDeclKeeps DEF VisitStmt
<1>3. CASE EndVisit
  BY <1>3, EndStmtsKeep, EndExpsKeep DEF EndVisit
<1>4. CASE Finish \/ UNCHANGED vars
  <2>1. UNCHANGED <<syntax, funcTable, scopes, frames, types>> /\ status' \in {"running", "ok", "error"}
    BY <1>4 DEF Finish, vars, IInv, TypeOK
  <2>2. Len(frames) \in Nat
    BY DEF IInv, TypeOK
  <2>. QED  BY <2>1, <2>2 DEF IInv, TypeOK, RestoresScope
<1>. QED  BY <1>1, <1>2, <1>3, <1>4, VisitLeafKeeps, VisitCallExpKeeps, TypeErrorKeeps DEF AnyNext

(* The state of the typechecker keeps its types: every link and every      *)
(* entry of the function table and of the scopes is a definition or        *)
(* declaration.                                                            *)
THEOREM TypeCorrect == Spec => []TypeOK
<1>1. IInv => TypeOK
  BY DEF IInv
<1>. QED  BY <1>1, InitInv, NextIsAny, Inductive, PTL DEF Spec

(* A call is linked to the first definition of that name and signature,    *)
(* which comes before it (Typechecker.cpp:111-121, 275-277).               *)
THEOREM FirstMatch == Spec => []CallsLinkToFirstMatch
<1>1. IInv => CallsLinkToFirstMatch
  BY DEF IInv, LinksOK, LinkOK, CallsLinkToFirstMatch, NodeAt
<1>. QED  BY <1>1, InitInv, NextIsAny, Inductive, PTL DEF Spec

(* A Visit function that returns leaves m_scope as it found it, for any    *)
(* nesting of sequences (Typechecker.cpp:219-231).                         *)
THEOREM ScopesRestored == Spec => VisitRestoresScope
<1>1. ASSUME IInv, [Next \/ Returned]_vars
      PROVE  [Len(frames') < Len(frames) /\ frames' # <<>>
                => scopes' = SubSeq(scopes, 1, Last(frames).scope)]_vars
  BY <1>1, NextIsAny, Inductive DEF RestoresScope
<1>. QED  BY <1>1, InitInv, NextIsAny, Inductive, PTL DEF Spec, VisitRestoresScope
-----------------------------------------------------------------------------
(* The text of a program: the operators of Typechecker, of any program.    *)

CountIn(prog, m, from, to) == Cardinality({k \in from .. to : prog[k].n = m})

EnclosesIn(prog, j, i) ==
  \A m \in j + 1 .. i - 1 : CountIn(prog, "EndSeq", j + 1, m) <= CountIn(prog, "Seq", j + 1, m)

FunctionIn(prog, i) == SelectLastInSubSeq(prog, 1, i - 1, LAMBDA node : node.n = "Func")

LocalsIn(prog, x, i) ==
  {j \in FunctionIn(prog, i) .. i - 1 :
     prog[j].n = "Decl" /\ prog[j].name = x /\ EnclosesIn(prog, j, i)}

DeclsIn(prog, x, i) ==
  LET locals == LocalsIn(prog, x, i)
      j      == Max(locals)
      f      == FunctionIn(prog, i)
  IN  IF locals # {}
      THEN {LocalDecl(j, x, prog[j].type)}
      ELSE {d \in ParamDecls(f, prog[f].def) : d.name = x}

LEMMA DeclsOfSyntax == \A x, i : DeclsAt(x, i) = DeclsIn(syntax, x, i)
  BY DEF DeclsAt, DeclsIn, LocalsAt, LocalsIn, FunctionAt, FunctionIn, Encloses, EnclosesIn,
         Count, CountIn

\* How many sequences of the function at f are open behind node k.
Level(prog, f, k) == CountIn(prog, "Seq", f, k) - CountIn(prog, "EndSeq", f, k)

-----------------------------------------------------------------------------
(* Counting                                                                *)

(* Counts are numbers.                                                     *)
LEMMA CountFinite ==
  ASSUME NEW prog, NEW m, NEW a \in Nat, NEW b \in Int
  PROVE  IsFiniteSet({k \in a .. b : prog[k].n = m})
<1>. DEFINE S == {k \in a .. b : prog[k].n = m}
<1>1. IsFiniteSet(a .. b) /\ S \in SUBSET (a .. b)
  BY FS_Interval
<1>. HIDE DEF S
<1>2. IsFiniteSet(S)
  BY <1>1, FS_Subset
<1>. QED  BY <1>2 DEF S

LEMMA CountType ==
  ASSUME NEW prog, NEW m, NEW a \in Nat, NEW b \in Int
  PROVE  CountIn(prog, m, a, b) \in Nat
  BY CountFinite, FS_CardinalityType DEF CountIn

(* The count of an interval is the sum of those of its parts.              *)
LEMMA CountSplit ==
  ASSUME NEW prog, NEW m, NEW a \in Nat, NEW b \in Int, NEW c \in Int, a <= b + 1, b <= c
  PROVE  CountIn(prog, m, a, c) = CountIn(prog, m, a, b) + CountIn(prog, m, b + 1, c)
<1>. DEFINE S == {k \in a .. b : prog[k].n = m}
            T == {k \in b + 1 .. c : prog[k].n = m}
            U == {k \in a .. c : prog[k].n = m}
<1>1. b + 1 \in Nat
  OBVIOUS
<1>2. IsFiniteSet(S) /\ IsFiniteSet(T) /\ Cardinality(S) \in Nat /\ Cardinality(T) \in Nat
  BY <1>1, CountFinite, FS_CardinalityType
<1>3. S \cap T = {} /\ S \cup T = U
  OBVIOUS
<1>. HIDE DEF S, T, U
<1>4. Cardinality(U) = Cardinality(S) + Cardinality(T)
  BY <1>2, <1>3, FS_Union, FS_EmptySet
<1>. QED  BY <1>4 DEF S, T, U, CountIn

(* Nodes of other kinds do not count.                                      *)
LEMMA CountNone ==
  ASSUME NEW prog, NEW m, NEW a \in Nat, NEW b \in Int, \A k \in a .. b : prog[k].n # m
  PROVE  CountIn(prog, m, a, b) = 0
<1>1. {k \in a .. b : prog[k].n = m} = {}
  OBVIOUS
<1>. QED  BY <1>1, FS_EmptySet DEF CountIn

LEMMA CountOne ==
  ASSUME NEW prog, NEW m, NEW a \in Nat
  PROVE  CountIn(prog, m, a, a) = IF prog[a].n = m THEN 1 ELSE 0
<1>1. CASE prog[a].n = m
  <2>1. {k \in a .. a : prog[k].n = m} = {a}
    BY <1>1
  <2>. QED  BY <1>1, <2>1, FS_Singleton DEF CountIn
<1>2. CASE prog[a].n # m
  <2>1. \A k \in a .. a : prog[k].n # m
    BY <1>2
  <2>. QED  BY <1>2, <2>1, CountNone
<1>. QED  BY <1>1, <1>2

(* The kinds of the nodes decide the counts.                               *)
LEMMA CountAlike ==
  ASSUME NEW old, NEW new, NEW m, NEW a \in Nat, NEW b \in Int,
         \A k \in a .. b : new[k].n = old[k].n
  PROVE  CountIn(new, m, a, b) = CountIn(old, m, a, b)
<1>1. {k \in a .. b : new[k].n = m} = {k \in a .. b : old[k].n = m}
  OBVIOUS
<1>. QED  BY <1>1 DEF CountIn

LEMMA LevelType ==
  ASSUME NEW prog, NEW f \in Nat, NEW k \in Int
  PROVE  Level(prog, f, k) \in Int
  BY CountType DEF Level

(* A node changes the level by at most one.                                *)
LEMMA LevelNext ==
  ASSUME NEW prog, NEW f \in Nat, NEW k \in Nat, f <= k
  PROVE  Level(prog, f, k + 1) = CASE prog[k + 1].n = "Seq"    -> Level(prog, f, k) + 1
                                   [] prog[k + 1].n = "EndSeq" -> Level(prog, f, k) - 1
                                   [] OTHER                    -> Level(prog, f, k)
<1>1. \A m : /\ CountIn(prog, m, f, k + 1) = CountIn(prog, m, f, k) + CountIn(prog, m, k + 1, k + 1)
             /\ CountIn(prog, m, f, k) \in Nat
  BY CountSplit, CountType
<1>2. \A m : CountIn(prog, m, k + 1, k + 1) = IF prog[k + 1].n = m THEN 1 ELSE 0
  BY CountOne
<1>. QED  BY <1>1, <1>2 DEF Level

LEMMA LevelAlike ==
  ASSUME NEW old, NEW new, NEW f \in Nat, NEW k \in Int, \A i \in f .. k : new[i].n = old[i].n
  PROVE  Level(new, f, k) = Level(old, f, k)
  BY CountAlike DEF Level

(* A declaration is in scope as long as the level does not fall below its  *)
(* own.                                                                    *)
LEMMA EnclosesLevel ==
  ASSUME NEW prog, NEW f \in Nat, NEW j \in Nat, NEW i \in Nat, f <= j
  PROVE  EnclosesIn(prog, j, i) <=> \A m \in j + 1 .. i - 1 : Level(prog, f, j) <= Level(prog, f, m)
<1>1. ASSUME NEW m \in j + 1 .. i - 1
      PROVE  CountIn(prog, "EndSeq", j + 1, m) <= CountIn(prog, "Seq", j + 1, m)
               <=> Level(prog, f, j) <= Level(prog, f, m)
  <2>1. m \in Nat /\ j <= m /\ j + 1 \in Nat
    OBVIOUS
  <2>2. \A c : /\ CountIn(prog, c, f, m) = CountIn(prog, c, f, j) + CountIn(prog, c, j + 1, m)
               /\ CountIn(prog, c, f, j) \in Nat /\ CountIn(prog, c, j + 1, m) \in Nat
    BY <2>1, CountSplit, CountType
  <2>. QED  BY <2>2 DEF Level
<1>. QED  BY <1>1 DEF EnclosesIn

-----------------------------------------------------------------------------
(* Functions and declarations of a program                                 *)

\* Whatever is added, and however assignments are linked, the text stays.
SameText(old, new) ==
  \A k \in DOMAIN old :
    /\ k \in DOMAIN new /\ new[k].n = old[k].n
    /\ IF old[k].n = "Assign" THEN new[k].name = old[k].name ELSE new[k] = old[k]

(* A node behind the first function belongs to the function before it.     *)
LEMMA FunctionBefore ==
  ASSUME NEW prog, NEW i \in Nat, 2 <= i, prog[1].n = "Func"
  PROVE  /\ FunctionIn(prog, i) \in 1 .. i - 1
         /\ prog[FunctionIn(prog, i)].n = "Func"
         /\ \A k \in FunctionIn(prog, i) + 1 .. i - 1 : prog[k].n # "Func"
<1>. DEFINE I == {k \in 1 .. i - 1 : prog[k].n = "Func"}
<1>1. I \in SUBSET (1 .. i - 1) /\ 1 \in I /\ i - 1 \in Nat
  OBVIOUS
<1>2. FunctionIn(prog, i) = Max(I)
  BY <1>1 DEF FunctionIn, SelectLastInSubSeq
<1>3. Max(I) \in I /\ \A k \in I : k <= Max(I)
  <2>. HIDE DEF I
  <2>. QED  BY <1>1, MaxOfPositions
<1>4. ASSUME NEW k \in Max(I) + 1 .. i - 1, prog[k].n = "Func" PROVE FALSE
  <2>1. Max(I) \in 1 .. i - 1
    BY <1>3
  <2>2. k \in I /\ ~ (k <= Max(I))
    BY <1>4, <2>1
  <2>. QED  BY <1>3, <2>2
<1>. QED  BY <1>2, <1>3, <1>4

LEMMA FunctionIs ==
  ASSUME NEW prog, NEW i \in Nat, NEW f \in 1 .. i - 1,
         prog[f].n = "Func", \A k \in f + 1 .. i - 1 : prog[k].n # "Func"
  PROVE  FunctionIn(prog, i) = f
<1>. DEFINE I == {k \in 1 .. i - 1 : prog[k].n = "Func"}
<1>1. I \in SUBSET (1 .. i - 1) /\ f \in I /\ i - 1 \in Nat
  OBVIOUS
<1>2. FunctionIn(prog, i) = Max(I)
  BY <1>1 DEF FunctionIn, SelectLastInSubSeq
<1>3. Max(I) \in I /\ \A k \in I : k <= Max(I)
  <2>. HIDE DEF I
  <2>. QED  BY <1>1, MaxOfPositions
<1>4. ~ (f < Max(I))
  BY <1>3
<1>. QED  BY <1>1, <1>2, <1>3, <1>4

(* The declarations that a node is in the scope of are among those before  *)
(* it: they stay the same.                                                 *)
LEMMA DeclsKept ==
  ASSUME NEW old \in Seq(Nodes), NEW new, SameText(old, new), NEW x,
         NEW i \in 2 .. Len(old) + 1, old[1].n = "Func"
  PROVE  DeclsIn(new, x, i) = DeclsIn(old, x, i)
<1>. DEFINE f == FunctionIn(old, i)
            locals == LocalsIn(old, x, i)
<1>1. /\ Len(old) \in Nat /\ DOMAIN old = 1 .. Len(old) /\ i \in Nat /\ i - 1 \in Nat
      /\ \A k \in 1 .. i - 1 : k \in DOMAIN old /\ new[k].n = old[k].n
  BY DEF SameText
<1>2. f \in 1 .. i - 1 /\ old[f].n = "Func" /\ \A k \in f + 1 .. i - 1 : old[k].n # "Func"
  BY <1>1, FunctionBefore
<1>. HIDE DEF f
<1>3. FunctionIn(new, i) = f
  <2>1. new[f].n = "Func" /\ \A k \in f + 1 .. i - 1 : new[k].n # "Func"
    BY <1>1, <1>2
  <2>. QED  BY <1>1, <1>2, <2>1, FunctionIs
<1>4. ASSUME NEW j \in f .. i - 1 PROVE EnclosesIn(new, j, i) <=> EnclosesIn(old, j, i)
  <2>1. ASSUME NEW m \in j + 1 .. i - 1, NEW c
        PROVE  CountIn(new, c, j + 1, m) = CountIn(old, c, j + 1, m)
    <3>1. j + 1 \in Nat /\ m \in Int /\ \A k \in j + 1 .. m : k \in 1 .. i - 1
      BY <1>1, <1>2
    <3>. QED  BY <1>1, <3>1, CountAlike
  <2>. QED  BY <2>1 DEF EnclosesIn
<1>5. LocalsIn(new, x, i) = locals
  <2>1. \A j \in f .. i - 1 : j \in 1 .. i - 1
    BY <1>2
  <2>2. \A j \in f .. i - 1 : new[j].n = old[j].n /\ (old[j].n = "Decl" => new[j] = old[j])
    BY <1>1, <2>1 DEF SameText
  <2>. QED  BY <1>3, <1>4, <2>2 DEF LocalsIn, f
<1>6. CASE locals # {}
  <2>1. locals \in SUBSET (1 .. i - 1)
    BY <1>2 DEF LocalsIn, f
  <2>2. Max(locals) \in locals
    <3>. HIDE DEF locals
    <3>. QED  BY <1>1, <1>6, <2>1, MaxOfPositions
  <2>3. new[Max(locals)] = old[Max(locals)]
    <3>1. Max(locals) \in DOMAIN old /\ old[Max(locals)].n = "Decl"
      BY <1>1, <2>1, <2>2 DEF LocalsIn
    <3>. QED  BY <3>1 DEF SameText
  <2>. HIDE DEF locals
  <2>4. LocalsIn(old, x, i) = locals
    BY DEF locals
  <2>. QED  BY <1>5, <1>6, <2>3, <2>4 DEF DeclsIn
<1>7. CASE locals = {}
  <2>1. new[f] = old[f]
    BY <1>1, <1>2 DEF SameText
  <2>. QED  BY <1>3, <1>5, <1>7, <2>1 DEF DeclsIn, f
<1>. QED  BY <1>6, <1>7

(* Expressions declare nothing: the declarations before one and behind it  *)
(* are the same.                                                           *)
LEMMA DeclsThrough ==
  ASSUME NEW prog, prog[1].n = "Func", NEW x, NEW k \in Nat, NEW i \in Nat, 2 <= k, k <= i,
         \A m \in k .. i - 1 : prog[m].n \notin {"Func", "Decl", "Seq", "EndSeq"}
  PROVE  DeclsIn(prog, x, i) = DeclsIn(prog, x, k)
<1>. DEFINE f == FunctionIn(prog, k)
<1>1. f \in 1 .. k - 1 /\ prog[f].n = "Func" /\ \A m \in f + 1 .. k - 1 : prog[m].n # "Func"
  BY FunctionBefore
<1>. HIDE DEF f
<1>2. FunctionIn(prog, i) = f
  <2>1. f \in 1 .. i - 1
    BY <1>1
  <2>2. \A m \in f + 1 .. i - 1 : m \in f + 1 .. k - 1 \/ m \in k .. i - 1
    BY <1>1
  <2>3. \A m \in f + 1 .. i - 1 : prog[m].n # "Func"
    BY <1>1, <2>2
  <2>. QED  BY <1>1, <2>1, <2>3, FunctionIs
<1>3. ASSUME NEW j \in f .. k - 1 PROVE EnclosesIn(prog, j, i) <=> EnclosesIn(prog, j, k)
  <2>1. j \in Nat /\ j + 1 \in Nat
    BY <1>1
  <2>2. ASSUME NEW m \in k .. i - 1, NEW c \in {"Seq", "EndSeq"}
        PROVE  CountIn(prog, c, j + 1, m) = CountIn(prog, c, j + 1, k - 1)
    <3>1. CountIn(prog, c, j + 1, m)
            = CountIn(prog, c, j + 1, k - 1) + CountIn(prog, c, (k - 1) + 1, m)
      <4>1. k - 1 \in Int /\ m \in Int /\ j + 1 <= (k - 1) + 1 /\ k - 1 <= m
        BY <2>1
      <4>. QED  BY <2>1, <4>1, CountSplit
    <3>2. CountIn(prog, c, k, m) = 0
      <4>1. \A n \in k .. m : prog[n].n # c
        OBVIOUS
      <4>2. m \in Int
        OBVIOUS
      <4>. QED  BY <4>1, <4>2, CountNone
    <3>3. (k - 1) + 1 = k /\ CountIn(prog, c, j + 1, k - 1) \in Nat
      BY <2>1, CountType
    <3>. QED  BY <3>1, <3>2, <3>3
  <2>3. \A m \in j + 1 .. k - 1 : m \in j + 1 .. i - 1
    BY <2>1
  <2>4. EnclosesIn(prog, j, i) => EnclosesIn(prog, j, k)
    BY <2>3 DEF EnclosesIn
  <2>5. ASSUME EnclosesIn(prog, j, k), NEW m \in j + 1 .. i - 1
        PROVE  CountIn(prog, "EndSeq", j + 1, m) <= CountIn(prog, "Seq", j + 1, m)
    <3>1. CASE m \in j + 1 .. k - 1
      BY <2>5, <3>1 DEF EnclosesIn
    <3>2. CASE m \in k .. i - 1 /\ k - 1 \in j + 1 .. k - 1
      <4>1. CountIn(prog, "EndSeq", j + 1, k - 1) <= CountIn(prog, "Seq", j + 1, k - 1)
        BY <2>5, <3>2 DEF EnclosesIn
      <4>. QED  BY <2>2, <3>2, <4>1
    <3>3. CASE m \in k .. i - 1 /\ k - 1 = j
      <4>1. \A c : CountIn(prog, c, j + 1, k - 1) = 0
        BY <2>1, <3>3, CountNone
      <4>2. /\ CountIn(prog, "EndSeq", j + 1, m) = CountIn(prog, "EndSeq", j + 1, k - 1)
            /\ CountIn(prog, "Seq", j + 1, m) = CountIn(prog, "Seq", j + 1, k - 1)
        BY <2>2, <3>3
      <4>3. /\ CountIn(prog, "EndSeq", j + 1, k - 1) = 0
            /\ CountIn(prog, "Seq", j + 1, k - 1) = 0
        BY <4>1
      <4>. QED  BY <4>2, <4>3
    <3>. QED  BY <2>1, <3>1, <3>2, <3>3
  <2>. QED  BY <2>4, <2>5 DEF EnclosesIn
<1>4. LocalsIn(prog, x, i) = LocalsIn(prog, x, k)
  <2>1. \A j \in f .. i - 1 : j \in f .. k - 1 \/ j \in k .. i - 1
    BY <1>1
  <2>2. \A j \in f .. k - 1 : j \in f .. i - 1
    BY <1>1
  <2>3. \A j \in k .. i - 1 : prog[j].n # "Decl"
    OBVIOUS
  <2>. QED  BY <1>2, <1>3, <2>1, <2>2, <2>3 DEF LocalsIn, f
<1>. QED  BY <1>2, <1>4 DEF DeclsIn, f

-----------------------------------------------------------------------------
(* The chain of scopes at the end of a program                             *)

\* Declarations that are still in scope, in the scope numbered s.
OpenDecls(prog, f, s) ==
  {j \in f .. Len(prog) : /\ prog[j].n = "Decl"
                          /\ Level(prog, f, j) = s - 1
                          /\ EnclosesIn(prog, j, Len(prog) + 1)}

ScopeOf(prog, f, s) == {LocalDecl(j, prog[j].name, prog[j].type) : j \in OpenDecls(prog, f, s)}

NamesUnique(scope) == \A d, e \in scope : d.name = e.name => d = e

\* The chain of scopes in the function at f: its parameters, and a scope for
\* each open sequence.
ChainOK(prog, chain, f) ==
  /\ f \in DOMAIN prog /\ prog[f].n = "Func"
  /\ \A k \in f + 1 .. Len(prog) : prog[k].n # "Func"
  /\ Len(chain) = Level(prog, f, Len(prog)) + 1 /\ 1 <= Len(chain)
  /\ chain[1] = ParamDecls(f, prog[f].def)
  /\ \A s \in 2 .. Len(chain) : chain[s] = ScopeOf(prog, f, s)
  /\ \A s \in 1 .. Len(chain) : NamesUnique(chain[s])
  /\ \A j \in f .. Len(prog) : prog[j].n = "Decl" => 1 <= Level(prog, f, j)

(* What one more node changes: a declaration opens a name, and the end of  *)
(* a sequence closes those of its level.                                   *)
LEMMA OpenNext ==
  ASSUME NEW old \in Seq(Nodes), NEW new \in Seq(Nodes), SameText(old, new),
         Len(new) = Len(old) + 1, NEW f \in 1 .. Len(old), NEW s \in Nat,
         s - 1 <= Level(new, f, Len(new))
  PROVE  OpenDecls(new, f, s) =
           OpenDecls(old, f, s)
             \cup {j \in {Len(new)} : new[j].n = "Decl" /\ Level(new, f, j) = s - 1}
<1>. DEFINE L == Len(old)
<1>1. /\ L \in Nat /\ f \in Nat /\ f <= L /\ DOMAIN old = 1 .. L /\ Len(new) = L + 1
      /\ \A k \in f .. L : k \in DOMAIN old /\ new[k].n = old[k].n
  BY DEF SameText
<1>. HIDE DEF L
<1>2. \A k \in f .. L : Level(new, f, k) = Level(old, f, k)
  <2>. SUFFICES ASSUME NEW k \in f .. L PROVE Level(new, f, k) = Level(old, f, k)
    OBVIOUS
  <2>1. k \in Int /\ \A i \in f .. k : new[i].n = old[i].n
    BY <1>1
  <2>. QED  BY <1>1, <2>1, LevelAlike
<1>3. ASSUME NEW j \in f .. L, Level(old, f, j) = s - 1
      PROVE  EnclosesIn(new, j, L + 2) <=> EnclosesIn(old, j, L + 1)
  <2>1. j \in Nat /\ f <= j /\ L + 2 \in Nat /\ L + 1 \in Nat
    BY <1>1
  <2>2. /\ EnclosesIn(new, j, L + 2) <=>
             \A m \in j + 1 .. (L + 2) - 1 : Level(new, f, j) <= Level(new, f, m)
        /\ EnclosesIn(old, j, L + 1) <=>
             \A m \in j + 1 .. (L + 1) - 1 : Level(old, f, j) <= Level(old, f, m)
    BY <1>1, <2>1, EnclosesLevel
  <2>3. \A m \in j + 1 .. (L + 1) - 1 : m \in f .. L /\ m \in j + 1 .. (L + 2) - 1
    BY <1>1, <2>1
  <2>4. \A m \in j + 1 .. (L + 2) - 1 : m \in j + 1 .. (L + 1) - 1 \/ m = L + 1
    BY <1>1, <2>1
  <2>5. Level(new, f, j) <= Level(new, f, L + 1)
    BY <1>1, <1>2, <1>3
  <2>. QED  BY <1>2, <2>2, <2>3, <2>4, <2>5
<1>4. EnclosesIn(new, L + 1, L + 2)
  <2>1. (L + 1) + 1 .. (L + 2) - 1 = {}
    BY <1>1
  <2>. QED  BY <2>1 DEF EnclosesIn
<1>5. \A j \in f .. L + 1 : j \in f .. L \/ j = L + 1
  BY <1>1
<1>6. (L + 1) + 1 = L + 2 /\ L + 1 \in f .. L + 1 /\ L + 1 \notin f .. L /\ \A j \in f .. L : j \in f .. L + 1
  BY <1>1
<1>. QED  BY <1>1, <1>2, <1>3, <1>4, <1>5, <1>6 DEF OpenDecls, L

LEMMA ScopeNext ==
  ASSUME NEW old \in Seq(Nodes), NEW new \in Seq(Nodes), SameText(old, new),
         Len(new) = Len(old) + 1, NEW f \in 1 .. Len(old), NEW s \in Nat,
         s - 1 <= Level(new, f, Len(new))
  PROVE  ScopeOf(new, f, s) =
           IF new[Len(new)].n = "Decl" /\ Level(new, f, Len(new)) = s - 1
           THEN ScopeOf(old, f, s)
                  \cup {LocalDecl(Len(new), new[Len(new)].name, new[Len(new)].type)}
           ELSE ScopeOf(old, f, s)
<1>1. OpenDecls(new, f, s) =
        OpenDecls(old, f, s)
          \cup {j \in {Len(new)} : new[j].n = "Decl" /\ Level(new, f, j) = s - 1}
  BY OpenNext
<1>2. \A j \in OpenDecls(old, f, s) : new[j] = old[j]
  <2>1. \A j \in OpenDecls(old, f, s) : j \in DOMAIN old /\ old[j].n = "Decl"
    BY DEF OpenDecls
  <2>. QED  BY <2>1 DEF SameText
<1>. QED  BY <1>1, <1>2 DEF ScopeOf

(* The level behind one more node, and before it.                          *)
LEMMA LevelsNext ==
  ASSUME NEW old \in Seq(Nodes), NEW new \in Seq(Nodes), SameText(old, new),
         Len(new) = Len(old) + 1, NEW f \in 1 .. Len(old)
  PROVE  /\ \A k \in f .. Len(old) : Level(new, f, k) = Level(old, f, k) /\ Level(old, f, k) \in Int
         /\ new[Len(new)].n = "Seq" => Level(new, f, Len(new)) = Level(old, f, Len(old)) + 1
         /\ new[Len(new)].n = "EndSeq" => Level(new, f, Len(new)) = Level(old, f, Len(old)) - 1
         /\ new[Len(new)].n \notin {"Seq", "EndSeq"} =>
              Level(new, f, Len(new)) = Level(old, f, Len(old))
<1>1. /\ Len(old) \in Nat /\ f \in Nat /\ f <= Len(old) /\ DOMAIN old = 1 .. Len(old)
      /\ \A k \in f .. Len(old) : k \in DOMAIN old /\ new[k].n = old[k].n
  BY DEF SameText
<1>2. ASSUME NEW k \in f .. Len(old)
      PROVE  Level(new, f, k) = Level(old, f, k) /\ Level(old, f, k) \in Int
  <2>1. k \in Int /\ \A i \in f .. k : new[i].n = old[i].n
    BY <1>1
  <2>. QED  BY <1>1, <2>1, LevelAlike, LevelType
<1>3. Len(old) \in f .. Len(old)
  BY <1>1
<1>. QED  BY <1>1, <1>2, <1>3, LevelNext

(* One more node that neither declares, nor opens or closes anything.      *)
LEMMA ChainNeutral ==
  ASSUME NEW old \in Seq(Nodes), NEW new \in Seq(Nodes), SameText(old, new),
         Len(new) = Len(old) + 1, new[Len(new)].n \notin {"Func", "Seq", "EndSeq", "Decl"},
         NEW chain, NEW f, ChainOK(old, chain, f)
  PROVE  ChainOK(new, chain, f)
<1>1. /\ f \in 1 .. Len(old) /\ Len(old) \in Nat /\ DOMAIN old = 1 .. Len(old)
      /\ DOMAIN new = 1 .. Len(new) /\ Len(chain) = Level(old, f, Len(old)) + 1
      /\ new[f] = old[f] /\ Len(old) \in f .. Len(old)
  BY DEF ChainOK, SameText
<1>2. /\ \A k \in f .. Len(old) : Level(new, f, k) = Level(old, f, k)
      /\ Level(new, f, Len(new)) = Level(old, f, Len(old)) /\ Level(old, f, Len(old)) \in Int
  BY <1>1, LevelsNext
<1>3. \A s \in 2 .. Len(chain) : ScopeOf(new, f, s) = ScopeOf(old, f, s)
  <2>. SUFFICES ASSUME NEW s \in 2 .. Len(chain) PROVE ScopeOf(new, f, s) = ScopeOf(old, f, s)
    OBVIOUS
  <2>1. s \in Nat /\ s - 1 <= Level(new, f, Len(new))
    BY <1>1, <1>2
  <2>. QED  BY <1>1, <2>1, ScopeNext
<1>4. \A k \in f .. Len(new) : k = Len(new) \/ (k \in f .. Len(old) /\ new[k].n = old[k].n)
  BY <1>1 DEF SameText
<1>5. \A k \in f + 1 .. Len(new) : new[k].n # "Func"
  <2>1. \A k \in f + 1 .. Len(new) :
          k = Len(new) \/ (k \in f + 1 .. Len(old) /\ new[k].n = old[k].n)
    BY <1>1 DEF SameText
  <2>. QED  BY <2>1 DEF ChainOK
<1>6. \A j \in f .. Len(new) : new[j].n = "Decl" => 1 <= Level(new, f, j)
  BY <1>2, <1>4 DEF ChainOK
<1>. QED  BY <1>1, <1>2, <1>3, <1>5, <1>6 DEF ChainOK

(* What the lemmas about the chain have in common: the level and the scopes *)
(* that remain.                                                            *)
LEMMA ChainBasics ==
  ASSUME NEW old \in Seq(Nodes), NEW new \in Seq(Nodes), SameText(old, new),
         Len(new) = Len(old) + 1, new[Len(new)].n # "Func",
         NEW chain, NEW f, ChainOK(old, chain, f)
  PROVE  /\ f \in 1 .. Len(old) /\ f \in DOMAIN new /\ new[f] = old[f] /\ new[f].n = "Func"
         /\ \A k \in f + 1 .. Len(new) : new[k].n # "Func"
         /\ Len(old) \in Nat /\ Len(chain) \in Nat /\ Level(old, f, Len(old)) = Len(chain) - 1
         /\ \A j \in f .. Len(new) :
              new[j].n = "Decl" => j = Len(new) \/ (j \in f .. Len(old) /\ 1 <= Level(new, f, j))
<1>1. /\ f \in 1 .. Len(old) /\ Len(old) \in Nat /\ DOMAIN old = 1 .. Len(old)
      /\ DOMAIN new = 1 .. Len(new) /\ Len(chain) = Level(old, f, Len(old)) + 1
      /\ new[f] = old[f] /\ Len(old) \in f .. Len(old) /\ 1 <= Len(chain)
  BY DEF ChainOK, SameText
<1>2. \A k \in f .. Len(old) : Level(new, f, k) = Level(old, f, k) /\ Level(old, f, k) \in Int
  BY <1>1, LevelsNext
<1>3. Len(chain) \in Nat
  BY <1>1, <1>2
<1>4. \A k \in f .. Len(new) : k = Len(new) \/ (k \in f .. Len(old) /\ new[k].n = old[k].n)
  BY <1>1 DEF SameText
<1>5. \A k \in f + 1 .. Len(new) : new[k].n # "Func"
  <2>1. \A k \in f + 1 .. Len(new) :
          k = Len(new) \/ (k \in f + 1 .. Len(old) /\ new[k].n = old[k].n)
    BY <1>1 DEF SameText
  <2>. QED  BY <2>1 DEF ChainOK
<1>6. ASSUME NEW j \in f .. Len(new), new[j].n = "Decl", j # Len(new)
      PROVE  j \in f .. Len(old) /\ 1 <= Level(new, f, j)
  <2>1. j \in f .. Len(old) /\ old[j].n = "Decl"
    BY <1>4, <1>6
  <2>2. 1 <= Level(old, f, j)
    BY <2>1 DEF ChainOK
  <2>. QED  BY <1>2, <2>1, <2>2
<1>7. \A j \in f .. Len(new) :
        new[j].n = "Decl" => j = Len(new) \/ (j \in f .. Len(old) /\ 1 <= Level(new, f, j))
  BY <1>6
<1>8. f \in DOMAIN new /\ new[f].n = "Func" /\ Level(old, f, Len(old)) = Len(chain) - 1
  BY <1>1, <1>2 DEF ChainOK
<1>. QED  BY <1>1, <1>3, <1>5, <1>7, <1>8

(* The scope of a sequence that begins is empty.                           *)
LEMMA ChainSeq ==
  ASSUME NEW old \in Seq(Nodes), NEW new \in Seq(Nodes), SameText(old, new),
         Len(new) = Len(old) + 1, new[Len(new)].n = "Seq",
         NEW chain \in Seq(Scopes), NEW f, ChainOK(old, chain, f)
  PROVE  ChainOK(new, Append(chain, {}), f)
<1>. DEFINE next == Append(chain, {})
            n == Len(chain)
<1>1. /\ f \in 1 .. Len(old) /\ f \in DOMAIN new /\ new[f] = old[f] /\ new[f].n = "Func"
      /\ \A k \in f + 1 .. Len(new) : new[k].n # "Func"
      /\ Len(old) \in Nat /\ n \in Nat /\ Level(old, f, Len(old)) = n - 1
      /\ \A j \in f .. Len(new) : new[j].n = "Decl" => j = Len(new) \/ 1 <= Level(new, f, j)
  BY ChainBasics
<1>2. 1 <= n /\ Level(new, f, Len(new)) = n
  BY <1>1, LevelsNext DEF ChainOK
<1>3. /\ Len(next) = n + 1 /\ next[n + 1] = {} /\ \A s \in 1 .. n : next[s] = chain[s]
  BY <1>1
<1>. HIDE DEF next, n
<1>4. ASSUME NEW s \in 2 .. n + 1 PROVE ScopeOf(new, f, s) = ScopeOf(old, f, s)
  <2>1. s \in Nat /\ s - 1 <= Level(new, f, Len(new))
    BY <1>1, <1>2
  <2>. QED  BY <1>1, <2>1, ScopeNext
<1>5. OpenDecls(old, f, n + 1) = {}
  <2>. SUFFICES ASSUME NEW j \in OpenDecls(old, f, n + 1) PROVE FALSE
    OBVIOUS
  <2>1. /\ j \in f .. Len(old) /\ Level(old, f, j) = n /\ EnclosesIn(old, j, Len(old) + 1)
        /\ old[j].n = "Decl"
    BY <1>1 DEF OpenDecls
  <2>2. j \in Nat /\ f \in Nat /\ f <= j /\ Len(old) + 1 \in Nat
    BY <1>1, <2>1
  <2>3. \A m \in j + 1 .. (Len(old) + 1) - 1 : Level(old, f, j) <= Level(old, f, m)
    BY <2>1, <2>2, EnclosesLevel
  <2>4. CASE j = Len(old)
    BY <1>1, <2>1, <2>4
  <2>5. CASE j # Len(old)
    <3>1. Len(old) \in j + 1 .. (Len(old) + 1) - 1
      BY <1>1, <2>1, <2>5
    <3>2. Level(old, f, j) <= Level(old, f, Len(old))
      BY <2>3, <3>1
    <3>. QED  BY <1>1, <2>1, <3>2
  <2>. QED  BY <2>4, <2>5
<1>6. ScopeOf(new, f, n + 1) = {}
  <2>1. n + 1 \in 2 .. n + 1
    BY <1>1, <1>2
  <2>2. ScopeOf(new, f, n + 1) = ScopeOf(old, f, n + 1)
    BY <1>4, <2>1
  <2>. QED  BY <1>5, <2>2 DEF ScopeOf
<1>7. \A s \in 2 .. n + 1 : next[s] = ScopeOf(new, f, s)
  <2>1. \A s \in 2 .. n + 1 : s = n + 1 \/ (s \in 2 .. n /\ s \in 1 .. n)
    BY <1>1
  <2>2. \A s \in 2 .. n : chain[s] = ScopeOf(old, f, s)
    BY DEF ChainOK, n
  <2>. QED  BY <1>3, <1>4, <1>6, <2>1, <2>2
<1>8. \A s \in 1 .. n + 1 : NamesUnique(next[s])
  <2>1. \A s \in 1 .. n + 1 : s = n + 1 \/ s \in 1 .. n
    BY <1>1
  <2>2. \A s \in 1 .. n : NamesUnique(chain[s])
    BY DEF ChainOK, n
  <2>3. NamesUnique({})
    BY DEF NamesUnique
  <2>. QED  BY <1>3, <2>1, <2>2, <2>3
<1>9. next[1] = ParamDecls(f, new[f].def)
  <2>1. 1 \in 1 .. n
    BY <1>1, <1>2
  <2>. QED  BY <1>1, <1>3, <2>1 DEF ChainOK
<1>10. 1 <= Len(next) /\ Len(next) = Level(new, f, Len(new)) + 1
  BY <1>1, <1>2, <1>3
<1>11. \A j \in f .. Len(new) : new[j].n = "Decl" => 1 <= Level(new, f, j)
  BY <1>1
<1>. QED  BY <1>1, <1>3, <1>7, <1>8, <1>9, <1>10, <1>11 DEF ChainOK, next

(* The end of a sequence leaves the chain without its scope.               *)
LEMMA ChainEndSeq ==
  ASSUME NEW old \in Seq(Nodes), NEW new \in Seq(Nodes), SameText(old, new),
         Len(new) = Len(old) + 1, new[Len(new)].n = "EndSeq",
         NEW chain \in Seq(Scopes), NEW f, ChainOK(old, chain, f), 2 <= Len(chain)
  PROVE  ChainOK(new, SubSeq(chain, 1, Len(chain) - 1), f)
<1>. DEFINE n == Len(chain) - 1
            next == SubSeq(chain, 1, n)
<1>1. /\ f \in 1 .. Len(old) /\ f \in DOMAIN new /\ new[f] = old[f] /\ new[f].n = "Func"
      /\ \A k \in f + 1 .. Len(new) : new[k].n # "Func"
      /\ Len(old) \in Nat /\ Level(old, f, Len(old)) = Len(chain) - 1
      /\ \A j \in f .. Len(new) : new[j].n = "Decl" => j = Len(new) \/ 1 <= Level(new, f, j)
      /\ n \in Nat /\ 1 <= n /\ Len(chain) = n + 1
  BY ChainBasics
<1>. HIDE DEF n
<1>2. Level(new, f, Len(new)) = n - 1
  BY <1>1, LevelsNext
<1>3. Len(next) = n /\ \A s \in 1 .. n : s \in 1 .. n + 1 /\ next[s] = chain[s]
  <2>1. \A i \in 1 .. n : chain[i] \in Scopes
    BY <1>1
  <2>. QED  BY <1>1, <2>1
<1>. HIDE DEF next
<1>4. ASSUME NEW s \in 2 .. n PROVE ScopeOf(new, f, s) = ScopeOf(old, f, s)
  <2>1. s \in Nat /\ s - 1 <= Level(new, f, Len(new))
    BY <1>1, <1>2
  <2>. QED  BY <1>1, <2>1, ScopeNext
<1>5. \A s \in 2 .. n : next[s] = ScopeOf(new, f, s)
  <2>1. \A s \in 2 .. n : s \in 2 .. n + 1 /\ s \in 1 .. n
    BY <1>1
  <2>2. \A s \in 2 .. n + 1 : chain[s] = ScopeOf(old, f, s)
    BY <1>1 DEF ChainOK
  <2>. QED  BY <1>3, <1>4, <2>1, <2>2
<1>6. \A s \in 1 .. n : NamesUnique(next[s])
  BY <1>1, <1>3 DEF ChainOK
<1>7. next[1] = ParamDecls(f, new[f].def)
  <2>1. 1 \in 1 .. n
    BY <1>1
  <2>. QED  BY <1>1, <1>3, <2>1 DEF ChainOK
<1>8. 1 <= Len(next) /\ Len(next) = Level(new, f, Len(new)) + 1
  BY <1>1, <1>2, <1>3
<1>9. \A j \in f .. Len(new) : new[j].n = "Decl" => 1 <= Level(new, f, j)
  BY <1>1
<1>. QED  BY <1>1, <1>3, <1>5, <1>6, <1>7, <1>8, <1>9 DEF ChainOK, next, n

(* A declaration belongs to the innermost scope, which is a sequence's.    *)
LEMMA ChainDecl ==
  ASSUME NEW old \in Seq(Nodes), NEW new \in Seq(Nodes), SameText(old, new),
         Len(new) = Len(old) + 1, new[Len(new)].n = "Decl",
         NEW chain \in Seq(Scopes), NEW f, ChainOK(old, chain, f), 2 <= Len(chain),
         ~ Declares(chain[Len(chain)], new[Len(new)].name),
         NEW decl, decl = LocalDecl(Len(new), new[Len(new)].name, new[Len(new)].type)
  PROVE  ChainOK(new, [chain EXCEPT ![Len(chain)] = @ \cup {decl}], f)
<1>. DEFINE n == Len(chain)
            scope == chain[n] \cup {decl}
            next == [chain EXCEPT ![n] = scope]
<1>1. /\ f \in 1 .. Len(old) /\ f \in DOMAIN new /\ new[f] = old[f] /\ new[f].n = "Func"
      /\ \A k \in f + 1 .. Len(new) : new[k].n # "Func"
      /\ Len(old) \in Nat /\ n \in Nat /\ 2 <= n /\ Level(old, f, Len(old)) = n - 1
      /\ \A j \in f .. Len(new) : new[j].n = "Decl" => j = Len(new) \/ 1 <= Level(new, f, j)
  BY ChainBasics
<1>2. Level(new, f, Len(new)) = n - 1
  BY <1>1, LevelsNext
<1>3. /\ Len(next) = n /\ n \in 1 .. n /\ next[n] = scope /\ \A s \in 1 .. n : s # n => next[s] = chain[s]
  BY <1>1
<1>4. next = [chain EXCEPT ![Len(chain)] = @ \cup {decl}]
  OBVIOUS
<1>. HIDE DEF next, n
<1>5. ASSUME NEW s \in 2 .. n
      PROVE  ScopeOf(new, f, s) = IF s = n THEN ScopeOf(old, f, s) \cup {decl} ELSE ScopeOf(old, f, s)
  <2>1. s \in Nat /\ s - 1 <= Level(new, f, Len(new)) /\ (s = n <=> Level(new, f, Len(new)) = s - 1)
    BY <1>1, <1>2
  <2>. QED  BY <1>1, <2>1, ScopeNext
<1>6. \A s \in 2 .. n : s \in 1 .. n /\ chain[s] = ScopeOf(old, f, s)
  BY <1>1 DEF ChainOK, n
<1>7. \A s \in 2 .. n : next[s] = ScopeOf(new, f, s)
  BY <1>3, <1>5, <1>6
<1>8. \A s \in 1 .. n : NamesUnique(next[s])
  <2>1. \A s \in 1 .. n : NamesUnique(chain[s])
    BY DEF ChainOK, n
  <2>2. decl.name = new[Len(new)].name
    BY DEF LocalDecl
  <2>3. NamesUnique(scope)
    BY <1>3, <2>1, <2>2 DEF NamesUnique, Declares, n
  <2>. QED  BY <1>3, <2>1, <2>3
<1>9. next[1] = ParamDecls(f, new[f].def)
  <2>1. 1 \in 1 .. n /\ 1 # n
    BY <1>1
  <2>. QED  BY <1>1, <1>3, <2>1 DEF ChainOK
<1>10. 1 <= Len(next) /\ Len(next) = Level(new, f, Len(new)) + 1
  BY <1>1, <1>2, <1>3
<1>11. \A j \in f .. Len(new) : new[j].n = "Decl" => 1 <= Level(new, f, j)
  BY <1>1, <1>2
<1>. QED  BY <1>1, <1>3, <1>4, <1>7, <1>8, <1>9, <1>10, <1>11 DEF ChainOK

(* The body of a function starts with the scope of its parameters.         *)
LEMMA ChainFunction ==
  ASSUME NEW prog \in Seq(Nodes), NEW f, f = Len(prog), 1 <= f, prog[f].n = "Func",
         ~ SameNameParams(prog[f].def)
  PROVE  ChainOK(prog, <<ParamDecls(f, prog[f].def)>>, f)
<1>. DEFINE params == ParamDecls(f, prog[f].def)
<1>1. f \in Nat /\ f \in DOMAIN prog /\ f + 1 .. Len(prog) = {}
  OBVIOUS
<1>2. Level(prog, f, Len(prog)) = 0
  <2>1. CountIn(prog, "Seq", f, f) = 0 /\ CountIn(prog, "EndSeq", f, f) = 0
    BY <1>1, CountOne
  <2>. QED  BY <2>1 DEF Level
<1>3. NamesUnique(params)
  BY DEF NamesUnique, ParamDecls, SameNameParams
<1>4. \A j \in f .. Len(prog) : prog[j].n # "Decl"
  <2>1. \A j \in f .. Len(prog) : j = f
    BY <1>1
  <2>. QED  BY <2>1
<1>. HIDE DEF params
<1>5. Len(<<params>>) = 1 /\ <<params>>[1] = params
  OBVIOUS
<1>6. (\A s \in 2 .. 1 : FALSE) /\ \A s \in 1 .. 1 : s = 1
  OBVIOUS
<1>7. \A s \in 1 .. 1 : NamesUnique(<<params>>[s])
  BY <1>3, <1>5, <1>6
<1>8. \A s \in 2 .. 1 : <<params>>[s] = ScopeOf(prog, f, s)
  BY <1>6
<1>9. ChainOK(prog, <<params>>, f)
  BY <1>1, <1>2, <1>4, <1>5, <1>7, <1>8 DEF ChainOK, params
<1>. QED  BY <1>9 DEF params

-----------------------------------------------------------------------------
(* What the chain finds                                                    *)

(* The innermost scope with the name decides.                              *)
LEMMA FindIn ==
  ASSUME TypeOK, NEW x, NEW s \in 1 .. Len(scopes), Declares(scopes[s], x),
         \A r \in s + 1 .. Len(scopes) : ~ Declares(scopes[r], x),
         NEW d \in scopes[s], d.name = x, NamesUnique(scopes[s])
  PROVE  Visible(x) /\ Find(x) = d
<1>. DEFINE I == {i \in 1 .. Len(scopes) : Declares(scopes[i], x)}
<1>1. Len(scopes) \in Nat /\ DOMAIN scopes = 1 .. Len(scopes)
  BY DEF TypeOK
<1>2. I \in SUBSET (1 .. Len(scopes)) /\ s \in I
  OBVIOUS
<1>3. SelectLastInSeq(scopes, LAMBDA scope : Declares(scope, x)) = Max(I)
  BY <1>2 DEF SelectLastInSeq
<1>4. Max(I) \in I /\ \A i \in I : i <= Max(I)
  <2>. HIDE DEF I
  <2>. QED  BY <1>1, <1>2, MaxOfPositions
<1>5. Max(I) = s
  <2>1. Max(I) \in 1 .. Len(scopes) /\ Declares(scopes[Max(I)], x) /\ s <= Max(I)
    BY <1>2, <1>4
  <2>. HIDE DEF I
  <2>2. Max(I) \notin s + 1 .. Len(scopes)
    BY <2>1
  <2>. QED  BY <1>1, <2>1, <2>2
<1>6. Find(x) = CHOOSE e \in scopes[s] : e.name = x
  BY <1>3, <1>5 DEF Find
<1>7. Find(x) \in scopes[s] /\ Find(x).name = x
  BY <1>6
<1>. QED  BY <1>1, <1>7 DEF Visible, NamesUnique

(* The chain of scopes resolves every name as the text does.               *)
LEMMA ChainFinds ==
  ASSUME TypeOK, NEW f, ChainOK(syntax, scopes, f), NEW x
  PROVE  {Find(x) : y \in {z \in {x} : Visible(z)}} = DeclsIn(syntax, x, Len(syntax) + 1)
<1>. DEFINE L == Len(syntax)
            n == Len(scopes)
            locals == LocalsIn(syntax, x, L + 1)
            lev(j) == Level(syntax, f, j)
<1>1. /\ L \in Nat /\ n \in Nat /\ 1 <= n /\ f \in 1 .. L /\ syntax[f].n = "Func"
      /\ \A k \in f + 1 .. (L + 1) - 1 : syntax[k].n # "Func"
      /\ DOMAIN scopes = 1 .. n /\ n = lev(L) + 1 /\ (L + 1) - 1 = L
  BY DEF ChainOK, TypeOK
<1>2. FunctionIn(syntax, L + 1) = f
  <2>. HIDE DEF L
  <2>1. L + 1 \in Nat /\ f \in 1 .. (L + 1) - 1
    BY <1>1
  <2>. QED  BY <1>1, <2>1, FunctionIs
<1>3. locals = {j \in f .. L : /\ syntax[j].n = "Decl" /\ syntax[j].name = x
                               /\ EnclosesIn(syntax, j, L + 1)}
  BY <1>1, <1>2 DEF LocalsIn
<1>. HIDE DEF locals, n, L
<1>4. \A j \in f .. L : lev(j) \in Int
  <2>1. \A j \in f .. L : f \in Nat /\ j \in Int
    BY <1>1
  <2>. QED  BY <2>1, LevelType
<1>5. ASSUME NEW j \in locals, NEW m \in f .. L, j <= m PROVE lev(j) <= lev(m)
  <2>1. j \in Nat /\ f \in Nat /\ f <= j /\ L + 1 \in Nat /\ m \in Nat /\ j \in f .. L
    BY <1>1, <1>3
  <2>2. \A k \in j + 1 .. (L + 1) - 1 : Level(syntax, f, j) <= Level(syntax, f, k)
    BY <1>3, <2>1, EnclosesLevel
  <2>3. CASE j = m
    BY <1>4, <2>1, <2>3
  <2>4. CASE j # m
    <3>1. m \in j + 1 .. (L + 1) - 1
      BY <1>1, <1>5, <2>1, <2>4
    <3>. QED  BY <2>2, <3>1
  <2>. QED  BY <2>3, <2>4
<1>6. ASSUME NEW j \in locals
      PROVE  /\ lev(j) + 1 \in 2 .. n
             /\ LocalDecl(j, x, syntax[j].type) \in scopes[lev(j) + 1]
  <2>1. j \in f .. L /\ L \in f .. L /\ j <= L /\ syntax[j].n = "Decl" /\ syntax[j].name = x
    BY <1>1, <1>3
  <2>2. lev(j) <= lev(L) /\ 1 <= lev(j)
    BY <1>5, <2>1 DEF ChainOK, L
  <2>3. lev(j) + 1 \in 2 .. n
    BY <1>1, <1>4, <2>1, <2>2
  <2>4. j \in OpenDecls(syntax, f, lev(j) + 1)
    <3>1. lev(j) = (lev(j) + 1) - 1
      BY <1>4, <2>1
    <3>. QED  BY <1>3, <2>1, <3>1 DEF OpenDecls, L
  <2>5. scopes[lev(j) + 1] = ScopeOf(syntax, f, lev(j) + 1)
    BY <2>3 DEF ChainOK, n
  <2>. QED  BY <2>1, <2>3, <2>4, <2>5 DEF ScopeOf
<1>7. ASSUME NEW s \in 2 .. n, Declares(scopes[s], x)
      PROVE  \E j \in locals : s = lev(j) + 1
  <2>1. scopes[s] = ScopeOf(syntax, f, s)
    BY DEF ChainOK, n
  <2>2. PICK j \in OpenDecls(syntax, f, s) : LocalDecl(j, syntax[j].name, syntax[j].type).name = x
    BY <1>7, <2>1 DEF Declares, ScopeOf
  <2>3. syntax[j].name = x /\ j \in f .. L /\ lev(j) = s - 1 /\ j \in locals
    BY <1>3, <2>2 DEF OpenDecls, LocalDecl, L
  <2>. QED  BY <2>3
<1>8. CASE locals # {}
  <2>. DEFINE J == Max(locals)
              s == lev(J) + 1
              d == LocalDecl(J, x, syntax[J].type)
  <2>1. J \in locals /\ \A j \in locals : j <= J
    <3>1. locals \in SUBSET (1 .. L)
      BY <1>1, <1>3
    <3>. QED  BY <1>1, <1>8, <3>1, MaxOfPositions
  <2>2. s \in 2 .. n /\ d \in scopes[s] /\ J \in f .. L
    BY <1>3, <1>6, <2>1
  <2>3. d.name = x
    BY DEF LocalDecl
  <2>. HIDE DEF J, d
  <2>4. ASSUME NEW r \in s + 1 .. n, Declares(scopes[r], x) PROVE FALSE
    <3>1. r \in 2 .. n
      BY <2>2
    <3>2. PICK j \in locals : r = lev(j) + 1
      BY <1>7, <2>4, <3>1
    <3>3. j \in f .. L
      BY <1>3
    <3>4. lev(j) <= lev(J) /\ lev(j) \in Int /\ lev(J) \in Int
      BY <1>4, <1>5, <2>1, <2>2, <3>3
    <3>. QED  BY <3>1, <3>2, <3>4
  <2>5. s \in 1 .. Len(scopes) /\ NamesUnique(scopes[s]) /\ Declares(scopes[s], x)
    BY <2>2, <2>3 DEF ChainOK, Declares, n
  <2>. HIDE DEF s
  <2>6. Visible(x) /\ Find(x) = d
    BY <2>2, <2>3, <2>4, <2>5, FindIn DEF n
  <2>7. {Find(x) : y \in {z \in {x} : Visible(z)}} = {d}
    BY <2>6
  <2>8. DeclsIn(syntax, x, L + 1) = {d}
    BY <1>8 DEF DeclsIn, locals, d, J
  <2>. QED  BY <2>7, <2>8 DEF L
<1>9. CASE locals = {}
  <2>. DEFINE params == ParamDecls(f, syntax[f].def)
  <2>1. DeclsIn(syntax, x, L + 1) = {d \in params : d.name = x}
    BY <1>2, <1>9 DEF DeclsIn, locals
  <2>2. \A r \in 1 + 1 .. n : ~ Declares(scopes[r], x)
    BY <1>7, <1>9
  <2>3. scopes[1] = params /\ 1 \in 1 .. n /\ NamesUnique(scopes[1])
    BY <1>1 DEF ChainOK, n
  <2>. HIDE DEF params
  <2>4. CASE Declares(scopes[1], x)
    <3>1. PICK d \in scopes[1] : d.name = x
      BY <2>4 DEF Declares
    <3>2. Visible(x) /\ Find(x) = d
      BY <2>2, <2>3, <2>4, <3>1, FindIn DEF n
    <3>3. {e \in params : e.name = x} = {d}
      BY <2>3, <3>1 DEF NamesUnique
    <3>. QED  BY <2>1, <3>2, <3>3 DEF L
  <2>5. CASE ~ Declares(scopes[1], x)
    <3>1. \A r \in 1 .. n : r = 1 \/ r \in 1 + 1 .. n
      BY <1>1
    <3>2. ~ Visible(x)
      BY <1>1, <2>2, <2>5, <3>1 DEF Visible
    <3>3. {e \in params : e.name = x} = {}
      BY <2>3, <2>5 DEF Declares
    <3>. QED  BY <2>1, <3>2, <3>3 DEF L
  <2>. QED  BY <2>4, <2>5
<1>. QED  BY <1>8, <1>9

-----------------------------------------------------------------------------
(* The invariant                                                           *)

Linked(prog, i) == DeclsIn(prog, prog[i].name, i) = {prog[i].decl}

\* The assignment whose expression is being visited is linked after that.
Pending(fs, i) == At(fs, {"AssignExp"}) /\ Last(fs).node = i

LinkedBut(prog, fs) ==
  \A i \in DOMAIN prog : prog[i].n \in {"Var", "Assign"} => Linked(prog, i) \/ Pending(fs, i)

\* Functions do not nest, their bodies are sequences, and an expression
\* contains no statement.
FramesShape(fs) ==
  /\ fs # <<>> => fs[1].pc \in {"FuncBody", "FuncEnd"}
  /\ \A i \in 2 .. Len(fs) : fs[i].pc \notin {"FuncBody", "FuncEnd"} /\ 2 <= Depth(fs[i])
  /\ \A i \in 1 .. Len(fs) - 1 : fs[i].pc \notin ExpPoints

\* Behind an assignment there is only its expression.
AssignExpLast(prog, fs) ==
  At(fs, {"AssignExp"}) => \A m \in Last(fs).node + 1 .. Len(prog) : prog[m].n \in ExpNodes

StartsWithFunction(prog) == prog # <<>> => prog[1].n = "Func"

LexInv ==
  /\ StartsWithFunction(syntax)
  /\ FramesShape(frames)
  /\ AssignExpLast(syntax, frames)
  /\ frames # <<>> => ChainOK(syntax, scopes, frames[1].node)
  /\ status # "error" => LinkedBut(syntax, frames)

-----------------------------------------------------------------------------
(* The frames                                                              *)

(* A Visit function returns to a statement.                                *)
LEMMA ShapeFront ==
  ASSUME NEW fs \in Seq(Frames), fs # <<>>, FramesShape(fs)
  PROVE  /\ FramesShape(Front(fs)) /\ ~ At(Front(fs), ExpPoints)
         /\ Front(fs) # <<>> => Front(fs)[1] = fs[1]
<1>. DEFINE m == Len(fs) - 1
            new == Front(fs)
<1>1. m \in Nat /\ Len(fs) = m + 1 /\ \A i \in 1 .. m : fs[i] \in Frames
  OBVIOUS
<1>2. new = SubSeq(fs, 1, m)
  BY DEF Front
<1>. HIDE DEF m, new
<1>3. Len(new) = m /\ (new # <<>> <=> m # 0) /\ \A i \in 1 .. m : new[i] = fs[i]
  BY <1>1, <1>2
<1>4. new # <<>> => new[1] = fs[1] /\ fs # <<>>
  BY <1>1, <1>3
<1>5. \A i \in 2 .. m : i \in 1 .. m /\ i \in 2 .. m + 1
  BY <1>1
<1>6. \A i \in 1 .. m - 1 : i \in 1 .. m /\ i \in 1 .. (m + 1) - 1
  BY <1>1
<1>7. FramesShape(new)
  BY <1>1, <1>3, <1>4, <1>5, <1>6 DEF FramesShape
<1>8. ~ At(new, ExpPoints)
  <2>. SUFFICES ASSUME new # <<>> PROVE Last(new).pc \notin ExpPoints
    BY DEF At
  <2>1. m \in 1 .. m /\ m \in 1 .. (m + 1) - 1
    BY <1>1, <1>3
  <2>. QED  BY <1>1, <1>3, <2>1 DEF FramesShape, Last
<1>. QED  BY <1>4, <1>7, <1>8 DEF new

(* A Visit function inside of a function's goes on.                        *)
LEMMA ShapeSetPc ==
  ASSUME NEW fs \in Seq(Frames), fs # <<>>, FramesShape(fs), NEW pc \in ControlPoints,
         IF Len(fs) = 1 THEN pc \in {"FuncBody", "FuncEnd"} ELSE pc \notin {"FuncBody", "FuncEnd"},
         pc = "Seq" <=> fs[Len(fs)].pc = "Seq"
  PROVE  /\ FramesShape(SetPc(fs, pc)) /\ SetPc(fs, pc) \in Seq(Frames)
         /\ SetPc(fs, pc) # <<>> /\ SetPc(fs, pc)[1].node = fs[1].node
         /\ Len(SetPc(fs, pc)) = Len(fs) /\ Last(SetPc(fs, pc)).pc = pc
<1>. DEFINE n == Len(fs)
            fr == [fs[n] EXCEPT !.pc = pc]
            new == [fs EXCEPT ![n] = fr]
<1>1. n \in Nat /\ 1 <= n /\ fs[n] \in Frames /\ DOMAIN fs = 1 .. n
  OBVIOUS
<1>2. fr \in Frames /\ fr.pc = pc /\ fr.node = fs[n].node /\ Depth(fr) = Depth(fs[n])
  BY <1>1 DEF Frames, Depth
<1>3. SetPc(fs, pc) = new
  BY DEF SetPc
<1>. HIDE DEF fr
<1>4. /\ new \in Seq(Frames) /\ Len(new) = n /\ new[n] = fr /\ new # <<>>
      /\ \A i \in 1 .. n : i # n => new[i] = fs[i]
  BY <1>1, <1>2
<1>. HIDE DEF new, n
<1>5. 1 \in 1 .. n /\ (n # 1 => new[1] = fs[1])
  BY <1>1, <1>4
<1>6. new[1].node = fs[1].node /\ new[1].pc \in {"FuncBody", "FuncEnd"}
  <2>1. CASE n = 1
    BY <1>2, <1>4, <2>1 DEF n
  <2>2. CASE n # 1
    BY <1>5, <2>2 DEF FramesShape
  <2>. QED  BY <2>1, <2>2
<1>7. \A i \in 2 .. n : i \in 1 .. n /\ n # 1
  BY <1>1
<1>8. \A i \in 2 .. n : new[i].pc \notin {"FuncBody", "FuncEnd"} /\ 2 <= Depth(new[i])
  BY <1>2, <1>4, <1>7 DEF FramesShape, n
<1>9. \A i \in 1 .. n - 1 : i \in 1 .. n /\ i # n
  BY <1>1
<1>10. \A i \in 1 .. n - 1 : new[i].pc \notin ExpPoints
  BY <1>4, <1>9 DEF FramesShape, n
<1>11. FramesShape(new)
  BY <1>4, <1>6, <1>8, <1>10 DEF FramesShape
<1>. QED  BY <1>2, <1>3, <1>4, <1>6, <1>11 DEF n, Last

(* A statement begins.                                                     *)
LEMMA ShapeEnter ==
  ASSUME NEW fs \in Seq(Frames), At(fs, StmtPoints), FramesShape(fs)
  PROVE  /\ FramesShape(Resume(fs)) /\ ~ At(Resume(fs), ExpPoints)
         /\ Resume(fs) # <<>> /\ Resume(fs)[1].node = fs[1].node
         /\ \A fr \in Frames :
              fr.pc \notin {"FuncBody", "FuncEnd"} /\ 2 <= Depth(fr)
                => /\ FramesShape(Enter(fs, fr)) /\ Last(Enter(fs, fr)) = fr
                   /\ Enter(fs, fr)[1].node = fs[1].node /\ Enter(fs, fr) # <<>>
<1>. DEFINE pc == After[fs[Len(fs)].pc]
            res == Resume(fs)
            n == Len(fs)
<1>1. fs # <<>> /\ fs[n].pc \in StmtPoints
  BY DEF At, Last
<1>2. n \in Nat /\ 1 <= n
  BY <1>1
<1>3. /\ pc \in ControlPoints \ ExpPoints /\ (pc = "Seq" <=> fs[n].pc = "Seq")
      /\ pc \in {"FuncBody", "FuncEnd"} <=> fs[n].pc = "FuncBody"
  BY <1>1 DEF After, ControlPoints, StmtPoints, EndPoints, ExpPoints
<1>4. IF n = 1 THEN pc \in {"FuncBody", "FuncEnd"} ELSE pc \notin {"FuncBody", "FuncEnd"}
  <2>1. CASE n = 1
    <3>1. fs[n].pc \in {"FuncBody", "FuncEnd"}
      BY <1>1, <2>1 DEF FramesShape
    <3>2. fs[n].pc # "FuncEnd"
      BY <1>1 DEF StmtPoints
    <3>. QED  BY <1>3, <2>1, <3>1, <3>2
  <2>2. CASE n # 1
    <3>1. n \in 2 .. n
      <4>. HIDE DEF n
      <4>. QED  BY <1>2, <2>2
    <3>2. \A i \in 2 .. n : fs[i].pc \notin {"FuncBody", "FuncEnd"}
      BY DEF FramesShape
    <3>3. fs[n].pc \notin {"FuncBody", "FuncEnd"}
      BY <3>1, <3>2
    <3>. QED  BY <1>3, <2>2, <3>3
  <2>. QED  BY <2>1, <2>2
<1>5. res = SetPc(fs, pc)
  BY DEF Resume, SetPc
<1>. HIDE DEF pc, res
<1>6. /\ FramesShape(res) /\ res \in Seq(Frames) /\ res # <<>> /\ Last(res).pc = pc
      /\ res[1].node = fs[1].node /\ Len(res) = n
  BY <1>1, <1>3, <1>4, <1>5, ShapeSetPc
<1>. HIDE DEF n
<1>7. ASSUME NEW fr \in Frames, fr.pc \notin {"FuncBody", "FuncEnd"}, 2 <= Depth(fr)
      PROVE  /\ FramesShape(Append(res, fr)) /\ Last(Append(res, fr)) = fr
             /\ Append(res, fr)[1].node = fs[1].node /\ Append(res, fr) # <<>>
  <2>. DEFINE new == Append(res, fr)
  <2>1. /\ Len(new) = n + 1 /\ new[n + 1] = fr /\ \A i \in 1 .. n : new[i] = res[i]
        /\ new # <<>>
    BY <1>2, <1>6
  <2>. HIDE DEF new
  <2>2. new[1] = res[1]
    BY <1>2, <2>1
  <2>3. \A i \in 2 .. n + 1 : i = n + 1 \/ (i \in 2 .. n /\ i \in 1 .. n)
    BY <1>2
  <2>4. \A i \in 1 .. (n + 1) - 1 : i \in 1 .. n /\ (i = n \/ i \in 1 .. n - 1)
    BY <1>2
  <2>5. \A i \in 2 .. n + 1 : new[i].pc \notin {"FuncBody", "FuncEnd"} /\ 2 <= Depth(new[i])
    BY <1>6, <1>7, <2>1, <2>3 DEF FramesShape
  <2>6. res[n].pc \notin ExpPoints
    BY <1>3, <1>6 DEF Last
  <2>7. \A i \in 1 .. (n + 1) - 1 : new[i].pc \notin ExpPoints
    BY <1>6, <2>1, <2>4, <2>6 DEF FramesShape
  <2>8. FramesShape(new)
    BY <1>6, <2>1, <2>2, <2>5, <2>7 DEF FramesShape
  <2>9. Last(new) = fr
    BY <2>1 DEF Last
  <2>. QED  BY <1>6, <2>1, <2>2, <2>8, <2>9 DEF new
<1>8. \A fr : Enter(fs, fr) = Append(res, fr)
  BY DEF Enter, res
<1>9. ~ At(res, ExpPoints)
  BY <1>3, <1>6 DEF At
<1>. QED  BY <1>6, <1>7, <1>8, <1>9 DEF res

-----------------------------------------------------------------------------
(* The steps                                                               *)

(* A node more does not change the text before it.                         *)
LEMMA TextGrows ==
  ASSUME NEW prog \in Seq(Nodes), NEW node \in Nodes
  PROVE  /\ Append(prog, node) \in Seq(Nodes)
         /\ Len(Append(prog, node)) = Len(prog) + 1 /\ Append(prog, node)[Len(prog) + 1] = node
         /\ \A k \in DOMAIN prog : Append(prog, node)[k] = prog[k]
         /\ DOMAIN Append(prog, node) = DOMAIN prog \cup {Len(prog) + 1}
         /\ SameText(prog, Append(prog, node))
<1>1. /\ Append(prog, node) \in Seq(Nodes) /\ Len(Append(prog, node)) = Len(prog) + 1
      /\ Append(prog, node)[Len(prog) + 1] = node
      /\ DOMAIN Append(prog, node) = DOMAIN prog \cup {Len(prog) + 1}
  BY AppendNode
<1>2. \A k \in DOMAIN prog : Append(prog, node)[k] = prog[k]
  OBVIOUS
<1>. QED  BY <1>1, <1>2 DEF SameText

(* A link that follows the text goes on to do so.                          *)
LEMMA LinkedKept ==
  ASSUME NEW old \in Seq(Nodes), NEW new, SameText(old, new), StartsWithFunction(old),
         NEW i \in DOMAIN old, old[i].n \in {"Var", "Assign"},
         Linked(old, i), new[i].decl = old[i].decl
  PROVE  Linked(new, i)
<1>1. /\ i \in 1 .. Len(old) /\ Len(old) \in Nat /\ DOMAIN old = 1 .. Len(old) /\ old # <<>>
  OBVIOUS
<1>2. old[1].n = "Func" /\ i # 1
  BY <1>1 DEF StartsWithFunction
<1>3. i \in 2 .. Len(old) + 1
  BY <1>1, <1>2
<1>4. new[i].name = old[i].name
  BY DEF SameText
<1>5. \A x : DeclsIn(new, x, i) = DeclsIn(old, x, i)
  BY <1>2, <1>3, DeclsKept
<1>. QED  BY <1>4, <1>5 DEF Linked

(* The links after a node that is linked, or an assignment that begins.    *)
LEMMA LinkedGrows ==
  ASSUME NEW prog \in Seq(Nodes), NEW node \in Nodes, StartsWithFunction(prog),
         NEW fs, NEW next, LinkedBut(prog, fs), next = fs \/ ~ At(fs, {"AssignExp"}),
         node.n \in {"Var", "Assign"} =>
           Linked(Append(prog, node), Len(prog) + 1) \/ Pending(next, Len(prog) + 1)
  PROVE  LinkedBut(Append(prog, node), next)
<1>. DEFINE new == Append(prog, node)
<1>1. /\ new[Len(prog) + 1] = node /\ \A k \in DOMAIN prog : new[k] = prog[k]
      /\ SameText(prog, new) /\ DOMAIN new = DOMAIN prog \cup {Len(prog) + 1}
  BY TextGrows
<1>. HIDE DEF new
<1>2. ASSUME NEW i \in DOMAIN prog, new[i].n \in {"Var", "Assign"}
      PROVE  Linked(new, i) \/ Pending(next, i)
  <2>1. new[i] = prog[i]
    BY <1>1
  <2>2. Linked(prog, i) \/ Pending(fs, i)
    BY <1>2, <2>1 DEF LinkedBut
  <2>3. Pending(fs, i) => Pending(next, i)
    BY DEF Pending
  <2>4. Linked(prog, i) => Linked(new, i)
    BY <1>1, <1>2, <2>1, LinkedKept
  <2>. QED  BY <2>2, <2>3, <2>4
<1>3. new[Len(prog) + 1].n \in {"Var", "Assign"} =>
        Linked(new, Len(prog) + 1) \/ Pending(next, Len(prog) + 1)
  BY <1>1 DEF new
<1>4. LinkedBut(new, next)
  BY <1>1, <1>2, <1>3 DEF LinkedBut
<1>. QED  BY <1>4 DEF new

(* What an action on a statement or an expression leaves: the chain is     *)
(* right for the new node.                                                 *)
LEMMA StepKeeps ==
  ASSUME IInv, LexInv, NEW node \in Nodes, syntax' = Append(syntax, node), status' = status,
         StartsWithFunction(syntax'), FramesShape(frames'), AssignExpLast(syntax', frames'),
         frames' # <<>> => ChainOK(syntax', scopes', frames'[1].node),
         frames' = frames \/ ~ At(frames, {"AssignExp"}),
         node.n \in {"Var", "Assign"} =>
           Linked(syntax', Len(syntax) + 1) \/ Pending(frames', Len(syntax) + 1)
  PROVE  LexInv'
<1>1. syntax \in Seq(Nodes) /\ StartsWithFunction(syntax)
  BY DEF IInv, TypeOK, LexInv
<1>2. status # "error" => LinkedBut(syntax', frames')
  BY <1>1, LinkedGrows DEF LexInv
<1>. QED  BY <1>2 DEF LexInv

(* An error leaves nothing to be said.                                     *)
LEMMA TypeErrorLex == ASSUME LexInv, TypeError PROVE LexInv'
<1>1. frames' = <<>> /\ status' = "error" /\ syntax' = syntax
  BY DEF TypeError
<1>2. FramesShape(<<>>) /\ AssignExpLast(syntax, <<>>)
  BY DEF FramesShape, AssignExpLast, At
<1>. QED  BY <1>1, <1>2 DEF LexInv

(* The program and its frames in the body of a function.                   *)
LEMMA ActiveFunction ==
  ASSUME IInv, LexInv, frames # <<>>
  PROVE  /\ syntax \in Seq(Nodes) /\ Len(syntax) \in Nat /\ syntax # <<>>
         /\ syntax[1].n = "Func" /\ frames \in Seq(Frames) /\ scopes \in Seq(Scopes)
         /\ ChainOK(syntax, scopes, frames[1].node) /\ FramesShape(frames)
<1>1. /\ syntax \in Seq(Nodes) /\ Len(syntax) \in Nat
      /\ frames \in Seq(Frames) /\ scopes \in Seq(Scopes)
      /\ ChainOK(syntax, scopes, frames[1].node) /\ FramesShape(frames)
  BY DEF IInv, TypeOK, LexInv
<1>2. syntax # <<>>
  BY <1>1 DEF ChainOK
<1>. QED  BY <1>1, <1>2 DEF LexInv, StartsWithFunction

(* In the body of a function there are scopes besides the parameters'.     *)
LEMMA DeepEnough ==
  ASSUME IInv, LexInv, At(frames, StmtPoints), Last(frames).pc # "FuncBody"
  PROVE  2 <= Len(scopes) /\ Len(scopes) \in Nat
<1>1. frames # <<>> /\ Last(frames).pc \in StmtPoints /\ FramesShape(frames)
  BY DEF At, LexInv
<1>2. Len(frames) \in Nat \ {0} /\ Last(frames) = frames[Len(frames)] /\ Len(scopes) \in Nat
  BY <1>1, ScopeOfFrame
<1>3. Len(frames) # 1
  BY <1>1, <1>2 DEF FramesShape, StmtPoints
<1>4. Len(frames) \in 2 .. Len(frames)
  <2>1. \A m \in Nat \ {0} : m # 1 => m \in 2 .. m
    OBVIOUS
  <2>. QED  BY <1>2, <1>3, <2>1
<1>5. 2 <= Depth(Last(frames))
  BY <1>1, <1>2, <1>4 DEF FramesShape
<1>6. Len(scopes) = Depth(Last(frames))
  BY <1>1, <1>2 DEF IInv, FramesOK
<1>. QED  BY <1>2, <1>5, <1>6

(* A node that leaves the chain as it is.                                  *)
LEMMA NeutralKeeps ==
  ASSUME IInv, LexInv, frames # <<>>, NEW node \in Nodes,
         node.n \notin {"Func", "Seq", "EndSeq", "Decl"},
         syntax' = Append(syntax, node), scopes' = scopes, status' = status,
         FramesShape(frames'), AssignExpLast(syntax', frames'),
         frames' # <<>> => frames'[1].node = frames[1].node,
         frames' = frames \/ ~ At(frames, {"AssignExp"}),
         node.n \in {"Var", "Assign"} =>
           Linked(syntax', Len(syntax) + 1) \/ Pending(frames', Len(syntax) + 1)
  PROVE  LexInv'
<1>. DEFINE new == Append(syntax, node)
<1>1. /\ syntax \in Seq(Nodes) /\ syntax # <<>> /\ StartsWithFunction(syntax)
      /\ syntax[1].n = "Func" /\ ChainOK(syntax, scopes, frames[1].node)
      /\ 1 \in DOMAIN syntax
  BY ActiveFunction DEF LexInv
<1>2. /\ new \in Seq(Nodes) /\ Len(new) = Len(syntax) + 1 /\ new[Len(syntax) + 1] = node
      /\ \A k \in DOMAIN syntax : new[k] = syntax[k]
      /\ SameText(syntax, new)
  BY <1>1, TextGrows
<1>. HIDE DEF new
<1>3. ChainOK(new, scopes, frames[1].node)
  BY <1>1, <1>2, ChainNeutral
<1>4. StartsWithFunction(new)
  BY <1>1, <1>2 DEF StartsWithFunction
<1>5. frames' # <<>> => ChainOK(syntax', scopes', frames'[1].node)
  BY <1>3 DEF new
<1>. QED  BY <1>4, <1>5, StepKeeps DEF new

(* A statement whose Visit function first visits an expression.            *)
LEMMA VisitExpOfLex ==
  ASSUME IInv, LexInv, NEW kind, NEW node \in Nodes,
         node.n \notin {"Func", "Seq", "EndSeq", "Decl", "Var"},
         NEW pc \in ExpPoints, node.n = "Assign" => pc = "AssignExp",
         VisitExpOf(kind, node, pc), kind # "Seq"
  PROVE  LexInv'
<1>. DEFINE fr == NewFrame(pc)
            next == Enter(frames, fr)
<1>1. /\ At(frames, StmtPoints) /\ frames # <<>> /\ Last(frames).pc # "FuncBody"
      /\ syntax' = Append(syntax, node) /\ frames' = next
      /\ scopes' = scopes /\ status' = status
  BY DEF VisitExpOf, MayVisit, At
<1>2. /\ syntax \in Seq(Nodes) /\ Len(syntax) \in Nat /\ frames \in Seq(Frames)
      /\ FramesShape(frames)
  BY <1>1, ActiveFunction
<1>3. 2 <= Len(scopes) /\ Len(scopes) \in Nat
  BY <1>1, DeepEnough
<1>4. /\ fr \in Frames /\ fr.pc = pc /\ fr.node = Len(syntax) + 1 /\ 2 <= Depth(fr)
      /\ fr.pc \notin {"FuncBody", "FuncEnd"}
  BY <1>2, <1>3 DEF NewFrame, Frames, ControlPoints, ExpPoints, Depth
<1>. HIDE DEF fr
<1>5. /\ FramesShape(next) /\ Last(next) = fr /\ next # <<>>
      /\ next[1].node = frames[1].node
  BY <1>1, <1>2, <1>4, ShapeEnter
<1>. HIDE DEF next
<1>6. AssignExpLast(syntax', next)
  <2>1. Len(syntax') = Len(syntax) + 1
    BY <1>1, <1>2, TextGrows
  <2>2. (Len(syntax) + 1) + 1 .. Len(syntax) + 1 = {}
    BY <1>2
  <2>. QED  BY <1>4, <1>5, <2>1, <2>2 DEF AssignExpLast
<1>7. node.n = "Assign" => Pending(next, Len(syntax) + 1)
  BY <1>4, <1>5 DEF Pending, At
<1>8. ~ At(frames, {"AssignExp"})
  BY <1>1 DEF At, StmtPoints
<1>. QED  BY <1>1, <1>5, <1>6, <1>7, <1>8, NeutralKeeps

(* A declaration.                                                          *)
LEMMA VisitDeclLex ==
  ASSUME IInv, LexInv, NEW x \in VarNames, NEW t \in Types, NEW init \in BOOLEAN,
         VisitDecl(x, t, init)
  PROVE  LexInv'
<1>. DEFINE node == [n |-> "Decl", name |-> x, type |-> t, init |-> init]
            prog == Append(syntax, node)
            fr == NewFrame("DeclInit")
            decl == LocalDecl(Len(syntax) + 1, x, t)
            next == [scopes EXCEPT ![Len(scopes)] = @ \cup {decl}]
<1>1. At(frames, StmtPoints) /\ frames # <<>> /\ Last(frames).pc # "FuncBody"
  BY DEF VisitDecl, MayVisit, At
<1>2. /\ syntax \in Seq(Nodes) /\ Len(syntax) \in Nat /\ frames \in Seq(Frames)
      /\ FramesShape(frames) /\ scopes \in Seq(Scopes) /\ syntax # <<>>
      /\ ChainOK(syntax, scopes, frames[1].node)
  BY <1>1, ActiveFunction
<1>3. 2 <= Len(scopes) /\ Len(scopes) \in Nat /\ Last(scopes) = scopes[Len(scopes)]
  BY <1>1, DeepEnough DEF Last
<1>4. CASE TypeError
  BY <1>4, TypeErrorLex
<1>5. CASE ~ TypeError
  <2>1. /\ ~ Declares(scopes[Len(scopes)], x) /\ syntax' = prog /\ scopes' = next
        /\ frames' = Enter(frames, fr) \/ frames' = Resume(frames)
        /\ status' = status
    BY <1>3, <1>5 DEF VisitDecl
  <2>2. /\ fr \in Frames /\ fr.pc = "DeclInit" /\ 2 <= Depth(fr)
        /\ fr.pc \notin {"FuncBody", "FuncEnd"}
    BY <1>2, <1>3 DEF NewFrame, Frames, ControlPoints, ExpPoints, Depth
  <2>. HIDE DEF fr
  <2>3. /\ FramesShape(frames') /\ frames' # <<>> /\ frames'[1].node = frames[1].node
        /\ ~ At(frames', {"AssignExp"})
    <3>1. CASE frames' = Enter(frames, fr)
      BY <1>1, <1>2, <2>2, <3>1, ShapeEnter DEF At
    <3>2. CASE frames' = Resume(frames)
      BY <1>1, <1>2, <3>2, ShapeEnter DEF At, ExpPoints
    <3>. QED  BY <2>1, <3>1, <3>2
  <2>4. node \in Nodes /\ node.n = "Decl" /\ node.name = x /\ node.type = t
    BY NodeTypes
  <2>. HIDE DEF node
  <2>5. /\ prog \in Seq(Nodes) /\ Len(prog) = Len(syntax) + 1 /\ prog[Len(prog)] = node
        /\ \A k \in DOMAIN syntax : prog[k] = syntax[k]
        /\ SameText(syntax, prog)
    BY <1>2, <2>4, TextGrows
  <2>. HIDE DEF prog
  <2>6. ChainOK(prog, next, frames[1].node)
    <3>1. decl = LocalDecl(Len(prog), prog[Len(prog)].name, prog[Len(prog)].type)
      BY <2>4, <2>5
    <3>. HIDE DEF decl
    <3>. QED  BY <1>2, <1>3, <2>1, <2>4, <2>5, <3>1, ChainDecl
  <2>7. StartsWithFunction(prog)
    <3>1. 1 \in DOMAIN syntax
      BY <1>2
    <3>. QED  BY <1>2, <2>5, <3>1 DEF StartsWithFunction, LexInv
  <2>8. AssignExpLast(syntax', frames')
    BY <2>3 DEF AssignExpLast
  <2>9. ~ At(frames, {"AssignExp"})
    BY <1>1 DEF At, StmtPoints
  <2>. HIDE DEF next
  <2>. QED  BY <2>1, <2>3, <2>4, <2>6, <2>7, <2>8, <2>9, StepKeeps DEF prog
<1>. QED  BY <1>4, <1>5

(* A sequence begins.                                                      *)
LEMMA VisitSeqLex == ASSUME IInv, LexInv, VisitSeq PROVE LexInv'
<1>. DEFINE node == Mark("Seq")
            prog == Append(syntax, node)
            fr == NewFrame("Seq")
            next == Enter(frames, fr)
<1>1. /\ At(frames, StmtPoints) /\ frames # <<>> /\ syntax' = prog
      /\ scopes' = Append(scopes, {}) /\ frames' = next /\ status' = status
  BY DEF VisitSeq, MayVisit, At
<1>2. /\ syntax \in Seq(Nodes) /\ Len(syntax) \in Nat /\ frames \in Seq(Frames)
      /\ FramesShape(frames) /\ scopes \in Seq(Scopes) /\ syntax # <<>>
      /\ ChainOK(syntax, scopes, frames[1].node) /\ Len(scopes) \in Nat
  BY <1>1, ActiveFunction
<1>3. 1 <= Len(scopes)
  BY <1>2 DEF ChainOK
<1>4. fr \in Frames /\ fr.pc = "Seq" /\ 2 <= Depth(fr) /\ fr.pc \notin {"FuncBody", "FuncEnd"}
  BY <1>2, <1>3 DEF NewFrame, Frames, ControlPoints, StmtPoints, Depth
<1>. HIDE DEF fr
<1>5. /\ FramesShape(next) /\ Last(next) = fr /\ next # <<>>
      /\ next[1].node = frames[1].node
  BY <1>1, <1>2, <1>4, ShapeEnter
<1>. HIDE DEF next
<1>6. node \in Nodes /\ node.n = "Seq"
  BY NodeTypes DEF Marks
<1>. HIDE DEF node
<1>7. /\ prog \in Seq(Nodes) /\ Len(prog) = Len(syntax) + 1 /\ prog[Len(prog)] = node
      /\ \A k \in DOMAIN syntax : prog[k] = syntax[k]
      /\ SameText(syntax, prog)
  BY <1>2, <1>6, TextGrows
<1>. HIDE DEF prog
<1>8. ChainOK(prog, Append(scopes, {}), frames[1].node)
  BY <1>2, <1>6, <1>7, ChainSeq
<1>9. StartsWithFunction(prog)
  <2>1. 1 \in DOMAIN syntax
    BY <1>2
  <2>. QED  BY <1>2, <1>7, <2>1 DEF StartsWithFunction, LexInv
<1>10. AssignExpLast(syntax', frames') /\ ~ At(frames, {"AssignExp"})
  BY <1>1, <1>4, <1>5 DEF AssignExpLast, At, StmtPoints
<1>. QED  BY <1>1, <1>5, <1>6, <1>8, <1>9, <1>10, StepKeeps DEF prog

(* A sequence ends.                                                        *)
LEMMA EndSeqLex == ASSUME IInv, LexInv, EndSeq PROVE LexInv'
<1>. DEFINE node == Mark("EndSeq")
            prog == Append(syntax, node)
            next == Front(frames)
<1>1. /\ frames # <<>> /\ syntax' = prog /\ Last(frames).pc = "Seq"
      /\ scopes' = SubSeq(scopes, 1, Last(frames).scope) /\ frames' = next /\ status' = status
  BY DEF EndSeq, At
<1>2. /\ syntax \in Seq(Nodes) /\ Len(syntax) \in Nat /\ frames \in Seq(Frames)
      /\ FramesShape(frames) /\ scopes \in Seq(Scopes) /\ syntax # <<>>
      /\ ChainOK(syntax, scopes, frames[1].node)
  BY <1>1, ActiveFunction
<1>3. /\ Len(frames) \in Nat \ {0} /\ Last(frames) = frames[Len(frames)]
      /\ Len(scopes) \in Nat /\ Last(frames).scope = Len(scopes) - 1
      /\ Len(scopes) = Depth(Last(frames))
  BY <1>1, ScopeOfFrame DEF Depth
<1>4. 2 <= Len(scopes)
  <2>1. Len(frames) # 1
    BY <1>1, <1>2, <1>3 DEF FramesShape
  <2>2. \A m \in Nat \ {0} : m # 1 => m \in 2 .. m
    OBVIOUS
  <2>3. Len(frames) \in 2 .. Len(frames)
    BY <1>3, <2>1, <2>2
  <2>. QED  BY <1>2, <1>3, <2>3 DEF FramesShape
<1>5. FramesShape(next) /\ ~ At(next, ExpPoints) /\ (next # <<>> => next[1] = frames[1])
  BY <1>1, <1>2, ShapeFront
<1>. HIDE DEF next
<1>6. node \in Nodes /\ node.n = "EndSeq"
  BY NodeTypes DEF Marks
<1>. HIDE DEF node
<1>7. /\ prog \in Seq(Nodes) /\ Len(prog) = Len(syntax) + 1 /\ prog[Len(prog)] = node
      /\ \A k \in DOMAIN syntax : prog[k] = syntax[k]
      /\ SameText(syntax, prog)
  BY <1>2, <1>6, TextGrows
<1>. HIDE DEF prog
<1>8. ChainOK(prog, scopes', frames[1].node)
  <2>1. ChainOK(prog, SubSeq(scopes, 1, Len(scopes) - 1), frames[1].node)
    BY <1>2, <1>4, <1>6, <1>7, ChainEndSeq
  <2>. QED  BY <1>1, <1>3, <2>1
<1>9. StartsWithFunction(prog)
  <2>1. 1 \in DOMAIN syntax
    BY <1>2
  <2>. QED  BY <1>2, <1>7, <2>1 DEF StartsWithFunction, LexInv
<1>10. AssignExpLast(syntax', frames') /\ ~ At(frames, {"AssignExp"})
  BY <1>1, <1>5 DEF AssignExpLast, At, ExpPoints
<1>. QED  BY <1>1, <1>5, <1>6, <1>8, <1>9, <1>10, StepKeeps DEF prog

(* The end of a statement or an expression, other than of an assignment.   *)
LEMMA EndLex ==
  ASSUME IInv, LexInv, frames # <<>>, NEW m \in Marks, m \notin {"Seq", "EndSeq"},
         syntax' = Append(syntax, Mark(m)), UNCHANGED <<scopes, status>>,
         Last(frames).pc # "AssignExp",
         \/ frames' = Front(frames)
         \/ /\ Last(frames).pc \notin {"FuncBody", "FuncEnd", "Seq"}
            /\ \E pc \in {"IfElse", "IfThen", "WhileBody"} : frames' = SetPc(frames, pc)
  PROVE  LexInv'
<1>. DEFINE node == Mark(m)
<1>1. frames \in Seq(Frames) /\ FramesShape(frames)
  BY ActiveFunction
<1>2. /\ node \in Nodes /\ node.n = m
      /\ node.n \notin {"Func", "Seq", "EndSeq", "Decl", "Var", "Assign"}
  BY NodeTypes DEF Marks
<1>. HIDE DEF node
<1>3. /\ FramesShape(frames') /\ (frames' # <<>> => frames'[1].node = frames[1].node)
      /\ ~ At(frames', {"AssignExp"})
  <2>1. CASE frames' = Front(frames)
    BY <1>1, <2>1, ShapeFront DEF At, ExpPoints
  <2>2. ASSUME NEW pc \in {"IfElse", "IfThen", "WhileBody"}, frames' = SetPc(frames, pc),
               Last(frames).pc \notin {"FuncBody", "FuncEnd", "Seq"}
        PROVE  /\ FramesShape(frames') /\ (frames' # <<>> => frames'[1].node = frames[1].node)
               /\ ~ At(frames', {"AssignExp"})
    <3>1. /\ pc \in ControlPoints /\ pc \notin {"FuncBody", "FuncEnd", "Seq", "AssignExp"}
          /\ Last(frames) = frames[Len(frames)]
      BY DEF ControlPoints, StmtPoints, Last
    <3>2. Len(frames) # 1
      BY <1>1, <2>2, <3>1 DEF FramesShape
    <3>. QED  BY <1>1, <2>2, <3>1, <3>2, ShapeSetPc DEF At
  <2>. QED  BY <2>1, <2>2
<1>4. ~ At(frames, {"AssignExp"}) /\ AssignExpLast(syntax', frames')
  BY <1>3 DEF At, AssignExpLast
<1>. QED  BY <1>2, <1>3, <1>4, NeutralKeeps DEF node

LEMMA EndStmtsLex ==
  ASSUME IInv, LexInv, VisitElse \/ EndIf \/ EndWhile
  PROVE  LexInv'
<1>1. "Else" \in Marks /\ "EndIf" \in Marks /\ "EndWhile" \in Marks
  BY DEF Marks
<1>2. CASE VisitElse
  <2>1. /\ frames # <<>> /\ Last(frames).pc = "ThenEnd" /\ frames' = SetPc(frames, "IfElse")
        /\ syntax' = Append(syntax, Mark("Else")) /\ UNCHANGED <<scopes, status>>
    BY <1>2 DEF VisitElse, At
  <2>. QED  BY <1>1, <2>1, EndLex
<1>3. ASSUME NEW pc \in EndPoints, NEW m \in {"EndIf", "EndWhile"}, EndStmt(pc, m)
      PROVE  LexInv'
  <2>1. /\ frames # <<>> /\ Last(frames).pc # "AssignExp" /\ frames' = Front(frames)
        /\ syntax' = Append(syntax, Mark(m)) /\ UNCHANGED <<scopes, status>>
    BY <1>3 DEF EndStmt, At, EndPoints
  <2>. QED  BY <1>1, <2>1, EndLex
<1>. QED  BY <1>2, <1>3 DEF EndIf, EndWhile, EndPoints

LEMMA EndExpsLex ==
  ASSUME IInv, LexInv, EndIfCond \/ EndWhileCond \/ EndCallStmt \/ EndReturn \/ EndDeclInit
  PROVE  LexInv'
<1>1. "EndExp" \in Marks
  BY DEF Marks
<1>2. ASSUME NEW fs, EndExp(fs)
      PROVE  /\ syntax' = Append(syntax, Mark("EndExp")) /\ frames' = fs
             /\ UNCHANGED <<scopes, status>>
  BY <1>2 DEF EndExp
<1>3. ASSUME NEW pc \in ExpPoints \ {"AssignExp"}, ExpDone(pc), EndExp(Front(frames))
      PROVE  LexInv'
  <2>1. frames # <<>> /\ Last(frames).pc = pc
    BY <1>3 DEF ExpDone, At
  <2>. QED  BY <1>1, <1>2, <1>3, <2>1, EndLex
<1>4. ASSUME NEW pc \in {"IfThen", "WhileBody"}, NEW old \in {"IfCond", "WhileCond"},
             ExpDone(old), EndExp(SetPc(frames, pc))
      PROVE  LexInv'
  <2>1. frames # <<>> /\ Last(frames).pc = old
    BY <1>4 DEF ExpDone, At
  <2>2. /\ syntax' = Append(syntax, Mark("EndExp")) /\ frames' = SetPc(frames, pc)
        /\ UNCHANGED <<scopes, status>>
    BY <1>2, <1>4
  <2>. QED  BY <1>1, <2>1, <2>2, EndLex
<1>5. CASE EndIfCond \/ EndWhileCond
  BY <1>4, <1>5 DEF EndIfCond, EndWhileCond
<1>6. CASE EndCallStmt \/ EndReturn \/ EndDeclInit
  BY <1>3, <1>6, TypeErrorLex DEF EndCallStmt, EndReturn, EndDeclInit, ExpPoints
<1>. QED  BY <1>5, <1>6

(* The assignment is linked to what the chain finds behind its expression, *)
(* which is what the text declares before it.                              *)
LEMMA EndAssignLex == ASSUME IInv, LexInv, EndAssign PROVE LexInv'
<1>. DEFINE k == Last(frames).node
            x == syntax[k].name
            d == Find(x)
            node == [syntax[k] EXCEPT !.decl = d]
            old == [syntax EXCEPT ![k] = node]
            prog == Append(old, Mark("EndExp"))
            L == Len(syntax)
<1>1. frames # <<>> /\ Last(frames).pc = "AssignExp" /\ At(frames, {"AssignExp"})
  BY DEF EndAssign, ExpDone, At
<1>2. /\ syntax \in Seq(Nodes) /\ L \in Nat /\ frames \in Seq(Frames) /\ TypeOK
      /\ FramesShape(frames) /\ scopes \in Seq(Scopes) /\ syntax # <<>>
      /\ syntax[1].n = "Func" /\ ChainOK(syntax, scopes, frames[1].node)
  BY <1>1, ActiveFunction DEF IInv
<1>3. /\ k \in DOMAIN syntax /\ syntax[k].n = "Assign" /\ k \in 1 .. L /\ k # 1
  <2>1. NodeAt(syntax, k, "Assign")
    BY <1>1, LastFrame DEF IInv, TypeOK, FramesOK
  <2>. QED  BY <1>2, <2>1 DEF NodeAt
<1>4. CASE TypeError
  BY <1>4, TypeErrorLex
<1>5. CASE ~ TypeError
  <2>1. Visible(x) /\ syntax' = prog /\ frames' = Front(frames) /\ UNCHANGED <<scopes, status>>
    BY <1>5 DEF EndAssign
  <2>2. {Find(x) : y \in {z \in {x} : Visible(z)}} = {d}
    BY <2>1
  <2>3. d \in VarDecls
    BY <1>2, <2>1, FindType
  <2>4. DeclsIn(syntax, x, L + 1) = {d}
    BY <1>2, <2>2, ChainFinds
  <2>5. DeclsIn(syntax, x, k) = {d}
    <3>1. \A m \in k + 1 .. L : syntax[m].n \in ExpNodes
      BY <1>1 DEF LexInv, AssignExpLast
    <3>. HIDE DEF x, k, L, d
    <3>2. \A m \in k .. (L + 1) - 1 : m = k \/ m \in k + 1 .. L
      BY <1>2, <1>3
    <3>3. \A m \in k .. (L + 1) - 1 : syntax[m].n \notin {"Func", "Decl", "Seq", "EndSeq"}
      BY <1>3, <3>1, <3>2 DEF ExpNodes
    <3>4. k \in Nat /\ L + 1 \in Nat /\ 2 <= k /\ k <= L + 1
      BY <1>2, <1>3
    <3>. QED  BY <1>2, <2>4, <3>3, <3>4, DeclsThrough
  <2>6. node \in Nodes /\ node.n = "Assign" /\ node.name = x /\ node.decl = d
    <3>1. syntax[k] \in Nodes
      BY <1>2, <1>3
    <3>. HIDE DEF d, k
    <3>2. node \in Nodes
      BY <1>3, <2>3, <3>1, NodeFields
    <3>3. syntax[k] \in [n : {"Assign"}, name : VarNames, decl : VarDecls \cup {Null}]
      BY <1>3, <3>1 DEF Nodes, Marks
    <3>. QED  BY <3>2, <3>3
  <2>. HIDE DEF node, d
  <2>7. /\ old \in Seq(Nodes) /\ DOMAIN old = DOMAIN syntax /\ Len(old) = L
        /\ old[k] = node /\ \A i \in DOMAIN syntax : i # k => old[i] = syntax[i]
    BY <1>2, <1>3, <2>6
  <2>. HIDE DEF old, k, x, L
  <2>8. Mark("EndExp") \in Nodes /\ Mark("EndExp").n = "EndExp"
    BY NodeTypes DEF Marks
  <2>9. /\ prog \in Seq(Nodes) /\ Len(prog) = L + 1 /\ prog[L + 1].n = "EndExp"
        /\ prog[k] = node /\ \A i \in DOMAIN syntax : i # k => prog[i] = syntax[i]
        /\ DOMAIN prog = DOMAIN syntax \cup {L + 1}
    BY <1>3, <2>7, <2>8, TextGrows
  <2>. HIDE DEF prog
  <2>10. SameText(syntax, prog)
    BY <1>3, <2>6, <2>9 DEF SameText, x
  <2>11. ChainOK(prog, scopes, frames[1].node)
    BY <1>2, <2>9, <2>10, ChainNeutral DEF L
  <2>12. StartsWithFunction(prog)
    <3>1. 1 \in DOMAIN syntax
      BY <1>2
    <3>. QED  BY <1>2, <1>3, <2>9, <3>1 DEF StartsWithFunction
  <2>13. /\ FramesShape(frames') /\ ~ At(frames', {"AssignExp"})
         /\ frames' # <<>> => frames'[1] = frames[1]
    BY <1>1, <1>2, <2>1, ShapeFront DEF At, ExpPoints
  <2>14. Linked(prog, k)
    <3>1. DeclsIn(prog, x, k) = DeclsIn(syntax, x, k)
      <4>1. k \in 2 .. Len(syntax) + 1
        BY <1>2, <1>3 DEF L
      <4>. QED  BY <1>2, <2>10, <4>1, DeclsKept
    <3>. QED  BY <2>5, <2>6, <2>9, <3>1 DEF Linked
  <2>15. ASSUME status # "error" PROVE LinkedBut(prog, frames')
    <3>. SUFFICES ASSUME NEW i \in DOMAIN prog, prog[i].n \in {"Var", "Assign"}, i # k
                  PROVE  Linked(prog, i)
      BY <2>14 DEF LinkedBut
    <3>1. i \in DOMAIN syntax /\ prog[i] = syntax[i]
      BY <2>9
    <3>2. Linked(syntax, i)
      <4>1. Linked(syntax, i) \/ Pending(frames, i)
        BY <2>15, <3>1 DEF LexInv, LinkedBut
      <4>. QED  BY <4>1 DEF Pending, k
    <3>. QED  BY <1>2, <2>10, <3>1, <3>2, LinkedKept DEF LexInv
  <2>16. AssignExpLast(prog, frames')
    BY <2>13 DEF AssignExpLast
  <2>. QED  BY <2>1, <2>11, <2>12, <2>13, <2>15, <2>16 DEF LexInv
<1>. QED  BY <1>4, <1>5

(* The end of a function leaves no chain.                                  *)
LEMMA EndFunctionLex == ASSUME IInv, LexInv, EndFunction PROVE LexInv'
<1>. DEFINE node == Mark("EndFunc")
            prog == Append(syntax, node)
<1>1. /\ frames # <<>> /\ Last(frames).pc = "FuncEnd" /\ syntax' = prog /\ frames' = <<>>
      /\ status' = status
  BY DEF EndFunction, At
<1>2. syntax \in Seq(Nodes) /\ syntax # <<>> /\ syntax[1].n = "Func" /\ 1 \in DOMAIN syntax
  BY <1>1, ActiveFunction
<1>3. node \in Nodes /\ node.n = "EndFunc"
  BY NodeTypes DEF Marks
<1>. HIDE DEF node
<1>4. StartsWithFunction(prog)
  BY <1>2, <1>3, TextGrows DEF StartsWithFunction
<1>5. FramesShape(frames') /\ AssignExpLast(syntax', frames') /\ ~ At(frames, {"AssignExp"})
  BY <1>1 DEF FramesShape, AssignExpLast, At
<1>. QED  BY <1>1, <1>3, <1>4, <1>5, StepKeeps

(* Constants, calls, and references to variables: these are linked to what *)
(* the chain finds.                                                        *)
LEMMA VisitExpLex ==
  ASSUME IInv, LexInv,
         \/ \E t \in Types : VisitConst(t)
         \/ \E x \in VarNames : VisitVarExp(x)
         \/ \E name \in FuncNames, n \in Nat : VisitCallExp(name, n)
  PROVE  LexInv'
<1>1. CASE TypeError
  BY <1>1, TypeErrorLex
<1>2. CASE frames = <<>>
  BY <1>2 DEF VisitConst, VisitVarExp, VisitCallExp, At
<1>3. ASSUME frames # <<>>, NEW node \in Nodes, node.n \in {"Const", "Var", "Call"},
             syntax' = Append(syntax, node), UNCHANGED <<scopes, frames, status>>,
             node.n = "Var" => Linked(syntax', Len(syntax) + 1)
      PROVE  LexInv'
  <2>1. syntax \in Seq(Nodes) /\ Len(syntax) \in Nat /\ FramesShape(frames) /\ frames \in Seq(Frames)
    BY <1>3, ActiveFunction
  <2>2. /\ Len(syntax') = Len(syntax) + 1 /\ syntax'[Len(syntax) + 1] = node
        /\ \A k \in DOMAIN syntax : syntax'[k] = syntax[k]
    BY <1>3, <2>1, TextGrows
  <2>3. AssignExpLast(syntax', frames')
    <3>. SUFFICES ASSUME At(frames, {"AssignExp"}), NEW m \in Last(frames).node + 1 .. Len(syntax) + 1
                  PROVE  syntax'[m].n \in ExpNodes
      BY <1>3, <2>2 DEF AssignExpLast
    <3>1. Last(frames).node \in Nat
      BY <1>3, <2>1, LastFrame DEF Frames
    <3>2. CASE m = Len(syntax) + 1
      BY <1>3, <2>2, <3>2 DEF ExpNodes
    <3>3. CASE m # Len(syntax) + 1
      <4>1. m \in Last(frames).node + 1 .. Len(syntax) /\ m \in DOMAIN syntax
        BY <2>1, <3>1, <3>3
      <4>. QED  BY <2>2, <4>1 DEF LexInv, AssignExpLast
    <3>. QED  BY <3>2, <3>3
  <2>. QED  BY <1>3, <2>1, <2>3, NeutralKeeps
<1>4. ASSUME NEW t \in Types, VisitConst(t), frames # <<>> PROVE LexInv'
  <2>. DEFINE node == [n |-> "Const", type |-> t]
  <2>1. /\ node \in Nodes /\ node.n = "Const" /\ syntax' = Append(syntax, node)
        /\ UNCHANGED <<scopes, frames, status>>
    BY <1>4, NodeTypes DEF VisitConst
  <2>. HIDE DEF node
  <2>. QED  BY <1>3, <1>4, <2>1
<1>5. ASSUME NEW x \in VarNames, VisitVarExp(x), frames # <<>>, ~ TypeError PROVE LexInv'
  <2>. DEFINE d == Find(x)
              node == [n |-> "Var", name |-> x, decl |-> d]
              prog == Append(syntax, node)
  <2>1. Visible(x) /\ syntax' = prog /\ UNCHANGED <<scopes, frames, status>>
    BY <1>5 DEF VisitVarExp
  <2>2. /\ syntax \in Seq(Nodes) /\ Len(syntax) \in Nat /\ syntax # <<>> /\ TypeOK
        /\ syntax[1].n = "Func" /\ ChainOK(syntax, scopes, frames[1].node)
    BY <1>5, ActiveFunction DEF IInv
  <2>3. {Find(x) : y \in {z \in {x} : Visible(z)}} = {d}
    BY <2>1
  <2>4. DeclsIn(syntax, x, Len(syntax) + 1) = {d}
    BY <2>2, <2>3, ChainFinds
  <2>5. node \in Nodes /\ node.n = "Var" /\ node.name = x /\ node.decl = d
    BY <2>1, <2>2, FindType, NodeTypes
  <2>. HIDE DEF node, d
  <2>6. SameText(syntax, prog) /\ prog[Len(syntax) + 1] = node
    BY <2>2, <2>5, TextGrows
  <2>. HIDE DEF prog
  <2>7. DeclsIn(prog, x, Len(syntax) + 1) = DeclsIn(syntax, x, Len(syntax) + 1)
    <3>1. Len(syntax) + 1 \in 2 .. Len(syntax) + 1
      BY <2>2
    <3>. QED  BY <2>2, <2>6, <3>1, DeclsKept
  <2>8. Linked(prog, Len(syntax) + 1)
    BY <2>4, <2>5, <2>6, <2>7 DEF Linked
  <2>. QED  BY <1>3, <1>5, <2>1, <2>5, <2>8 DEF prog
<1>6. ASSUME NEW name \in FuncNames, NEW n \in Nat, VisitCallExp(name, n), frames # <<>>,
             ~ TypeError
      PROVE  LexInv'
  <2>1. PICK node : /\ node.n = "Call" /\ syntax' = Append(syntax, node)
                    /\ UNCHANGED <<scopes, frames, status>>
    BY <1>6 DEF VisitCallExp
  <2>2. syntax \in Seq(Nodes) /\ IInv' /\ Len(syntax) \in Nat
    BY <1>6, VisitCallExpKeeps DEF IInv, TypeOK
  <2>3. node \in Nodes
    <3>1. syntax' \in Seq(Nodes) /\ syntax'[Len(syntax) + 1] = node /\ Len(syntax') = Len(syntax) + 1
      BY <2>1, <2>2 DEF IInv, TypeOK
    <3>2. Len(syntax) + 1 \in 1 .. Len(syntax')
      BY <2>2, <3>1
    <3>. QED  BY <3>1, <3>2
  <2>. QED  BY <1>3, <1>6, <2>1, <2>3
<1>. QED  BY <1>1, <1>2, <1>4, <1>5, <1>6

(* A function definition.                                                  *)
LEMMA CheckFunctionLex ==
  ASSUME IInv, LexInv, NEW def \in FuncDefs, CheckFunction(def)
  PROVE  LexInv'
<1>. DEFINE node == [n |-> "Func", def |-> def]
            k == Len(syntax) + 1
            prog == Append(syntax, node)
            params == ParamDecls(k, def)
            fr == [pc |-> "FuncBody", node |-> k, scope |-> 1]
<1>1. syntax \in Seq(Nodes) /\ Len(syntax) \in Nat /\ frames = <<>> /\ ~ At(frames, {"AssignExp"})
  BY DEF IInv, TypeOK, CheckFunction, At
<1>2. CASE TypeError
  BY <1>2, TypeErrorLex
<1>3. CASE ~ TypeError
  <2>1. /\ ~ SameNameParams(def) /\ syntax' = prog /\ status' = status
        /\ \/ scopes' = <<params>> /\ frames' = <<fr>>
           \/ frames' = <<>>
    BY <1>1, <1>3 DEF CheckFunction
  <2>2. node \in Nodes /\ node.n = "Func" /\ node.def = def
    BY NodeTypes
  <2>. HIDE DEF node
  <2>3. /\ prog \in Seq(Nodes) /\ Len(prog) = k /\ prog[k] = node
        /\ \A i \in DOMAIN syntax : prog[i] = syntax[i]
    BY <1>1, <2>2, TextGrows
  <2>. HIDE DEF prog
  <2>4. StartsWithFunction(prog)
    <3>1. CASE syntax = <<>>
      <4>1. k = 1
        BY <3>1
      <4>. QED  BY <2>2, <2>3, <4>1 DEF StartsWithFunction
    <3>2. CASE syntax # <<>>
      <4>1. 1 \in DOMAIN syntax
        BY <1>1, <3>2
      <4>. QED  BY <2>3, <3>2, <4>1 DEF StartsWithFunction, LexInv
    <3>. QED  BY <3>1, <3>2
  <2>5. FramesShape(frames') /\ AssignExpLast(syntax', frames')
    <3>1. CASE frames' = <<>>
      BY <3>1 DEF FramesShape, AssignExpLast, At
    <3>2. CASE frames' = <<fr>>
      <4>1. /\ fr.pc = "FuncBody" /\ Len(<<fr>>) = 1 /\ <<fr>>[1] = fr
            /\ (\A i \in 2 .. 1 : FALSE) /\ \A i \in 1 .. 1 - 1 : FALSE
        OBVIOUS
      <4>. HIDE DEF fr
      <4>. QED  BY <3>2, <4>1 DEF FramesShape, AssignExpLast, At, Last
    <3>. QED  BY <2>1, <3>1, <3>2
  <2>6. frames' # <<>> => ChainOK(syntax', scopes', frames'[1].node)
    <3>. SUFFICES ASSUME scopes' = <<params>>, frames' = <<fr>>
                  PROVE  ChainOK(prog, <<params>>, k)
      BY <2>1
    <3>1. k = Len(prog) /\ 1 <= k
      BY <1>1, <2>3
    <3>. HIDE DEF k
    <3>2. ChainOK(prog, <<ParamDecls(k, prog[k].def)>>, k)
      BY <2>1, <2>2, <2>3, <3>1, ChainFunction
    <3>. QED  BY <2>2, <2>3, <3>2
  <2>. QED  BY <1>1, <2>1, <2>2, <2>4, <2>5, <2>6, StepKeeps DEF prog
<1>. QED  BY <1>2, <1>3

-----------------------------------------------------------------------------
(* The invariant holds at the start, and every step keeps it.              *)
LEMMA InitLex == ASSUME Init PROVE LexInv
  BY DEF Init, LexInv, StartsWithFunction, FramesShape, AssignExpLast, LinkedBut, At

LEMMA NextLex ==
  ASSUME IInv, LexInv, AnyNext
  PROVE  LexInv'
<1>1. CASE \E def \in FuncDefs : CheckFunction(def)
  BY <1>1, CheckFunctionLex
<1>2. CASE VisitStmt
  <2>1. ASSUME VisitCallStmt \/ VisitReturn \/ VisitWhile PROVE LexInv'
    BY <2>1, NodeTypes, VisitExpOfLex
    DEF VisitCallStmt, VisitReturn, VisitWhile, Marks, ExpPoints
  <2>2. ASSUME NEW x \in VarNames, VisitAssign(x) PROVE LexInv'
    BY <2>2, NodeTypes, VisitExpOfLex DEF VisitAssign, ExpPoints
  <2>3. ASSUME NEW else \in BOOLEAN, VisitIf(else) PROVE LexInv'
    BY <2>3, NodeTypes, VisitExpOfLex DEF VisitIf, ExpPoints
  <2>. QED  BY <1>2, <2>1, <2>2, <2>3, VisitSeqLex, VisitDeclLex DEF VisitStmt
<1>3. CASE EndVisit
  BY <1>3, EndSeqLex, EndStmtsLex, EndFunctionLex, EndExpsLex, EndAssignLex DEF EndVisit
<1>4. CASE Finish \/ UNCHANGED vars
  <2>1. UNCHANGED <<syntax, scopes, frames>> /\ (status' = status \/ status = "running")
    BY <1>4 DEF Finish, vars
  <2>. QED  BY <2>1 DEF LexInv
<1>. QED  BY <1>1, <1>2, <1>3, <1>4, VisitExpLex, TypeErrorLex DEF AnyNext

(* When Typecheck has succeeded, no Visit function is active.              *)
OkAtEnd == status = "ok" => frames = <<>>

LEMMA OkIsLast ==
  ASSUME OkAtEnd, AnyNext
  PROVE  OkAtEnd'
<1>1. TypeError => status' # "ok"
  BY DEF TypeError
<1>2. \A points : At(frames, points) => status # "ok"
  BY DEF At, OkAtEnd
<1>3. \A fs : EndExp(fs) => status' = status
  BY DEF EndExp
<1>4. ASSUME NEW def, CheckFunction(def) PROVE OkAtEnd'
  BY <1>1, <1>4 DEF CheckFunction, OkAtEnd
<1>5. CASE VisitStmt
  <2>1. ASSUME NEW kind, NEW node, NEW pc, VisitExpOf(kind, node, pc) PROVE status' # "ok"
    BY <1>2, <2>1 DEF VisitExpOf, MayVisit
  <2>2. ASSUME NEW x, NEW t, NEW init, VisitDecl(x, t, init) PROVE status' # "ok"
    BY <1>1, <1>2, <2>2 DEF VisitDecl, MayVisit
  <2>3. VisitSeq => status' # "ok"
    BY <1>2 DEF VisitSeq, MayVisit
  <2>. QED  BY <1>5, <2>1, <2>2, <2>3
            DEF VisitStmt, VisitCallStmt, VisitReturn, VisitWhile, VisitAssign, VisitIf, OkAtEnd
<1>6. ASSUME NEW x, NEW n, VisitConst(x) \/ VisitVarExp(x) \/ VisitCallExp(x, n) PROVE OkAtEnd'
  BY <1>1, <1>2, <1>6 DEF VisitConst, VisitVarExp, VisitCallExp, OkAtEnd
<1>7. CASE EndVisit
  <2>1. EndSeq \/ VisitElse \/ EndIf \/ EndWhile \/ EndFunction => status' # "ok"
    BY <1>2 DEF EndSeq, VisitElse, EndIf, EndWhile, EndStmt, EndFunction
  <2>2. \A pc : ExpDone(pc) => status # "ok"
    BY <1>2 DEF ExpDone
  <2>3. EndIfCond \/ EndWhileCond \/ EndCallStmt \/ EndReturn \/ EndDeclInit => status' # "ok"
    BY <1>1, <1>3, <2>2 DEF EndIfCond, EndWhileCond, EndCallStmt, EndReturn, EndDeclInit
  <2>4. EndAssign => status' # "ok"
    BY <1>1, <2>2 DEF EndAssign
  <2>. QED  BY <1>7, <2>1, <2>3, <2>4 DEF EndVisit, OkAtEnd
<1>8. CASE Finish \/ UNCHANGED vars
  BY <1>8 DEF Finish, vars, OkAtEnd
<1>. QED  BY <1>1, <1>4, <1>5, <1>6, <1>7, <1>8 DEF AnyNext, OkAtEnd

(* Whatever has been entered, shadowed and left, the chain of scopes finds *)
(* the innermost enclosing declaration of every name, and nothing when the *)
(* text declares nothing (Scope.h:21-30, Typechecker.cpp:217-232).         *)
THEOREM ChainLexical == Spec => []ScopeChainIsLexical
<1>1. ASSUME IInv, LexInv PROVE ScopeChainIsLexical
  BY <1>1, ChainFinds, DeclsOfSyntax DEF IInv, LexInv, ScopeChainIsLexical
<1>. QED  BY <1>1, InitInv, NextIsAny, Inductive, InitLex, NextLex, PTL DEF Spec

LEMMA LinksWhenDone == ASSUME LexInv, OkAtEnd PROVE LinksAreLexical
<1>. SUFFICES ASSUME status = "ok", NEW i \in DOMAIN syntax, syntax[i].n \in {"Var", "Assign"}
              PROVE  DeclsAt(syntax[i].name, i) = {syntax[i].decl}
  BY DEF LinksAreLexical
<1>1. ~ Pending(frames, i)
  BY DEF Pending, At, OkAtEnd
<1>2. Linked(syntax, i)
  BY <1>1 DEF LexInv, LinkedBut
<1>. QED  BY <1>2, DeclsOfSyntax DEF Linked

LEMMA InitOk == ASSUME Init PROVE OkAtEnd
  BY DEF Init, OkAtEnd

(* A program that typechecks is linked as its text says, references and    *)
(* assignments alike (Typechecker.cpp:74-76, 183-184).                     *)
THEOREM LinksLexical == Spec => []LinksAreLexical
  BY LinksWhenDone, InitInv, NextIsAny, Inductive, InitLex, NextLex, InitOk, OkIsLast, PTL DEF Spec

-----------------------------------------------------------------------------
(* What is handed on to the code generator                                 *)

\* Assignments that have been linked are to local variables.
AssignsLocal(prog) ==
  \A i \in DOMAIN prog :
    prog[i].n = "Assign" /\ prog[i].decl # Null => prog[i].decl.kind = "kLocal"

(* A node more: an assignment is not linked yet.                           *)
LEMMA AssignsGrow ==
  ASSUME syntax \in Seq(Nodes), AssignsLocal(syntax),
         NEW node, syntax' = Append(syntax, node), node.n = "Assign" => node.decl = Null
  PROVE  AssignsLocal(syntax')
<1>1. /\ Len(syntax) \in Nat /\ DOMAIN syntax' = 1 .. Len(syntax) + 1 /\ DOMAIN syntax = 1 .. Len(syntax)
      /\ syntax'[Len(syntax) + 1] = node /\ \A i \in 1 .. Len(syntax) : syntax'[i] = syntax[i]
  OBVIOUS
<1>2. \A i \in 1 .. Len(syntax) + 1 : i = Len(syntax) + 1 \/ i \in 1 .. Len(syntax)
  BY <1>1
<1>. QED  BY <1>1, <1>2 DEF AssignsLocal

(* Assignments are linked to the local variable that has been checked.     *)
LEMMA AssignsLinked ==
  ASSUME IInv, AssignsLocal(syntax), EndAssign
  PROVE  AssignsLocal(syntax')
<1>. DEFINE k == Last(frames).node
            d == Find(syntax[k].name)
            old == [syntax EXCEPT ![k].decl = d]
<1>1. CASE TypeError
  BY <1>1 DEF TypeError
<1>2. CASE ~ TypeError
  <2>1. syntax' = Append(old, Mark("EndExp")) /\ d.kind = "kLocal"
    BY <1>2 DEF EndAssign
  <2>2. /\ syntax \in Seq(Nodes) /\ k \in DOMAIN syntax /\ syntax[k].n = "Assign"
        /\ Visible(syntax[k].name) /\ scopes \in Seq(Scopes)
    <3>1. NodeAt(syntax, k, "Assign")
      <4>1. frames # <<>> /\ Last(frames).pc = "AssignExp"
        BY DEF EndAssign, ExpDone, At
      <4>. QED  BY <4>1, LastFrame DEF IInv, TypeOK, FramesOK
    <3>. QED  BY <1>2, <3>1 DEF EndAssign, IInv, TypeOK, NodeAt
  <2>3. syntax[k] \in [n : {"Assign"}, name : VarNames, decl : VarDecls \cup {Null}]
    BY <2>2 DEF Nodes, Marks
  <2>. HIDE DEF d, k
  <2>4. /\ Len(old) = Len(syntax) /\ DOMAIN old = DOMAIN syntax /\ old[k].decl = d
        /\ \A i \in DOMAIN syntax : i # k => old[i] = syntax[i]
        /\ Len(syntax) \in Nat /\ DOMAIN syntax = 1 .. Len(syntax)
    BY <2>2, <2>3
  <2>5. \A i \in DOMAIN syntax :
          old[i].n = "Assign" /\ old[i].decl # Null => old[i].decl.kind = "kLocal"
    BY <2>1, <2>4 DEF AssignsLocal
  <2>6. old \in Seq(Nodes)
    <3>1. d \in VarDecls
      BY <2>2, FindType, <1>2 DEF d, IInv, TypeOK
    <3>2. [syntax[k] EXCEPT !.decl = d] \in Nodes
      BY <2>2, <3>1, NodeFields
    <3>3. old = [syntax EXCEPT ![k] = [syntax[k] EXCEPT !.decl = d]]
      OBVIOUS
    <3>. QED  BY <2>2, <3>2, <3>3
  <2>. HIDE DEF old
  <2>7. /\ DOMAIN syntax' = 1 .. Len(syntax) + 1 /\ syntax'[Len(syntax) + 1] = Mark("EndExp")
        /\ \A i \in 1 .. Len(syntax) : syntax'[i] = old[i]
    BY <2>1, <2>4, <2>6
  <2>8. \A i \in 1 .. Len(syntax) + 1 : i = Len(syntax) + 1 \/ i \in 1 .. Len(syntax)
    BY <2>4
  <2>9. Mark("EndExp").n = "EndExp"
    BY DEF Mark
  <2>. QED  BY <2>4, <2>5, <2>7, <2>8, <2>9 DEF AssignsLocal
<1>. QED  BY <1>1, <1>2

LEMMA AssignsNext ==
  ASSUME IInv, AssignsLocal(syntax), AnyNext
  PROVE  AssignsLocal(syntax')
<1>1. syntax \in Seq(Nodes)
  BY DEF IInv, TypeOK
<1>2. TypeError \/ syntax' = syntax => AssignsLocal(syntax')
  BY DEF TypeError
<1>3. ASSUME NEW m, syntax' = Append(syntax, Mark(m)), m # "Assign" PROVE AssignsLocal(syntax')
  <2>1. Mark(m).n # "Assign"
    BY <1>3 DEF Mark
  <2>. QED  BY <1>1, <1>3, <2>1, AssignsGrow
<1>4. ASSUME NEW def, CheckFunction(def) PROVE AssignsLocal(syntax')
  <2>2. TypeError \/ syntax' = Append(syntax, [n |-> "Func", def |-> def])
    BY <1>4 DEF CheckFunction
  <2>3. [n |-> "Func", def |-> def].n # "Assign"
    OBVIOUS
  <2>. QED  BY <1>1, <1>2, <2>2, <2>3, AssignsGrow
<1>5. CASE VisitStmt
  <2>1. VisitCallStmt \/ VisitReturn \/ VisitWhile \/ VisitSeq => AssignsLocal(syntax')
    BY <1>3 DEF VisitCallStmt, VisitReturn, VisitWhile, VisitSeq, VisitExpOf
  <2>2. ASSUME NEW x, VisitAssign(x) PROVE AssignsLocal(syntax')
    <3>1. [n |-> "Assign", name |-> x, decl |-> Null].decl = Null
      OBVIOUS
    <3>. QED  BY <1>1, <2>2, <3>1, AssignsGrow DEF VisitAssign, VisitExpOf
  <2>3. ASSUME NEW x, NEW t, NEW init, VisitDecl(x, t, init) PROVE AssignsLocal(syntax')
    <3>1. [n |-> "Decl", name |-> x, type |-> t, init |-> init].n # "Assign"
      OBVIOUS
    <3>. QED  BY <1>1, <1>2, <2>3, <3>1, AssignsGrow DEF VisitDecl
  <2>4. ASSUME NEW else, VisitIf(else) PROVE AssignsLocal(syntax')
    <3>1. [n |-> "If", else |-> else].n # "Assign"
      OBVIOUS
    <3>. QED  BY <1>1, <2>4, <3>1, AssignsGrow DEF VisitIf, VisitExpOf
  <2>. QED  BY <1>5, <2>1, <2>2, <2>3, <2>4 DEF VisitStmt
<1>6. ASSUME NEW x, NEW n, VisitConst(x) \/ VisitVarExp(x) \/ VisitCallExp(x, n)
      PROVE  AssignsLocal(syntax')
  <2>1. ASSUME NEW node, TypeError \/ syntax' = Append(syntax, node), node.n # "Assign"
        PROVE  AssignsLocal(syntax')
    BY <1>1, <1>2, <2>1, AssignsGrow
  <2>2. CASE VisitConst(x)
    BY <2>1, <2>2 DEF VisitConst
  <2>3. CASE VisitVarExp(x)
    BY <2>1, <2>3 DEF VisitVarExp
  <2>4. CASE VisitCallExp(x, n)
    <3>. DEFINE f == funcTable[FindFunc(x, SubSeq(types, (Len(types) - n) + 1, Len(types)))]
                node == [n |-> "Call", name |-> x, args |-> n, type |-> syntax[f].def.ret, def |-> f]
    <3>1. TypeError \/ syntax' = Append(syntax, node)
      BY <2>4 DEF VisitCallExp
    <3>2. node.n # "Assign"
      OBVIOUS
    <3>. QED  BY <2>1, <3>1, <3>2
  <2>. QED  BY <1>6, <2>2, <2>3, <2>4
<1>7. CASE EndVisit
  <2>1. EndSeq \/ VisitElse \/ EndIf \/ EndWhile \/ EndFunction => AssignsLocal(syntax')
    BY <1>3 DEF EndSeq, VisitElse, EndIf, EndWhile, EndStmt, EndFunction
  <2>2. \A fs : EndExp(fs) => AssignsLocal(syntax')
    BY <1>3 DEF EndExp
  <2>3. EndIfCond \/ EndWhileCond \/ EndCallStmt \/ EndReturn \/ EndDeclInit => AssignsLocal(syntax')
    BY <1>2, <2>2 DEF EndIfCond, EndWhileCond, EndCallStmt, EndReturn, EndDeclInit
  <2>. QED  BY <1>7, <2>1, <2>3, AssignsLinked DEF EndVisit
<1>8. CASE Finish \/ UNCHANGED vars
  BY <1>2, <1>8 DEF Finish, vars
<1>. QED  BY <1>2, <1>4, <1>5, <1>6, <1>7, <1>8 DEF AnyNext

(* A declaration that the text makes is made before, in the same function. *)
LEMMA DeclsAreBefore ==
  ASSUME NEW prog \in Seq(Nodes), NEW i \in 2 .. Len(prog), prog[1].n = "Func",
         NEW x, NEW d \in DeclsIn(prog, x, i)
  PROVE  DeclaredBefore(prog, d, i)
<1>. DEFINE f == FunctionIn(prog, i)
            locals == LocalsIn(prog, x, i)
<1>1. i \in Nat /\ i - 1 \in Nat /\ 2 <= i
  OBVIOUS
<1>2. f \in 1 .. i - 1 /\ InFunction(prog, f, i)
  BY <1>1, FunctionBefore DEF InFunction
<1>3. CASE locals # {}
  <2>1. locals \in SUBSET (1 .. i - 1)
    BY <1>2 DEF LocalsIn
  <2>2. Max(locals) \in locals
    <3>. HIDE DEF locals
    <3>. QED  BY <1>1, <1>3, <2>1, MaxOfPositions
  <2>3. d = LocalDecl(Max(locals), x, prog[Max(locals)].type)
    BY <1>3 DEF DeclsIn
  <2>. DEFINE j == Max(locals)
  <2>4. j \in f .. i - 1 /\ prog[j].n = "Decl" /\ prog[j].name = x
    BY <2>2 DEF LocalsIn
  <2>. HIDE DEF j, f
  <2>5. j \in f + 1 .. i - 1
    BY <1>2, <2>4 DEF InFunction
  <2>6. d = LocalDecl(j, prog[j].name, prog[j].type)
    BY <2>3, <2>4 DEF j
  <2>. QED  BY <1>2, <2>4, <2>5, <2>6 DEF DeclaredBefore
<1>4. CASE locals = {}
  <2>1. d \in ParamDecls(f, prog[f].def)
    BY <1>4 DEF DeclsIn
  <2>. HIDE DEF f
  <2>. QED  BY <1>2, <2>1 DEF DeclaredBefore
<1>. QED  BY <1>3, <1>4

(* What the invariants say when Typecheck has succeeded.                    *)
LEMMA LinksSufficeWhenDone ==
  ASSUME IInv, LexInv, OkAtEnd, AssignsLocal(syntax)
  PROVE  LinksSuffice
<1>. SUFFICES ASSUME status = "ok", NEW i \in DOMAIN syntax
              PROVE  /\ syntax[i].n \in {"Var", "Assign"} => DeclaredBefore(syntax, syntax[i].decl, i)
                     /\ syntax[i].n = "Assign" => syntax[i].decl.kind = "kLocal"
                     /\ syntax[i].n = "Call" => /\ syntax[i].def \in 1 .. i - 1
                                                /\ syntax[syntax[i].def].n = "Func"
  BY DEF LinksSuffice, WellLinked
<1>1. /\ syntax \in Seq(Nodes) /\ Len(syntax) \in Nat /\ i \in 1 .. Len(syntax)
      /\ syntax # <<>> /\ syntax[1].n = "Func"
  BY DEF IInv, TypeOK, LexInv, StartsWithFunction
<1>2. ASSUME syntax[i].n \in {"Var", "Assign"} PROVE DeclaredBefore(syntax, syntax[i].decl, i)
  <2>1. i \in 2 .. Len(syntax)
    BY <1>1, <1>2
  <2>2. syntax[i].decl \in DeclsIn(syntax, syntax[i].name, i)
    BY <1>2, LinksWhenDone, DeclsOfSyntax DEF LinksAreLexical
  <2>. QED  BY <1>1, <2>1, <2>2, DeclsAreBefore
<1>3. ASSUME syntax[i].n = "Assign" PROVE syntax[i].decl.kind = "kLocal"
  <2>1. syntax[i].decl # Null
    <3>1. PICK f \in 1 .. i - 1 :
            /\ syntax[f].n = "Func"
            /\ \/ syntax[i].decl \in ParamDecls(f, syntax[f].def)
               \/ \E j \in f + 1 .. i - 1 :
                    /\ syntax[j].n = "Decl"
                    /\ syntax[i].decl = LocalDecl(j, syntax[j].name, syntax[j].type)
      BY <1>2, <1>3 DEF DeclaredBefore, InFunction
    <3>2. f \in Nat /\ syntax[f] \in Nodes
      BY <1>1, <3>1
    <3>3. ParamDecls(f, syntax[f].def) \subseteq VarDecls
      BY <3>1, <3>2, NodeFields, DeclTypes DEF Scopes
    <3>4. ASSUME NEW j \in f + 1 .. i - 1, syntax[j].n = "Decl"
          PROVE  LocalDecl(j, syntax[j].name, syntax[j].type) \in VarDecls
      <4>1. j \in Nat /\ syntax[j] \in Nodes
        BY <1>1, <3>1
      <4>2. syntax[j].name \in VarNames /\ syntax[j].type \in Types
        BY <3>4, <4>1 DEF Nodes, Marks
      <4>. QED  BY <4>1, <4>2, DeclTypes
    <3>. QED  BY <3>1, <3>3, <3>4, NullAssumption DEF NullNotADecl
  <2>. QED  BY <1>3, <2>1 DEF AssignsLocal
<1>4. ASSUME syntax[i].n = "Call"
      PROVE  syntax[i].def \in 1 .. i - 1 /\ syntax[syntax[i].def].n = "Func"
  <2>1. LinkOK(syntax, i)
    BY <1>4 DEF IInv, LinksOK
  <2>. QED  BY <1>1, <2>1 DEF LinkOK, NodeAt
<1>. QED  BY <1>2, <1>3, <1>4

LEMMA InitAssigns == ASSUME Init PROVE AssignsLocal(syntax)
  BY DEF Init, AssignsLocal

LEMMA AssignsStay == ASSUME IInv, AssignsLocal(syntax), AnyNext PROVE AssignsLocal(syntax)'
  BY AssignsNext

(* All of it holds again when Typecheck starts afresh after a success.     *)
LEMMA AfreshInv ==
  ASSUME IInv, OkAtEnd, status = "ok",
         syntax' = <<>>, funcTable' = <<>>, status' = "running", UNCHANGED <<scopes, frames, types>>
  PROVE  IInv' /\ LexInv' /\ OkAtEnd' /\ AssignsLocal(syntax)'
<1>1. frames' = <<>> /\ syntax' \in Seq(Nodes) /\ funcTable' \in Seq(Nat) /\ frames' \in Seq(Frames)
  BY DEF OkAtEnd
<1>2. IInv'
  BY <1>1 DEF IInv, TypeOK, FramesOK, TableOK, LinksOK
<1>3. LexInv'
  BY <1>1 DEF LexInv, StartsWithFunction, FramesShape, AssignExpLast, LinkedBut, At
<1>. QED  BY <1>1, <1>2, <1>3 DEF OkAtEnd, AssignsLocal

(* A program that typechecks has the links that the code generator needs:  *)
(* to declarations before it in the same function, to locals from          *)
(* assignments, and to earlier definitions (Typechecker.cpp:68-76,         *)
(* 111-121, 164-184).                                                      *)
THEOREM LinksHandedOn == Spec => []LinksSuffice
  BY LinksSufficeWhenDone, InitInv, NextIsAny, Inductive, InitLex, NextLex, InitOk, OkIsLast,
     InitAssigns, AssignsStay, PTL DEF Spec

-----------------------------------------------------------------------------
(* Types                                                                   *)
(*                                                                         *)
(* A program that typechecks has a typing.  The types of the expressions   *)
(* that have been visited and not consumed (pending) are the last of the   *)
(* stacks of the nodes so far.                                             *)

\* While an expression is visited, there is nothing but its nodes behind the
\* statement that waits for it.
OwnerWaits(prog, fs) ==
  At(fs, ExpPoints) =>
    LET j == Last(fs).node
    IN  HasExp(prog, j, Len(prog) + 1) /\ WaitsAt[prog[j].n] = Last(fs).pc

\* The types that are pending are those that the nodes say.
TypedBy(prog, ts) == \E st : Typing(prog, st) /\ st[Len(prog) + 1] = ts

TypingInv ==
  /\ OwnerWaits(syntax, frames)
  /\ ~ At(frames, ExpPoints) => types = <<>>
  /\ status # "error" => TypedBy(syntax, types)

(* What comes later, and the links of assignments, do not matter to the    *)
(* types of a node, unless it ends the expression that is assigned.        *)
LEMMA StepKept ==
  ASSUME NEW old, NEW new, NEW k \in Nat \ {0},
         \A m \in 1 .. k : new[m].n = old[m].n /\ (old[m].n # "Assign" => new[m] = old[m]),
         old[k].n = "EndExp" => \A m \in 1 .. k : new[m] = old[m],
         NEW before, NEW after, TypeStep(old, k, before, after)
  PROVE  TypeStep(new, k, before, after)
<1>1. k \in 1 .. k /\ \A m \in 1 .. k - 1 : m \in 1 .. k
  OBVIOUS
<1>2. CASE old[k].n \in ExpNodes
  <2>1. new[k] = old[k]
    BY <1>1, <1>2 DEF ExpNodes
  <2>2. CASE old[k].n \in {"Const", "Var"}
    BY <2>1, <2>2 DEF TypeStep
  <2>3. CASE old[k].n = "Call"
    <3>1. old[k].def \in 1 .. k - 1 /\ old[old[k].def].n = "Func"
      BY <2>3 DEF TypeStep
    <3>2. new[old[k].def] = old[old[k].def]
      BY <1>1, <3>1
    <3>. QED  BY <2>1, <2>3, <3>2 DEF TypeStep
  <2>. QED  BY <1>2, <2>2, <2>3 DEF ExpNodes
<1>3. CASE old[k].n = "EndExp"
  <2>1. \A m \in 1 .. k : new[m] = old[m]
    BY <1>3
  <2>2. ASSUME NEW j \in 1 .. k - 1 PROVE HasExp(new, j, k) <=> HasExp(old, j, k)
    <3>1. \A m \in j + 1 .. k - 1 : m \in 1 .. k
      OBVIOUS
    <3>. QED  BY <1>1, <2>1, <3>1 DEF HasExp
  <2>3. ASSUME NEW j \in 1 .. k - 1, NEW f \in 1 .. j - 1
        PROVE  InFunction(new, f, j) <=> InFunction(old, f, j)
    <3>1. f \in 1 .. k /\ \A m \in f + 1 .. j - 1 : m \in 1 .. k
      OBVIOUS
    <3>. QED  BY <2>1, <3>1 DEF InFunction
  <2>4. \A j \in 1 .. k - 1 : \A f \in 1 .. j - 1 : f \in 1 .. k
    OBVIOUS
  <2>5. ASSUME NEW t, Expected(old, k, t) PROVE Expected(new, k, t)
    <3>. SUFFICES ASSUME NEW j \in 1 .. k - 1, HasExp(new, j, k)
                  PROVE  /\ new[j].n = "Decl"   => t = new[j].type
                         /\ new[j].n = "Assign" => t = new[j].decl.type
                         /\ new[j].n = "Return" =>
                              \A f \in 1 .. j - 1 : InFunction(new, f, j) => t = new[f].def.ret
                         /\ new[j].n = "CallStmt" => IsStmtCall(new[k - 1])
      BY DEF Expected
    <3>1. new[j] = old[j] /\ HasExp(old, j, k) /\ k - 1 \in 1 .. k
      BY <1>1, <2>1, <2>2
    <3>2. \A f \in 1 .. j - 1 : InFunction(new, f, j) => InFunction(old, f, j) /\ new[f] = old[f]
      BY <2>1, <2>3, <2>4
    <3>3. new[k - 1] = old[k - 1]
      BY <2>1, <3>1
    <3>. QED  BY <2>5, <3>1, <3>2, <3>3 DEF Expected
  <2>6. new[k].n = "EndExp"
    BY <1>1, <1>3, <2>1
  <2>7. after = <<>> /\ \E t \in Types : before = <<t>> /\ Expected(old, k, t)
    BY <1>3 DEF TypeStep
  <2>. QED  BY <2>5, <2>6, <2>7 DEF TypeStep
<1>4. CASE old[k].n \notin ExpNodes \cup {"EndExp"}
  <2>1. new[k].n = old[k].n
    BY <1>1
  <2>. QED  BY <1>4, <2>1 DEF TypeStep, ExpNodes
<1>. QED  BY <1>2, <1>3, <1>4

(* One more node, with the stacks before and behind it.                    *)
LEMMA TypedNext ==
  ASSUME NEW old \in Seq(Nodes), NEW new \in Seq(Nodes), Len(new) = Len(old) + 1,
         NEW before, NEW after \in Seq(Types), TypedBy(old, before),
         \A k \in 1 .. Len(old) : \A b, a : TypeStep(old, k, b, a) => TypeStep(new, k, b, a),
         TypeStep(new, Len(new), before, after)
  PROVE  TypedBy(new, after)
<1>. DEFINE n == Len(old)
<1>1. n \in Nat /\ Len(new) = n + 1
  OBVIOUS
<1>2. PICK st : Typing(old, st) /\ st[n + 1] = before
  BY DEF TypedBy
<1>3. st \in [1 .. n + 1 -> Seq(Types)] /\ st[1] = <<>>
  BY <1>2 DEF Typing
<1>4. \A k \in 1 .. n : TypeStep(old, k, st[k], st[k + 1])
  BY <1>2 DEF Typing
<1>. DEFINE next == [k \in 1 .. (n + 1) + 1 |-> IF k = n + 2 THEN after ELSE st[k]]
<1>5. \A k \in 1 .. (n + 1) + 1 : k = n + 2 \/ k \in 1 .. n + 1
  BY <1>1
<1>6. next \in [1 .. (n + 1) + 1 -> Seq(Types)]
  BY <1>3, <1>5
<1>7. /\ 1 \in 1 .. (n + 1) + 1 /\ 1 # n + 2
      /\ n + 2 \in 1 .. (n + 1) + 1 /\ n + 2 = (n + 1) + 1
      /\ n + 1 \in 1 .. (n + 1) + 1 /\ n + 1 # n + 2
  BY <1>1
<1>8. next[1] = <<>> /\ next[(n + 1) + 1] = after /\ next[n + 1] = before
  BY <1>2, <1>3, <1>7
<1>9. ASSUME NEW k \in 1 .. n + 1 PROVE TypeStep(new, k, next[k], next[k + 1])
  <2>1. CASE k = n + 1
    BY <1>1, <1>8, <2>1
  <2>2. CASE k \in 1 .. n
    <3>1. /\ k \in 1 .. (n + 1) + 1 /\ k # n + 2
          /\ k + 1 \in 1 .. (n + 1) + 1 /\ k + 1 # n + 2
      BY <1>1, <2>2
    <3>2. next[k] = st[k] /\ next[k + 1] = st[k + 1]
      BY <3>1
    <3>. HIDE DEF next
    <3>. QED  BY <1>4, <2>2, <3>2
  <2>. QED  BY <1>1, <2>1, <2>2
<1>. HIDE DEF next, n
<1>10. Typing(new, next)
  BY <1>1, <1>6, <1>8, <1>9 DEF Typing
<1>. QED  BY <1>1, <1>8, <1>10 DEF TypedBy

(* A program and its types grow together by one node.                      *)
LEMMA TypedGrows ==
  ASSUME NEW old \in Seq(Nodes), NEW node \in Nodes,
         NEW before, NEW after \in Seq(Types), TypedBy(old, before),
         TypeStep(Append(old, node), Len(old) + 1, before, after)
  PROVE  TypedBy(Append(old, node), after)
<1>. DEFINE new == Append(old, node)
<1>1. /\ new \in Seq(Nodes) /\ Len(new) = Len(old) + 1 /\ Len(old) \in Nat
      /\ \A k \in 1 .. Len(old) : new[k] = old[k]
  OBVIOUS
<1>. HIDE DEF new
<1>2. ASSUME NEW k \in 1 .. Len(old), NEW b, NEW a, TypeStep(old, k, b, a)
      PROVE  TypeStep(new, k, b, a)
  <2>1. \A m \in 1 .. k : m \in 1 .. Len(old)
    BY <1>1
  <2>2. \A m \in 1 .. k : new[m] = old[m]
    BY <1>1, <2>1
  <2>3. k \in Nat \ {0}
    OBVIOUS
  <2>. QED  BY <1>2, <2>2, <2>3, StepKept
<1>3. TypedBy(new, after)
  BY <1>1, <1>2, TypedNext DEF new
<1>. QED  BY <1>3 DEF new

(* An expression belongs to one statement.                                 *)
LEMMA OneOwner ==
  ASSUME NEW prog, NEW k \in Nat, NEW i, NEW j, HasExp(prog, i, k), HasExp(prog, j, k)
  PROVE  i = j
<1>1. /\ i \in 1 .. k - 1 /\ j \in 1 .. k - 1
      /\ prog[i].n \notin ExpNodes /\ prog[j].n \notin ExpNodes
  BY DEF HasExp, WaitsAt, ExpNodes
<1>2. ~ (i < j)
  <2>1. i < j => j \in i + 1 .. k - 1
    BY <1>1
  <2>. QED  BY <1>1, <2>1 DEF HasExp
<1>3. ~ (j < i)
  <2>1. j < i => i \in j + 1 .. k - 1
    BY <1>1
  <2>. QED  BY <1>1, <2>1 DEF HasExp
<1>. QED  BY <1>1, <1>2, <1>3

-----------------------------------------------------------------------------
(* A statement, or a mark, other than of the end of an expression.         *)
LEMMA NeutralTyped ==
  ASSUME IInv, TypingInv, ~ At(frames, ExpPoints), NEW node \in Nodes,
         node.n \notin ExpNodes \cup {"EndExp"}, syntax' = Append(syntax, node),
         types' = types, status' = status, OwnerWaits(syntax', frames')
  PROVE  TypingInv'
<1>1. syntax \in Seq(Nodes) /\ types = <<>> /\ types \in Seq(Types)
  BY DEF IInv, TypeOK, TypingInv
<1>. DEFINE new == Append(syntax, node)
<1>2. new[Len(syntax) + 1] = node
  BY <1>1, TextGrows
<1>. HIDE DEF new
<1>3. TypeStep(new, Len(syntax) + 1, types, types)
  BY <1>1, <1>2 DEF TypeStep, ExpNodes
<1>4. status # "error" => TypedBy(syntax', types')
  BY <1>1, <1>3, TypedGrows DEF TypingInv, new
<1>. QED  BY <1>1, <1>4 DEF TypingInv

(* An expression goes on.                                                  *)
LEMMA ExpTyped ==
  ASSUME IInv, TypingInv, At(frames, ExpPoints), NEW node \in Nodes, node.n \in ExpNodes,
         syntax' = Append(syntax, node), frames' = frames, status' = status,
         types' \in Seq(Types), TypeStep(syntax', Len(syntax) + 1, types, types')
  PROVE  TypingInv'
<1>1. syntax \in Seq(Nodes) /\ Len(syntax) \in Nat
  BY DEF IInv, TypeOK
<1>. DEFINE new == Append(syntax, node)
            j == Last(frames).node
            L == Len(syntax)
<1>2. Len(new) = L + 1 /\ new[L + 1] = node /\ \A k \in 1 .. L : new[k] = syntax[k]
  BY <1>1
<1>3. HasExp(syntax, j, L + 1) /\ WaitsAt[syntax[j].n] = Last(frames).pc
  BY DEF TypingInv, OwnerWaits
<1>. HIDE DEF new, j, L
<1>4. OwnerWaits(new, frames)
  <2>1. j \in 1 .. L /\ L \in Nat
    BY <1>1, <1>3 DEF HasExp, L
  <2>2. \A m \in j + 1 .. (L + 2) - 1 : m = L + 1 \/ (m \in j + 1 .. (L + 1) - 1 /\ m \in 1 .. L)
    BY <2>1
  <2>3. j \in 1 .. (L + 2) - 1
    BY <2>1
  <2>4. HasExp(new, j, L + 2)
    BY <1>2, <1>3, <2>1, <2>2, <2>3 DEF HasExp
  <2>5. Len(new) + 1 = L + 2
    BY <1>2, <2>1
  <2>. QED  BY <1>2, <1>3, <2>1, <2>4, <2>5 DEF OwnerWaits, j
<1>5. status # "error" => TypedBy(syntax', types')
  BY <1>1, TypedGrows DEF TypingInv
<1>. QED  BY <1>4, <1>5 DEF TypingInv, new

\* What the end of an expression asks for, of the statement around it.
Fits(prog, j, k, t) ==
  /\ prog[j].n = "Decl"   => t = prog[j].type
  /\ prog[j].n = "Assign" => t = prog[j].decl.type
  /\ prog[j].n = "Return" =>
       \A f \in 1 .. j - 1 : InFunction(prog, f, j) => t = prog[f].def.ret
  /\ prog[j].n = "CallStmt" => IsStmtCall(prog[k - 1])

(* An expression ends.                                                     *)
LEMMA OneType ==
  ASSUME NEW ts \in Seq(Types), Len(ts) = 1
  PROVE  ts[1] \in Types /\ ts = <<ts[1]>>
<1>1. 1 \in 1 .. Len(ts)
  OBVIOUS
<1>2. ts[1] \in Types
  BY <1>1
<1>. QED  BY <1>1, <1>2

(* The end of an expression: its value has the type that the statement     *)
(* waits for.                                                              *)
LEMMA EndTyped ==
  ASSUME IInv, TypingInv, At(frames, ExpPoints), Len(types) = 1,
         NEW new \in Seq(Nodes), Len(new) = Len(syntax) + 1, new[Len(new)].n = "EndExp",
         \A m \in 1 .. Len(syntax) :
           /\ new[m].n = syntax[m].n
           /\ m # Last(frames).node \/ syntax[m].n # "Assign" => new[m] = syntax[m],
         Fits(new, Last(frames).node, Len(syntax) + 1, types[1]),
         syntax' = new, ~ At(frames', ExpPoints), types' = <<>>, status' = status
  PROVE  TypingInv'
<1>. DEFINE j == Last(frames).node
            L == Len(syntax)
            t == types[1]
<1>1. /\ syntax \in Seq(Nodes) /\ L \in Nat /\ DOMAIN syntax = 1 .. L
      /\ types \in Seq(Types)
  BY DEF IInv, TypeOK
<1>10. t \in Types /\ types = <<t>>
  BY <1>1, OneType
<1>2. HasExp(syntax, j, L + 1)
  BY DEF TypingInv, OwnerWaits
<1>. HIDE DEF j, L, t
<1>3. j \in 1 .. L /\ \A m \in j + 1 .. L : syntax[m].n \in ExpNodes
  BY <1>1, <1>2 DEF HasExp
<1>4. ASSUME NEW k \in 1 .. L, NEW b, NEW a, TypeStep(syntax, k, b, a)
      PROVE  TypeStep(new, k, b, a)
  <2>1. \A m \in 1 .. k : m \in 1 .. L
    BY <1>1
  <2>2. \A m \in 1 .. k : new[m].n = syntax[m].n /\ (syntax[m].n # "Assign" => new[m] = syntax[m])
    BY <2>1 DEF L
  <2>3. syntax[k].n = "EndExp" => \A m \in 1 .. k : new[m] = syntax[m]
    <3>1. ASSUME syntax[k].n = "EndExp", NEW m \in 1 .. k, new[m] # syntax[m] PROVE FALSE
      <4>1. m = j /\ syntax[m].n = "Assign"
        BY <2>1, <3>1 DEF L, j
      <4>2. k \in j + 1 .. L
        BY <1>1, <3>1, <4>1
      <4>. QED  BY <1>3, <3>1, <4>2 DEF ExpNodes
    <3>. QED  BY <3>1
  <2>4. k \in Nat \ {0}
    OBVIOUS
  <2>. QED  BY <1>4, <2>2, <2>3, <2>4, StepKept
<1>5. Expected(new, L + 1, t)
  <2>. SUFFICES ASSUME NEW i \in 1 .. (L + 1) - 1, HasExp(new, i, L + 1) PROVE Fits(new, i, L + 1, t)
    BY DEF Expected, Fits
  <2>1. i \in 1 .. L /\ \A m \in i + 1 .. (L + 1) - 1 : m \in 1 .. L
    BY <1>1
  <2>2. HasExp(syntax, i, L + 1)
    BY <2>1 DEF HasExp, L
  <2>3. L + 1 \in Nat
    BY <1>1
  <2>4. i = j
    BY <1>2, <2>2, <2>3, OneOwner
  <2>. QED  BY <2>4 DEF j, t, L
<1>6. TypeStep(new, L + 1, types, <<>>)
  BY <1>5, <1>10 DEF TypeStep, L
<1>7. TypedBy(syntax, types) => TypedBy(new, <<>>)
  <2>1. <<>> \in Seq(Types)
    OBVIOUS
  <2>2. Len(new) = L + 1
    BY DEF L
  <2>. QED  BY <1>1, <1>4, <1>6, <2>1, <2>2, TypedNext DEF L
<1>8. OwnerWaits(syntax', frames')
  BY DEF OwnerWaits
<1>. QED  BY <1>7, <1>8 DEF TypingInv

(* An error leaves nothing to be said.                                     *)
LEMMA TypeErrorTyped == ASSUME TypingInv, TypeError PROVE TypingInv'
  BY DEF TypingInv, TypeError, OwnerWaits, At

(* A statement or a mark, without an expression.                           *)
LEMMA NoExpTyped ==
  ASSUME IInv, TypingInv, ~ At(frames, ExpPoints), ~ At(frames', ExpPoints), NEW node \in Nodes,
         node.n \notin ExpNodes \cup {"EndExp"}, syntax' = Append(syntax, node),
         types' = types, status' = status
  PROVE  TypingInv'
<1>1. OwnerWaits(syntax', frames')
  BY DEF OwnerWaits
<1>. QED  BY <1>1, NeutralTyped

(* A statement whose Visit function goes on with an expression.            *)
LEMMA EnterTyped ==
  ASSUME IInv, LexInv, TypingInv, At(frames, StmtPoints), Last(frames).pc # "FuncBody",
         NEW node \in Nodes, node.n \in DOMAIN WaitsAt, syntax' = Append(syntax, node),
         frames' = Enter(frames, NewFrame(WaitsAt[node.n])), types' = types, status' = status
  PROVE  TypingInv'
<1>. DEFINE pc == WaitsAt[node.n]
            fr == NewFrame(pc)
            new == Append(syntax, node)
<1>1. frames # <<>> /\ ~ At(frames, ExpPoints)
  BY DEF At, StmtPoints, ExpPoints
<1>2. /\ syntax \in Seq(Nodes) /\ Len(syntax) \in Nat /\ frames \in Seq(Frames)
      /\ FramesShape(frames)
  BY <1>1, ActiveFunction
<1>3. 2 <= Len(scopes) /\ Len(scopes) \in Nat
  BY <1>1, DeepEnough
<1>4. pc \in ExpPoints /\ node.n \notin ExpNodes \cup {"EndExp"}
  BY DEF WaitsAt, ExpPoints, ExpNodes
<1>. HIDE DEF pc
<1>5. /\ fr \in Frames /\ fr.pc = pc /\ fr.node = Len(syntax) + 1 /\ 2 <= Depth(fr)
      /\ fr.pc \notin {"FuncBody", "FuncEnd"}
  BY <1>2, <1>3, <1>4 DEF NewFrame, Frames, ControlPoints, ExpPoints, Depth
<1>. HIDE DEF fr
<1>6. Last(Enter(frames, fr)) = fr
  BY <1>1, <1>2, <1>5, ShapeEnter
<1>7. Len(new) = Len(syntax) + 1 /\ new[Len(syntax) + 1] = node
  BY <1>2, TextGrows
<1>. HIDE DEF new
<1>8. HasExp(new, Len(syntax) + 1, Len(new) + 1)
  <2>1. /\ Len(syntax) + 1 \in 1 .. (Len(new) + 1) - 1
        /\ (Len(syntax) + 1) + 1 .. (Len(new) + 1) - 1 = {}
    BY <1>2, <1>7
  <2>. QED  BY <1>7, <2>1 DEF HasExp
<1>9. OwnerWaits(new, Enter(frames, fr))
  BY <1>5, <1>6, <1>7, <1>8 DEF OwnerWaits, pc
<1>. QED  BY <1>1, <1>4, <1>9, NeutralTyped DEF pc, fr, new

(* The statements that only go on with an expression.                      *)
LEMMA VisitExpOfTyped ==
  ASSUME IInv, LexInv, TypingInv, NEW kind, kind # "Seq", NEW node \in Nodes,
         node.n \in DOMAIN WaitsAt, NEW pc, pc = WaitsAt[node.n], VisitExpOf(kind, node, pc)
  PROVE  TypingInv'
  BY EnterTyped DEF VisitExpOf, MayVisit

(* A declaration.                                                          *)
LEMMA VisitDeclTyped ==
  ASSUME IInv, LexInv, TypingInv, NEW x \in VarNames, NEW t \in Types, NEW init \in BOOLEAN,
         VisitDecl(x, t, init)
  PROVE  TypingInv'
<1>. DEFINE node == [n |-> "Decl", name |-> x, type |-> t, init |-> init]
<1>1. At(frames, StmtPoints) /\ Last(frames).pc # "FuncBody"
  BY DEF VisitDecl, MayVisit
<1>2. /\ node \in Nodes /\ node.n = "Decl" /\ "Decl" \in DOMAIN WaitsAt
      /\ WaitsAt["Decl"] = "DeclInit"
  BY NodeTypes DEF WaitsAt
<1>3. CASE TypeError
  BY <1>3, TypeErrorTyped
<1>4. CASE ~ TypeError
  <2>1. /\ syntax' = Append(syntax, node) /\ types' = types /\ status' = status
        /\ frames' = Enter(frames, NewFrame("DeclInit")) \/ frames' = Resume(frames)
    BY <1>4 DEF VisitDecl
  <2>. HIDE DEF node
  <2>2. CASE frames' = Enter(frames, NewFrame("DeclInit"))
    BY <1>1, <1>2, <2>1, <2>2, EnterTyped
  <2>3. CASE frames' = Resume(frames)
    <3>1. ~ At(frames, ExpPoints) /\ ~ At(frames', ExpPoints)
      BY <1>1, <2>3, ShapeEnter DEF At, StmtPoints, ExpPoints, LexInv, IInv, TypeOK
    <3>2. node.n \notin ExpNodes \cup {"EndExp"}
      BY <1>2 DEF ExpNodes
    <3>. QED  BY <1>2, <2>1, <3>1, <3>2, NoExpTyped
  <2>. QED  BY <2>1, <2>2, <2>3
<1>. QED  BY <1>3, <1>4

(* A sequence begins.                                                      *)
LEMMA VisitSeqTyped == ASSUME IInv, LexInv, TypingInv, VisitSeq PROVE TypingInv'
<1>. DEFINE fr == NewFrame("Seq")
<1>1. /\ At(frames, StmtPoints) /\ frames # <<>> /\ ~ At(frames, ExpPoints)
      /\ syntax' = Append(syntax, Mark("Seq")) /\ frames' = Enter(frames, fr)
      /\ types' = types /\ status' = status
  BY DEF VisitSeq, MayVisit, At, StmtPoints, ExpPoints
<1>2. /\ Len(syntax) \in Nat /\ frames \in Seq(Frames) /\ FramesShape(frames)
      /\ Len(scopes) \in Nat /\ ChainOK(syntax, scopes, frames[1].node)
  BY <1>1, ActiveFunction
<1>3. 1 <= Len(scopes)
  BY <1>2 DEF ChainOK
<1>4. fr \in Frames /\ fr.pc = "Seq" /\ 2 <= Depth(fr) /\ fr.pc \notin {"FuncBody", "FuncEnd"}
  BY <1>2, <1>3 DEF NewFrame, Frames, ControlPoints, StmtPoints, Depth
<1>. HIDE DEF fr
<1>5. Last(Enter(frames, fr)) = fr
  BY <1>1, <1>2, <1>4, ShapeEnter
<1>6. ~ At(frames', ExpPoints)
  BY <1>1, <1>4, <1>5 DEF At, ExpPoints
<1>7. Mark("Seq") \in Nodes /\ Mark("Seq").n \notin ExpNodes \cup {"EndExp"}
  BY NodeTypes DEF Marks, ExpNodes
<1>. QED  BY <1>1, <1>6, <1>7, NoExpTyped

(* A sequence, a branch, a statement or a function ends.                   *)
LEMMA EndStmtsTyped ==
  ASSUME IInv, LexInv, TypingInv, EndSeq \/ VisitElse \/ EndIf \/ EndWhile \/ EndFunction
  PROVE  TypingInv'
<1>1. ASSUME NEW m \in Marks \ {"EndExp"}, syntax' = Append(syntax, Mark(m)),
             UNCHANGED <<types, status>>, frames # <<>>, Last(frames).pc \notin ExpPoints,
             \/ frames' = Front(frames) \/ frames' = <<>>
             \/ frames' = SetPc(frames, "IfElse") /\ Last(frames).pc = "ThenEnd"
      PROVE  TypingInv'
  <2>1. frames \in Seq(Frames) /\ FramesShape(frames)
    BY <1>1, ActiveFunction
  <2>2. CASE frames' = Front(frames)
    <3>1. ~ At(frames', ExpPoints)
      BY <1>1, <2>1, <2>2, ShapeFront
    <3>. QED  BY <1>1, <3>1, NodeTypes, NoExpTyped DEF At, ExpNodes, Marks
  <2>3. CASE frames' = <<>>
    <3>1. ~ At(frames', ExpPoints)
      BY <2>3 DEF At
    <3>. QED  BY <1>1, <3>1, NodeTypes, NoExpTyped DEF At, ExpNodes, Marks
  <2>4. CASE frames' = SetPc(frames, "IfElse") /\ Last(frames).pc = "ThenEnd"
    <3>1. frames[Len(frames)].pc = "ThenEnd" /\ "IfElse" \in ControlPoints
      BY <2>4 DEF Last, ControlPoints, StmtPoints
    <3>2. Len(frames) # 1
      BY <1>1, <2>1, <3>1 DEF FramesShape
    <3>3. Last(frames').pc = "IfElse"
      BY <1>1, <2>1, <2>4, <3>1, <3>2, ShapeSetPc
    <3>4. ~ At(frames', ExpPoints)
      BY <3>3 DEF At, ExpPoints
    <3>. QED  BY <1>1, <3>4, NodeTypes, NoExpTyped DEF At, ExpNodes, Marks
  <2>. QED  BY <1>1, <2>2, <2>3, <2>4
<1>2. {"EndSeq", "Else", "EndIf", "EndWhile", "EndFunc"} \subseteq Marks \ {"EndExp"}
  BY DEF Marks
<1>3. ASSUME NEW pc \in EndPoints, NEW m \in {"EndIf", "EndWhile"}, EndStmt(pc, m)
      PROVE  TypingInv'
  BY <1>1, <1>2, <1>3 DEF EndStmt, At, EndPoints, ExpPoints
<1>4. EndSeq => TypingInv'
  BY <1>1, <1>2 DEF EndSeq, At, ExpPoints
<1>5. VisitElse => TypingInv'
  BY <1>1, <1>2 DEF VisitElse, At, ExpPoints
<1>6. EndFunction => TypingInv'
  BY <1>1, <1>2 DEF EndFunction, At, ExpPoints
<1>. QED  BY <1>3, <1>4, <1>5, <1>6 DEF EndIf, EndWhile, EndPoints

(* The arguments of a call are the last of the pending expressions.        *)
LEMMA SplitAt ==
  ASSUME NEW S, NEW s \in Seq(S), NEW m \in 0 .. Len(s)
  PROVE  /\ SubSeq(s, 1, m) \in Seq(S) /\ Len(SubSeq(s, m + 1, Len(s))) = Len(s) - m
         /\ s = SubSeq(s, 1, m) \o SubSeq(s, m + 1, Len(s))
<1>. DEFINE front == SubSeq(s, 1, m)
            back  == SubSeq(s, m + 1, Len(s))
<1>1. Len(s) \in Nat /\ m \in Nat /\ m <= Len(s)
  OBVIOUS
<1>2. /\ front \in Seq(S) /\ Len(front) = m /\ \A i \in 1 .. m : front[i] = s[i]
  <2>1. \A i \in 1 .. m : s[i] \in S
    BY <1>1
  <2>. QED  BY <1>1, <2>1
<1>3. /\ back \in Seq(S) /\ Len(back) = Len(s) - m /\ \A i \in 1 .. Len(s) - m : back[i] = s[m + i]
  <2>1. \A i \in m + 1 .. Len(s) : s[i] \in S
    BY <1>1
  <2>. QED  BY <1>1, <2>1
<1>. HIDE DEF front, back
<1>4. front \o back \in Seq(S) /\ Len(front \o back) = Len(s)
  <2>1. front \o back \in Seq(S) /\ Len(front \o back) = Len(front) + Len(back)
    BY <1>2, <1>3, ConcatProperties
  <2>. QED  BY <1>1, <1>2, <1>3, <2>1
<1>7. \A i \in 1 .. Len(front) + Len(back) :
        (front \o back)[i] = IF i <= Len(front) THEN front[i] ELSE back[i - Len(front)]
  BY <1>2, <1>3, ConcatProperties
<1>5. ASSUME NEW i \in 1 .. Len(s) PROVE (front \o back)[i] = s[i]
  <2>1. CASE i <= m
    BY <1>1, <1>2, <1>3, <1>7, <2>1
  <2>2. CASE ~ (i <= m)
    <3>1. i - m \in 1 .. Len(s) - m /\ m + (i - m) = i
      BY <1>1, <2>2
    <3>2. i \in 1 .. Len(front) + Len(back) /\ ~ (i <= Len(front))
      BY <1>1, <1>2, <1>3, <2>2
    <3>3. (front \o back)[i] = back[i - m]
      BY <1>2, <1>7, <3>2
    <3>. QED  BY <1>3, <3>1, <3>3
  <2>. QED  BY <2>1, <2>2
<1>6. s = front \o back
  BY <1>4, <1>5, SeqEqual
<1>. QED  BY <1>2, <1>3, <1>6 DEF front, back

(* The expressions.                                                        *)
LEMMA VisitExpTyped ==
  ASSUME IInv, LexInv, TypingInv,
         \/ \E t \in Types : VisitConst(t)
         \/ \E x \in VarNames : VisitVarExp(x)
         \/ \E name \in FuncNames, n \in Nat : VisitCallExp(name, n)
  PROVE  TypingInv'
<1>1. CASE TypeError
  BY <1>1, TypeErrorTyped
<1>2. /\ syntax \in Seq(Nodes) /\ types \in Seq(Types) /\ funcTable \in Seq(Nat) /\ TypeOK
      /\ Len(syntax) \in Nat /\ Len(types) \in Nat /\ DOMAIN syntax = 1 .. Len(syntax)
  BY DEF IInv, TypeOK
<1>3. ASSUME NEW t \in Types, VisitConst(t) PROVE TypingInv'
  <2>. DEFINE node == [n |-> "Const", type |-> t]
  <2>1. /\ node \in Nodes /\ node.n = "Const" /\ syntax' = Append(syntax, node)
        /\ ExpType(node) = t
        /\ types' = Append(types, t) /\ UNCHANGED <<frames, status>> /\ At(frames, ExpPoints)
    BY <1>3, NodeTypes DEF VisitConst, ExpType
  <2>. HIDE DEF node
  <2>2. syntax'[Len(syntax) + 1] = node /\ types' \in Seq(Types)
    BY <1>2, <2>1, TextGrows
  <2>3. TypeStep(syntax', Len(syntax) + 1, types, types')
    BY <2>1, <2>2 DEF TypeStep
  <2>. QED  BY <2>1, <2>2, <2>3, ExpTyped DEF ExpNodes
<1>4. ASSUME NEW x \in VarNames, VisitVarExp(x), ~ TypeError PROVE TypingInv'
  <2>. DEFINE d == Find(x)
              node == [n |-> "Var", name |-> x, decl |-> d]
  <2>1. /\ Visible(x) /\ syntax' = Append(syntax, node) /\ types' = Append(types, d.type)
        /\ UNCHANGED <<frames, status>> /\ At(frames, ExpPoints)
    BY <1>4 DEF VisitVarExp
  <2>2. d \in VarDecls
    BY <1>2, <2>1, FindType
  <2>. HIDE DEF d
  <2>3. node \in Nodes /\ node.n = "Var" /\ d.type \in Types /\ ExpType(node) = d.type
    BY <2>2, NodeTypes DEF VarDecls, ExpType
  <2>. HIDE DEF node
  <2>4. syntax'[Len(syntax) + 1] = node /\ types' \in Seq(Types)
    BY <1>2, <2>1, <2>3, TextGrows
  <2>5. TypeStep(syntax', Len(syntax) + 1, types, types')
    BY <2>1, <2>3, <2>4 DEF TypeStep
  <2>. QED  BY <2>1, <2>3, <2>4, <2>5, ExpTyped DEF ExpNodes
<1>5. ASSUME NEW name \in FuncNames, NEW n \in Nat, VisitCallExp(name, n), ~ TypeError
      PROVE  TypingInv'
  <2>. DEFINE first == Len(types) - n
              args == SubSeq(types, first + 1, Len(types))
              rest == SubSeq(types, 1, first)
              pos == FindFunc(name, args)
              f == funcTable[pos]
              ret == syntax[f].def.ret
              node == [n |-> "Call", name |-> name, args |-> n, type |-> ret, def |-> f]
              prog == Append(syntax, node)
  <2>1. /\ pos # 0 /\ first \in 0 .. Len(types) /\ At(frames, ExpPoints)
        /\ syntax' = prog /\ types' = Append(rest, ret) /\ UNCHANGED <<frames, status>>
    BY <1>2, <1>5 DEF VisitCallExp, MayCall
  <2>2. pos \in DOMAIN funcTable /\ ParamTypes(syntax[f].def) = args
    <3>. HIDE DEF args
    <3>. QED  BY <1>2, <2>1, FindFuncFirst
  <2>3. rest \in Seq(Types) /\ types = rest \o args /\ Len(args) = n
    <3>1. Len(types) - first = n
      BY <1>2
    <3>. HIDE DEF first
    <3>. QED  BY <1>2, <2>1, <3>1, SplitAt
  <2>. HIDE DEF pos, args, rest, first
  <2>4. f \in 1 .. Len(syntax) /\ syntax[f].n = "Func" /\ syntax[f] \in Nodes
    BY <1>2, <2>2 DEF IInv, TableOK, NodeAt
  <2>5. ret \in Types /\ syntax[f].def.params \in Seq(Params)
    BY <2>4, NodeFields DEF FuncDefs
  <2>6. n = Len(syntax[f].def.params)
    <3>1. DOMAIN ParamTypes(syntax[f].def) = DOMAIN syntax[f].def.params
      BY DEF ParamTypes
    <3>2. \A p \in Seq(Params) : DOMAIN p = 1 .. Len(p) /\ Len(p) \in Nat
      OBVIOUS
    <3>3. DOMAIN args = 1 .. n
      BY <1>2, <2>1, <2>3 DEF args, first
    <3>. QED  BY <2>2, <2>5, <3>1, <3>2, <3>3
  <2>. HIDE DEF f, ret
  <2>7. /\ node \in Nodes /\ node.n = "Call" /\ node.def = f /\ node.args = n /\ node.type = ret
    BY <2>4, <2>5, NodeTypes
  <2>. HIDE DEF node
  <2>8. prog[Len(syntax) + 1] = node /\ prog[f] = syntax[f]
    BY <1>2, <2>4, <2>7, TextGrows
  <2>. HIDE DEF prog
  <2>9. types' \in Seq(Types)
    BY <2>1, <2>3, <2>5
  <2>10. f \in 1 .. (Len(syntax) + 1) - 1
    BY <1>2, <2>4
  <2>11. TypeStep(prog, Len(syntax) + 1, types, types')
    BY <2>1, <2>2, <2>3, <2>4, <2>6, <2>7, <2>8, <2>10 DEF TypeStep, ret
  <2>. QED  BY <2>1, <2>7, <2>9, <2>11, ExpTyped DEF ExpNodes, prog
<1>. QED  BY <1>1, <1>3, <1>4, <1>5

(* The end of an expression, but of one that is assigned.                  *)
LEMMA EndExpTyped ==
  ASSUME IInv, LexInv, TypingInv, NEW pc \in ExpPoints \ {"AssignExp"}, ExpDone(pc),
         Fits(syntax, Last(frames).node, Len(syntax) + 1, types[1]), NEW fs, EndExp(fs), ~ At(fs, ExpPoints)
  PROVE  TypingInv'
<1>. DEFINE new == Append(syntax, Mark("EndExp"))
            j == Last(frames).node
<1>1. /\ syntax \in Seq(Nodes) /\ Len(syntax) \in Nat /\ DOMAIN syntax = 1 .. Len(syntax)
      /\ At(frames, ExpPoints) /\ Len(types) = 1 /\ types \in Seq(Types)
      /\ syntax' = new /\ frames' = fs /\ types' = <<>> /\ status' = status
  BY DEF IInv, TypeOK, ExpDone, EndExp, At
<1>2. Mark("EndExp") \in Nodes /\ Mark("EndExp").n = "EndExp"
  BY NodeTypes DEF Marks
<1>3. /\ new \in Seq(Nodes) /\ Len(new) = Len(syntax) + 1 /\ new[Len(new)].n = "EndExp"
      /\ \A k \in 1 .. Len(syntax) : new[k] = syntax[k]
  BY <1>1, <1>2, TextGrows
<1>. HIDE DEF new
<1>4. j \in 1 .. Len(syntax)
  BY <1>1 DEF TypingInv, OwnerWaits, HasExp
<1>5. Fits(new, j, Len(syntax) + 1, types[1])
  <2>1. new[j] = syntax[j] /\ \A f \in 1 .. j - 1 : f \in 1 .. Len(syntax) /\ new[f] = syntax[f]
    BY <1>3, <1>4
  <2>2. ASSUME NEW f \in 1 .. j - 1, InFunction(new, f, j) PROVE InFunction(syntax, f, j)
    <3>1. \A k \in f + 1 .. j - 1 : k \in 1 .. j - 1
      BY <1>4
    <3>. QED  BY <2>1, <2>2, <3>1 DEF InFunction
  <2>3. new[(Len(syntax) + 1) - 1] = syntax[(Len(syntax) + 1) - 1]
    BY <1>1, <1>3, <1>4
  <2>. QED  BY <2>1, <2>2, <2>3 DEF Fits
<1>. QED  BY <1>1, <1>3, <1>5, EndTyped

(* A value that is returned has the type of the function around it.        *)
LEMMA ReturnFits ==
  ASSUME IInv, LexInv, TypingInv, At(frames, {"ReturnExp"}),
         NEW t, t = syntax[frames[1].node].def.ret
  PROVE  Fits(syntax, Last(frames).node, Len(syntax) + 1, t)
<1>. DEFINE j == Last(frames).node
            g == frames[1].node
<1>1. frames # <<>> /\ At(frames, ExpPoints) /\ Last(frames).pc = "ReturnExp"
  BY DEF At, ExpPoints
<1>2. HasExp(syntax, j, Len(syntax) + 1) /\ WaitsAt[syntax[j].n] = "ReturnExp"
  BY <1>1 DEF TypingInv, OwnerWaits
<1>3. /\ Len(syntax) \in Nat /\ DOMAIN syntax = 1 .. Len(syntax)
      /\ ChainOK(syntax, scopes, g)
  BY <1>1, ActiveFunction
<1>. HIDE DEF j, g
<1>4. syntax[j].n = "Return" /\ j \in 1 .. Len(syntax)
  BY <1>2, <1>3 DEF HasExp, WaitsAt
<1>5. /\ g \in 1 .. Len(syntax) /\ syntax[g].n = "Func"
      /\ \A k \in g + 1 .. Len(syntax) : syntax[k].n # "Func"
  BY <1>3 DEF ChainOK
<1>6. ASSUME NEW f \in 1 .. j - 1, InFunction(syntax, f, j) PROVE f = g
  <2>1. syntax[f].n = "Func" /\ \A k \in f + 1 .. j - 1 : syntax[k].n # "Func"
    BY <1>6 DEF InFunction
  <2>2. ~ (g < f)
    <3>1. g < f => f \in g + 1 .. Len(syntax)
      BY <1>4, <1>5
    <3>. QED  BY <1>5, <2>1, <3>1
  <2>3. ~ (f < g)
    <3>1. ~ (g > j)
      <4>1. g > j => g \in j + 1 .. (Len(syntax) + 1) - 1
        BY <1>4, <1>5
      <4>. QED  BY <1>2, <1>5, <4>1 DEF HasExp, ExpNodes
    <3>2. g # j
      BY <1>4, <1>5
    <3>3. f < g => g \in f + 1 .. j - 1
      BY <1>4, <1>5, <3>1, <3>2
    <3>. QED  BY <1>5, <2>1, <3>3
  <2>. QED  BY <1>4, <1>5, <2>2, <2>3
<1>7. Fits(syntax, j, Len(syntax) + 1, t)
  BY <1>4, <1>6 DEF Fits, g
<1>. QED  BY <1>7 DEF j

(* The ends of the other expressions.                                      *)
LEMMA EndExpsTyped ==
  ASSUME IInv, LexInv, TypingInv,
         EndIfCond \/ EndWhileCond \/ EndCallStmt \/ EndReturn \/ EndDeclInit
  PROVE  TypingInv'
<1>1. frames # <<>> /\ At(frames, ExpPoints) /\ frames \in Seq(Frames) /\ FramesShape(frames)
  BY DEF EndIfCond, EndWhileCond, EndCallStmt, EndReturn, EndDeclInit, ExpDone, At, ExpPoints,
         IInv, TypeOK, LexInv
<1>. DEFINE j == Last(frames).node
<1>2. ASSUME NEW n \in DOMAIN WaitsAt, Last(frames).pc = WaitsAt[n] PROVE syntax[j].n = n
  <2>1. syntax[j].n \in DOMAIN WaitsAt /\ WaitsAt[syntax[j].n] = Last(frames).pc
    BY <1>1 DEF TypingInv, OwnerWaits, HasExp
  <2>2. \A a, b \in DOMAIN WaitsAt : WaitsAt[a] = WaitsAt[b] => a = b
    BY DEF WaitsAt
  <2>. QED  BY <1>2, <2>1, <2>2
<1>3. \A pc : ExpDone(pc) => Last(frames).pc = pc /\ At(frames, {pc})
  BY DEF ExpDone, At
<1>4. ~ At(Front(frames), ExpPoints)
  BY <1>1, ShapeFront
<1>5. ASSUME NEW pc \in {"IfThen", "WhileBody"}, NEW old \in {"IfCond", "WhileCond"},
             ExpDone(old)
      PROVE  ~ At(SetPc(frames, pc), ExpPoints)
  <2>1. Last(frames).pc = old /\ frames[Len(frames)].pc = old /\ pc \in ControlPoints
    BY <1>3, <1>5 DEF Last, ControlPoints, StmtPoints
  <2>2. Len(frames) # 1
    BY <1>1, <2>1 DEF FramesShape
  <2>3. Last(SetPc(frames, pc)).pc = pc
    BY <1>1, <2>1, <2>2, ShapeSetPc
  <2>. QED  BY <2>3 DEF At, ExpPoints
<1>6. {"IfCond", "WhileCond", "CallExp", "ReturnExp", "DeclInit"} = ExpPoints \ {"AssignExp"}
  BY DEF ExpPoints
<1>7. ASSUME syntax[j].n \notin {"Decl", "Assign", "Return", "CallStmt"}
      PROVE  Fits(syntax, j, Len(syntax) + 1, types[1])
  BY <1>7 DEF Fits
<1>8. CASE EndIfCond
  <2>1. ExpDone("IfCond") /\ EndExp(SetPc(frames, "IfThen"))
    BY <1>8 DEF EndIfCond
  <2>2. syntax[j].n = "If"
    BY <1>2, <1>3, <2>1 DEF WaitsAt
  <2>. QED  BY <1>5, <1>6, <1>7, <2>1, <2>2, EndExpTyped
<1>9. CASE EndWhileCond
  <2>1. ExpDone("WhileCond") /\ EndExp(SetPc(frames, "WhileBody"))
    BY <1>9 DEF EndWhileCond
  <2>2. syntax[j].n = "While"
    BY <1>2, <1>3, <2>1 DEF WaitsAt
  <2>. QED  BY <1>5, <1>6, <1>7, <2>1, <2>2, EndExpTyped
<1>10. CASE EndCallStmt
  <2>1. ExpDone("CallExp") /\ EndExp(Front(frames)) /\ IsStmtCall(Last(syntax))
    BY <1>10 DEF EndCallStmt
  <2>2. syntax[j].n = "CallStmt"
    BY <1>2, <1>3, <2>1 DEF WaitsAt
  <2>3. (Len(syntax) + 1) - 1 = Len(syntax)
    BY DEF IInv, TypeOK
  <2>4. Fits(syntax, j, Len(syntax) + 1, types[1])
    BY <2>1, <2>2, <2>3 DEF Fits, Last
  <2>. QED  BY <1>4, <1>6, <2>1, <2>4, EndExpTyped
<1>11. CASE EndReturn /\ ~ TypeError
  <2>1. /\ ExpDone("ReturnExp") /\ EndExp(Front(frames))
        /\ types[1] = syntax[frames[1].node].def.ret
    BY <1>11 DEF EndReturn
  <2>2. Fits(syntax, j, Len(syntax) + 1, types[1])
    BY <1>3, <2>1, ReturnFits
  <2>. QED  BY <1>4, <1>6, <2>1, <2>2, EndExpTyped
<1>12. CASE EndDeclInit /\ ~ TypeError
  <2>1. ExpDone("DeclInit") /\ EndExp(Front(frames)) /\ types[1] = syntax[j].type
    BY <1>12 DEF EndDeclInit
  <2>2. syntax[j].n = "Decl"
    BY <1>2, <1>3, <2>1 DEF WaitsAt
  <2>3. Fits(syntax, j, Len(syntax) + 1, types[1])
    BY <2>1, <2>2 DEF Fits
  <2>. QED  BY <1>4, <1>6, <2>1, <2>3, EndExpTyped
<1>. QED  BY <1>8, <1>9, <1>10, <1>11, <1>12, TypeErrorTyped

(* An assigned value has the type of the variable that is linked.          *)
LEMMA EndAssignTyped == ASSUME IInv, LexInv, TypingInv, EndAssign PROVE TypingInv'
<1>. DEFINE k == Last(frames).node
            x == syntax[k].name
            d == Find(x)
            node == [syntax[k] EXCEPT !.decl = d]
            old == [syntax EXCEPT ![k] = node]
            prog == Append(old, Mark("EndExp"))
            L == Len(syntax)
<1>1. frames # <<>> /\ Last(frames).pc = "AssignExp" /\ At(frames, ExpPoints) /\ Len(types) = 1
  BY DEF EndAssign, ExpDone, At, ExpPoints
<1>2. /\ syntax \in Seq(Nodes) /\ L \in Nat /\ frames \in Seq(Frames) /\ TypeOK
      /\ FramesShape(frames) /\ DOMAIN syntax = 1 .. L
  BY <1>1, ActiveFunction DEF IInv
<1>3. k \in 1 .. L /\ syntax[k].n = "Assign" /\ syntax[k] \in Nodes
  <2>1. NodeAt(syntax, k, "Assign")
    BY <1>1, LastFrame DEF IInv, TypeOK, FramesOK
  <2>. QED  BY <1>2, <2>1 DEF NodeAt
<1>4. CASE TypeError
  BY <1>4, TypeErrorTyped
<1>5. CASE ~ TypeError
  <2>1. /\ Visible(x) /\ d.type = types[1] /\ syntax' = prog /\ frames' = Front(frames)
        /\ types' = <<>> /\ status' = status
    BY <1>5 DEF EndAssign
  <2>2. d \in VarDecls
    BY <1>2, <2>1, FindType
  <2>3. node \in Nodes /\ node.n = "Assign" /\ node.decl = d
    <3>. HIDE DEF d, k
    <3>1. syntax[k] \in [n : {"Assign"}, name : VarNames, decl : VarDecls \cup {Null}]
      BY <1>3 DEF Nodes, Marks
    <3>. QED  BY <1>3, <2>2, <3>1, NodeFields
  <2>. HIDE DEF node, d
  <2>4. /\ old \in Seq(Nodes) /\ Len(old) = L /\ DOMAIN old = 1 .. L /\ old[k] = node
        /\ \A i \in 1 .. L : i # k => old[i] = syntax[i]
    BY <1>2, <1>3, <2>3
  <2>. HIDE DEF old
  <2>5. Mark("EndExp") \in Nodes /\ Mark("EndExp").n = "EndExp"
    BY NodeTypes DEF Marks
  <2>6. /\ prog \in Seq(Nodes) /\ Len(prog) = L + 1 /\ prog[L + 1].n = "EndExp"
        /\ \A i \in 1 .. L : prog[i] = old[i]
    BY <2>4, <2>5, TextGrows
  <2>. HIDE DEF prog
  <2>7. prog[k] = node /\ \A i \in 1 .. L : i # k => prog[i] = syntax[i]
    BY <1>3, <2>4, <2>6
  <2>. HIDE DEF k, L
  <2>8. Fits(prog, k, Len(syntax) + 1, types[1])
    BY <2>1, <2>3, <2>7 DEF Fits
  <2>9. \A m \in 1 .. L : /\ prog[m].n = syntax[m].n
                          /\ m # k \/ syntax[m].n # "Assign" => prog[m] = syntax[m]
    BY <1>3, <2>3, <2>7
  <2>10. ~ At(frames', ExpPoints)
    BY <1>1, <1>2, <2>1, ShapeFront
  <2>. QED  BY <1>1, <2>1, <2>6, <2>8, <2>9, <2>10, EndTyped DEF k, L
<1>. QED  BY <1>4, <1>5

(* A function definition.                                                  *)
LEMMA CheckFunctionTyped ==
  ASSUME IInv, LexInv, TypingInv, NEW def \in FuncDefs, CheckFunction(def)
  PROVE  TypingInv'
<1>. DEFINE node == [n |-> "Func", def |-> def]
<1>1. CASE TypeError
  BY <1>1, TypeErrorTyped
<1>2. CASE ~ TypeError
  <2>1. /\ syntax' = Append(syntax, node) /\ types' = types /\ status' = status
        /\ ~ At(frames, ExpPoints) /\ ~ At(frames', ExpPoints)
    BY <1>2 DEF CheckFunction, At, ExpPoints, Last
  <2>2. node \in Nodes /\ node.n \notin ExpNodes \cup {"EndExp"}
    BY NodeTypes DEF ExpNodes
  <2>. HIDE DEF node
  <2>. QED  BY <2>1, <2>2, NoExpTyped
<1>. QED  BY <1>1, <1>2

(* Nothing is visited at first.                                            *)
LEMMA InitTyping == ASSUME Init PROVE TypingInv
<1>1. <<>> \in Seq(Types)
  OBVIOUS
<1>2. Typing(<<>>, [k \in 1 .. 1 |-> <<>>])
  BY <1>1 DEF Typing
<1>3. TypedBy(<<>>, <<>>)
  BY <1>2 DEF TypedBy
<1>. QED  BY <1>3 DEF Init, TypingInv, OwnerWaits, At

(* Every step keeps the types.                                             *)
LEMMA NextTyping ==
  ASSUME IInv, LexInv, TypingInv, AnyNext
  PROVE  TypingInv'
<1>1. CASE \E def \in FuncDefs : CheckFunction(def)
  BY <1>1, CheckFunctionTyped
<1>2. CASE VisitStmt
  <2>1. ASSUME VisitCallStmt \/ VisitReturn \/ VisitWhile PROVE TypingInv'
    BY <2>1, NodeTypes, VisitExpOfTyped
    DEF VisitCallStmt, VisitReturn, VisitWhile, Marks, WaitsAt
  <2>2. ASSUME NEW x \in VarNames, VisitAssign(x) PROVE TypingInv'
    BY <2>2, NodeTypes, VisitExpOfTyped DEF VisitAssign, WaitsAt
  <2>3. ASSUME NEW else \in BOOLEAN, VisitIf(else) PROVE TypingInv'
    BY <2>3, NodeTypes, VisitExpOfTyped DEF VisitIf, WaitsAt
  <2>. QED  BY <1>2, <2>1, <2>2, <2>3, VisitSeqTyped, VisitDeclTyped DEF VisitStmt
<1>3. CASE EndVisit
  BY <1>3, EndStmtsTyped, EndExpsTyped, EndAssignTyped DEF EndVisit
<1>4. CASE Finish \/ UNCHANGED vars
  <2>1. UNCHANGED <<syntax, types, frames>> /\ (status' = status \/ status = "running")
    BY <1>4 DEF Finish, vars
  <2>. QED  BY <2>1 DEF TypingInv
<1>. QED  BY <1>1, <1>2, <1>3, <1>4, VisitExpTyped, TypeErrorTyped DEF AnyNext

(* It holds again when Typecheck starts afresh after a success.            *)
LEMMA AfreshTyping ==
  ASSUME TypingInv, OkAtEnd, status = "ok",
         syntax' = <<>>, status' = "running", UNCHANGED <<frames, types>>
  PROVE  TypingInv'
<1>1. frames = <<>> /\ types = <<>>
  BY DEF OkAtEnd, TypingInv, At
<1>2. <<>> \in Seq(Types)
  OBVIOUS
<1>3. Typing(<<>>, [k \in 1 .. 1 |-> <<>>])
  BY <1>2 DEF Typing
<1>4. TypedBy(<<>>, <<>>)
  BY <1>3 DEF TypedBy
<1>. QED  BY <1>1, <1>4 DEF TypingInv, OwnerWaits, At

(* A program that typechecks has types that fit together, at every node.   *)
WellTypedWhenDone == status = "ok" => TypedBy(syntax, <<>>)

(* When the whole program is visited, no type is pending.                  *)
LEMMA TypedWhenDone == ASSUME TypingInv, OkAtEnd PROVE WellTypedWhenDone
  BY DEF TypingInv, OkAtEnd, WellTypedWhenDone, At

(* Whatever tree the Visit functions are given, a program that typechecks  *)
(* has types that fit together at every node (Typechecker.cpp:84-134, 175, *)
(* 201, 212): a value that a variable is initialised with or assigned has  *)
(* the type of the variable, a returned one the type of the function       *)
(* around it, and the arguments of a call have the types of the parameters *)
(* of the overload that it was linked to.                                  *)
THEOREM ProgramsAreTyped == Spec => []WellTypedWhenDone
  BY TypedWhenDone, InitInv, NextIsAny, Inductive, InitLex, NextLex, InitOk, OkIsLast,
     InitTyping, NextTyping, PTL DEF Spec
=============================================================================
