--------------------------- MODULE VerifierProofs ---------------------------
(***************************************************************************)
(* Proofs about Codegen, for every set of programs: on a program that has  *)
(* a typing, as the typechecker promises, the operands of the instructions *)
(* have the types that the instructions take (OperandsAreTyped), although  *)
(* the code generator checks no type; the verifier accepts exactly the     *)
(* functions whose source is clean (VerifiedIffClean); and the blocks of a *)
(* function without a way in are its entry and the joins of ifs both of    *)
(* whose branches return (BlocksAreConnected).                             *)
(*                                                                         *)
(* While a function is generated, two facts of its blocks are those of the *)
(* nodes that have been visited: a terminator is not the last of its block *)
(* if, and only if, a return has been followed by more code (Bad), and the *)
(* current block has a terminator if, and only if, the last code is that   *)
(* of a return (Dead).  The blocks that an if or while will go to are      *)
(* empty until then, so that nothing else can be cut off.                  *)
(*                                                                         *)
(* BlocksAreConnected says which else is that of an if by counting marks   *)
(* over the nodes; the code generator finds it by its call stack.  What    *)
(* lies between the marks of an active Visit function is complete          *)
(* (Closed), so the two agree.                                             *)
(***************************************************************************)
EXTENDS CodegenProofs, Typing, WellFoundedInduction

-----------------------------------------------------------------------------
(* Operands                                                                *)

\* Only the innermost Visit function waits for an expression, which is all
\* there is between its statement and node k.
WaitsOK(prog, fs, k) ==
  \A i \in DOMAIN fs : fs[i].pc \in ExpPoints =>
    /\ i = Len(fs)
    /\ HasExp(prog, fs[i].node, k) /\ WaitsAt[prog[fs[i].node].n] = fs[i].pc

\* No Visit function waits for an expression.
NoneWaits(fs) == \A i \in DOMAIN fs : fs[i].pc \notin ExpPoints

\* The instructions of the blocks of a function that returns ret.
AllTyped(bs, ret) ==
  \A b \in DOMAIN bs : \A i \in DOMAIN bs[b] : WellTyped(bs[b][i], ret, syntax)

RetOf(f) == syntax[f].def.ret

\* The values not yet consumed have the types that the typing says, and all
\* that has been generated is typed.
StackOK(st) ==
  /\ values = ConvertTypes(st[cursor])
  /\ frames # <<>> => AllTyped(blocks, RetOf(frames[1].node))

OperandInv ==
  /\ cursor <= Len(syntax) + 1
  /\ WaitsOK(syntax, frames, cursor)
  /\ OperatorCallsAreBuiltin =>
       \A st : Typing(syntax, st) => StackOK(st) /\ OperandsAreTyped

-----------------------------------------------------------------------------
(* Types                                                                   *)

LEMMA ConvertEmpty == ConvertTypes(<<>>) = <<>>
  BY DEF ConvertTypes

(* As many IR types as types.                                              *)
LEMMA ConvertSeq ==
  ASSUME NEW ts \in Seq(Types)
  PROVE  ConvertTypes(ts) \in Seq(IRTypes) /\ Len(ConvertTypes(ts)) = Len(ts)
<1>1. ConvertTypes(ts) \in [1 .. Len(ts) -> IRTypes] /\ Len(ts) \in Nat
  BY ConvertTypeType DEF ConvertTypes
<1>2. ConvertTypes(ts) \in Seq(IRTypes)
  BY <1>1, SeqDef
<1>. QED  BY <1>1, <1>2

(* One more type.                                                          *)
LEMMA ConvertAppend ==
  ASSUME NEW ts \in Seq(Types), NEW t \in Types
  PROVE  ConvertTypes(Append(ts, t)) = Append(ConvertTypes(ts), ConvertType(t))
<1>1. Append(ts, t) \in Seq(Types) /\ Len(Append(ts, t)) = Len(ts) + 1 /\ Len(ts) \in Nat
  OBVIOUS
<1>2. /\ ConvertTypes(Append(ts, t)) \in Seq(IRTypes)
      /\ Len(ConvertTypes(Append(ts, t))) = Len(ts) + 1
      /\ ConvertTypes(ts) \in Seq(IRTypes) /\ Len(ConvertTypes(ts)) = Len(ts)
  BY <1>1, ConvertSeq
<1>3. /\ Append(ConvertTypes(ts), ConvertType(t)) \in Seq(IRTypes)
      /\ Len(Append(ConvertTypes(ts), ConvertType(t))) = Len(ts) + 1
  BY <1>2, ConvertTypeType
<1>4. ASSUME NEW i \in 1 .. Len(ts) + 1
      PROVE  ConvertTypes(Append(ts, t))[i] = Append(ConvertTypes(ts), ConvertType(t))[i]
  <2>1. ConvertTypes(Append(ts, t))[i] = ConvertType(Append(ts, t)[i])
    BY <1>1 DEF ConvertTypes
  <2>2. CASE i \in 1 .. Len(ts)
    <3>1. Append(ts, t)[i] = ts[i] /\ ConvertTypes(ts)[i] = ConvertType(ts[i])
      BY <2>2 DEF ConvertTypes
    <3>2. Append(ConvertTypes(ts), ConvertType(t))[i] = ConvertTypes(ts)[i]
      BY <1>2, <2>2
    <3>. QED  BY <2>1, <3>1, <3>2
  <2>3. CASE i = Len(ts) + 1
    <3>1. Append(ts, t)[i] = t
      BY <1>1, <2>3
    <3>2. Append(ConvertTypes(ts), ConvertType(t))[i] = ConvertType(t)
      BY <1>2, <2>3
    <3>. QED  BY <2>1, <3>1, <3>2
  <2>4. i \in 1 .. Len(ts) \/ i = Len(ts) + 1
    BY <1>1
  <2>. QED  BY <2>2, <2>3, <2>4
<1>. HIDE DEF ConvertTypes
<1>. QED  BY <1>2, <1>3, <1>4, SeqEqual

(* The values of the arguments of a call, and those below them.            *)
LEMMA ConvertSplit ==
  ASSUME NEW rest \in Seq(Types), NEW ps \in Seq(Types)
  PROVE  LET vals == ConvertTypes(rest \o ps) IN
         /\ vals \in Seq(IRTypes) /\ Len(vals) = Len(rest) + Len(ps)
         /\ SubSeq(vals, 1, Len(rest)) = ConvertTypes(rest)
         /\ SubSeq(vals, Len(rest) + 1, Len(vals)) = ConvertTypes(ps)
<1>. DEFINE both == rest \o ps  vals == ConvertTypes(both)  n == Len(rest)  m == Len(ps)
<1>1. /\ both \in Seq(Types) /\ n \in Nat /\ m \in Nat /\ Len(both) = n + m
      /\ \A i \in 1 .. n : both[i] = rest[i]
      /\ \A i \in 1 .. m : both[n + i] = ps[i]
  BY ConcatProperties
<1>2. /\ vals \in Seq(IRTypes) /\ Len(vals) = n + m
      /\ ConvertTypes(rest) \in Seq(IRTypes) /\ Len(ConvertTypes(rest)) = n
      /\ ConvertTypes(ps) \in Seq(IRTypes) /\ Len(ConvertTypes(ps)) = m
  BY <1>1, ConvertSeq
<1>3. /\ \A i \in 1 .. n : vals[i] = ConvertTypes(rest)[i]
      /\ \A i \in 1 .. m : vals[n + i] = ConvertTypes(ps)[i]
  <2>1. /\ \A i \in 1 .. n + m : vals[i] = ConvertType(both[i])
        /\ \A i \in 1 .. n : ConvertTypes(rest)[i] = ConvertType(rest[i])
        /\ \A i \in 1 .. m : ConvertTypes(ps)[i] = ConvertType(ps[i])
    <3>. HIDE DEF both
    <3>. QED  BY <1>1 DEF ConvertTypes
  <2>2. \A i \in 1 .. n : i \in 1 .. n + m
    BY <1>1
  <2>3. \A i \in 1 .. m : n + i \in 1 .. n + m
    BY <1>1
  <2>. HIDE DEF vals, both, n, m
  <2>. QED  BY <1>1, <2>1, <2>2, <2>3
<1>. HIDE DEF vals, both, n, m
<1>4. /\ SubSeq(vals, 1, n) \in Seq(IRTypes) /\ Len(SubSeq(vals, 1, n)) = n
      /\ \A i \in 1 .. n : SubSeq(vals, 1, n)[i] = vals[i]
  BY <1>1, <1>2
<1>5. /\ SubSeq(vals, n + 1, n + m) \in Seq(IRTypes) /\ Len(SubSeq(vals, n + 1, n + m)) = m
      /\ \A i \in 1 .. m : SubSeq(vals, n + 1, n + m)[i] = vals[n + i]
  BY <1>1, <1>2
<1>6. SubSeq(vals, 1, n) = ConvertTypes(rest)
  <2>. HIDE DEF ConvertTypes
  <2>. QED  BY <1>2, <1>3, <1>4, SeqEqual
<1>7. SubSeq(vals, n + 1, n + m) = ConvertTypes(ps)
  <2>. HIDE DEF ConvertTypes
  <2>. QED  BY <1>2, <1>3, <1>5, SeqEqual
<1>. QED  BY <1>2, <1>6, <1>7 DEF vals, both, n, m

(* The types of the parameters of a function.                              *)
LEMMA ParamTypesSeq ==
  ASSUME NEW def \in FuncDefs
  PROVE  /\ ParamTypes(def) \in Seq(Types) /\ Len(ParamTypes(def)) = Len(def.params)
         /\ def.ret \in Types
<1>1. def.params \in Seq(Params) /\ def.ret \in Types
  BY DEF FuncDefs
<1>2. ParamTypes(def) \in [1 .. Len(def.params) -> Types] /\ Len(def.params) \in Nat
  <2>1. DOMAIN def.params = 1 .. Len(def.params) /\ Len(def.params) \in Nat
    BY <1>1
  <2>2. \A i \in DOMAIN def.params : def.params[i].type \in Types
    <3>1. \A i \in DOMAIN def.params : def.params[i] \in Params
      BY <1>1
    <3>. QED  BY <3>1 DEF Params
  <2>3. ParamTypes(def) = [i \in 1 .. Len(def.params) |-> def.params[i].type]
    BY <2>1 DEF ParamTypes
  <2>. QED  BY <2>1, <2>2, <2>3
<1>3. ParamTypes(def) \in Seq(Types)
  BY <1>2, SeqDef
<1>. QED  BY <1>1, <1>2, <1>3

-----------------------------------------------------------------------------
(* Builtin operators                                                       *)

LEMMA BuiltinFields ==
  ASSUME NEW name, NEW ret, NEW types \in Seq(Types)
  PROVE  LET b == Builtin(name, ret, types)
         IN  b.name = name /\ b.ret = ret /\ ParamTypes(b) = types
<1>. DEFINE b == Builtin(name, ret, types)
<1>1. /\ b.name = name /\ b.ret = ret /\ DOMAIN b.params = DOMAIN types
      /\ \A i \in DOMAIN types : b.params[i].type = types[i]
  BY DEF Builtin
<1>. HIDE DEF b
<1>2. ParamTypes(b) = [i \in DOMAIN types |-> types[i]]
  BY <1>1 DEF ParamTypes
<1>. QED  BY <1>1, <1>2 DEF b

\* What a builtin is, as far as code generation is concerned.
IsBuiltin(name, types, ret) ==
  \/ name \in Arith /\ types = II /\ ret = "int"
  \/ name \in Compare /\ types = II /\ ret = "bool"
  \/ name \in {"==", "!="} /\ types = BB /\ ret = "bool"
  \/ name \in {"&&", "||"} /\ types = BB /\ ret = "bool"
  \/ name = "!" /\ types = <<"bool">> /\ ret = "bool"
  \/ name = "-" /\ types = <<"int">> /\ ret = "int"
  \/ name = "bool" /\ types = <<"int">> /\ ret = "bool"
  \/ name = "int" /\ types = <<"bool">> /\ ret = "int"

(* A call of an operator emits the instruction of that operator.           *)
LEMMA BuiltinCases ==
  ASSUME NEW i \in DOMAIN GetBuiltins
  PROVE  IsBuiltin(GetBuiltins[i].name, ParamTypes(GetBuiltins[i]), GetBuiltins[i].ret)
<1>. DEFINE Good(b) == IsBuiltin(b.name, ParamTypes(b), b.ret)
<1>1. /\ II \in Seq(Types) /\ BB \in Seq(Types)
      /\ <<"bool">> \in Seq(Types) /\ <<"int">> \in Seq(Types)
  BY DEF II, BB, Types
<1>2. ASSUME NEW name, NEW ret, NEW types \in Seq(Types), IsBuiltin(name, types, ret)
      PROVE  Good(Builtin(name, ret, types))
  BY <1>2, BuiltinFields
<1>. HIDE DEF Good
<1>3. /\ \A name \in Arith : Good(Builtin(name, "int", II))
      /\ \A name \in Compare : Good(Builtin(name, "bool", II))
      /\ \A name \in {"==", "!=", "&&", "||"} : Good(Builtin(name, "bool", BB))
      /\ Good(Builtin("!", "bool", <<"bool">>)) /\ Good(Builtin("-", "int", <<"int">>))
      /\ Good(Builtin("bool", "bool", <<"int">>)) /\ Good(Builtin("int", "int", <<"bool">>))
  BY <1>1, <1>2 DEF IsBuiltin
<1>4. i \in 1 .. 19
  BY DEF GetBuiltins
<1>5. Good(GetBuiltins[i])
  <2>1. CASE i \in 1 .. 5
    BY <1>3, <2>1 DEF GetBuiltins, Arith
  <2>2. CASE i \in {6, 7, 10, 11, 12, 13}
    BY <1>3, <2>2 DEF GetBuiltins, Compare
  <2>3. CASE i \in {8, 9, 16, 17}
    BY <1>3, <2>3 DEF GetBuiltins
  <2>4. CASE i \in {14, 15, 18, 19}
    BY <1>3, <2>4 DEF GetBuiltins
  <2>. QED  BY <1>4, <2>1, <2>2, <2>3, <2>4
<1>. QED  BY <1>5 DEF Good

(* The fields that the verifier looks at.                                  *)
LEMMA InstrFields ==
  /\ \A op, ops : Instr(op, ops).op = op /\ Instr(op, ops).ops = ops
  /\ \A op, ops, to : Jump(op, ops, to).op = op /\ Jump(op, ops, to).ops = ops
  /\ \A op, ops, of : /\ Access(op, ops, of).op = op /\ Access(op, ops, of).ops = ops
                      /\ Access(op, ops, of).ref = of
  /\ \A ops, def : /\ Call(ops, def).op = "call" /\ Call(ops, def).ops = ops
                   /\ Call(ops, def).callee = def
  BY DEF Instr, Jump, Access, Call

(* The instruction of a builtin takes operands of the types of its         *)
(* parameters, and its value has the type that the builtin returns.        *)
LEMMA BuiltinTyped ==
  ASSUME NEW name, NEW types, NEW ret, IsBuiltin(name, types, ret), NEW fret
  PROVE  /\ WellTyped(BuiltinInstr(name, ConvertTypes(types)), fret, syntax)
         /\ BuiltinType(name, ConvertTypes(types)) = ConvertType(ret)
         /\ Len(types) >= MinArgs(name)
         /\ ~ (name = "int" /\ ConvertTypes(types)[1] = "i32")
<1>1. /\ ConvertTypes(II) = <<"i32", "i32">> /\ ConvertTypes(BB) = <<"i1", "i1">>
      /\ ConvertTypes(<<"bool">>) = <<"i1">> /\ ConvertTypes(<<"int">>) = <<"i32">>
      /\ ConvertType("int") = "i32" /\ ConvertType("bool") = "i1"
  <2>1. ConvertType("int") = "i32" /\ ConvertType("bool") = "i1"
    BY DEF ConvertType
  <2>2. \A s, t : /\ ConvertTypes(<<s, t>>) = <<ConvertType(s), ConvertType(t)>>
                  /\ ConvertTypes(<<s>>) = <<ConvertType(s)>>
    BY DEF ConvertTypes
  <2>. QED  BY <2>1, <2>2 DEF II, BB
<1>2. /\ Len(<<"i32", "i32">>) = 2 /\ Len(<<"i1", "i1">>) = 2 /\ Len(<<"i1">>) = 1 /\ Len(<<"i32">>) = 1
      /\ Len(II) = 2 /\ Len(BB) = 2
  BY DEF II, BB
<1>. HIDE DEF ConvertTypes, ConvertType
<1>. DEFINE Typed(args) == WellTyped(BuiltinInstr(name, args), fret, syntax)
            Goal == /\ Typed(ConvertTypes(types))
                    /\ BuiltinType(name, ConvertTypes(types)) = ConvertType(ret)
                    /\ Len(types) >= MinArgs(name)
                    /\ ~ (name = "int" /\ ConvertTypes(types)[1] = "i32")
<1>. SUFFICES Goal
  OBVIOUS
<1>3. CASE name \in Arith /\ ret = "int" /\ (types = II \/ (types = <<"int">> /\ name = "-"))
  <2>. DEFINE args == ConvertTypes(types)
  <2>1. args \in {<<"i32", "i32">>, <<"i32">>} /\ args[1] = "i32" /\ args[Len(args)] = "i32"
    BY <1>1, <1>2, <1>3
  <2>. HIDE DEF args
  <2>2. Typed(args)
    <3>1. BuiltinInstr(name, args) = Instr("binary", <<args[1], args[Len(args)]>>)
      BY <1>3 DEF BuiltinInstr, Arith, Compare
    <3>2. BuiltinInstr(name, args).op = "binary" /\ BuiltinInstr(name, args).ops = <<"i32", "i32">>
      BY <2>1, <3>1, InstrFields
    <3>. QED  BY <3>2 DEF WellTyped
  <2>3. BuiltinType(name, args) = "i32"
    BY <1>3, <2>1 DEF BuiltinType, Arith
  <2>4. Len(types) >= MinArgs(name) /\ name # "int"
    BY <1>2, <1>3 DEF MinArgs, Arith, InfixOps
  <2>. HIDE DEF Typed
  <2>5. ConvertType(ret) = "i32"
    BY <1>1, <1>3
  <2>. QED  BY <2>2, <2>3, <2>4, <2>5 DEF args
<1>4. CASE name \in Compare /\ (types = II \/ types = BB) /\ ret = "bool"
  <2>. DEFINE args == ConvertTypes(types)
  <2>1. args[1] = args[2]
    BY <1>1, <1>2, <1>4
  <2>. HIDE DEF args
  <2>2. name \notin Arith /\ name \notin {"int", "&&", "!", "bool"} /\ MinArgs(name) \in {1, 2}
    BY <1>4 DEF Compare, Arith, MinArgs
  <2>3. Typed(args)
    <3>1. BuiltinInstr(name, args) = Instr("icmp", <<args[1], args[2]>>)
      BY <1>4 DEF BuiltinInstr, Arith, Compare
    <3>2. /\ BuiltinInstr(name, args).op = "icmp"
          /\ BuiltinInstr(name, args).ops = <<args[1], args[2]>>
      BY <3>1, InstrFields
    <3>. QED  BY <2>1, <3>2 DEF WellTyped
  <2>4. BuiltinType(name, args) = "i1"
    BY <1>4, <2>2 DEF BuiltinType
  <2>5. Len(types) = 2
    BY <1>2, <1>4
  <2>. QED  BY <1>1, <1>4, <2>2, <2>3, <2>4, <2>5 DEF args
<1>5. CASE name \in {"&&", "||"} /\ types = BB /\ ret = "bool"
  <2>1. Typed(<<"i1", "i1">>)
    BY <1>5, InstrFields DEF WellTyped, BuiltinInstr, Arith, Compare, Terminators
  <2>2. BuiltinType(name, <<"i1", "i1">>) = "i1"
    BY <1>5 DEF BuiltinType, Arith
  <2>3. MinArgs(name) \in {1, 2}
    BY DEF MinArgs
  <2>. QED  BY <1>1, <1>2, <1>5, <2>1, <2>2, <2>3
<1>6. CASE name = "!" /\ types = <<"bool">> /\ ret = "bool"
  <2>1. Typed(<<"i1">>)
    BY <1>6, InstrFields DEF WellTyped, BuiltinInstr, Arith, Compare
  <2>2. BuiltinType(name, <<"i1">>) = "i1" /\ MinArgs(name) = 1
    BY <1>6 DEF BuiltinType, Arith, MinArgs, InfixOps
  <2>. QED  BY <1>1, <1>6, <2>1, <2>2
<1>7. CASE name = "bool" /\ types = <<"int">> /\ ret = "bool"
  <2>1. Typed(<<"i32">>)
    BY <1>7, InstrFields DEF WellTyped, BuiltinInstr, Arith, Compare
  <2>2. BuiltinType(name, <<"i32">>) = "i1" /\ MinArgs(name) = 1
    BY <1>7 DEF BuiltinType, Arith, MinArgs, InfixOps
  <2>. QED  BY <1>1, <1>7, <2>1, <2>2
<1>8. CASE name = "int" /\ types = <<"bool">> /\ ret = "int"
  <2>1. Typed(<<"i1">>)
    BY <1>8, InstrFields DEF WellTyped, BuiltinInstr, Arith, Compare
  <2>2. BuiltinType(name, <<"i1">>) = "i32" /\ MinArgs(name) = 1
    BY <1>8 DEF BuiltinType, Arith, MinArgs, InfixOps
  <2>. QED  BY <1>1, <1>8, <2>1, <2>2
<1>9. "-" \in Arith /\ {"==", "!="} \subseteq Compare
  BY DEF Arith, Compare
<1>10. name = "-" => name \in Arith
  BY <1>9
<1>11. name \in {"==", "!="} => name \in Compare
  BY <1>9
<1>. HIDE DEF Goal
<1>. QED  BY <1>3, <1>4, <1>5, <1>6, <1>7, <1>8, <1>10, <1>11, Zenon DEF IsBuiltin

-----------------------------------------------------------------------------
(* Blocks                                                                  *)

(* The positions of a sequence and of what is appended to it.              *)
LEMMA Appended ==
  ASSUME NEW old \in Seq(Instrs), NEW new \in Seq(Instrs)
  PROVE  /\ Len(old) \in Nat
         /\ \A i \in DOMAIN (old \o new) :
              \/ i \in DOMAIN old /\ (old \o new)[i] = old[i]
              \/ /\ i \in Len(old) + 1 .. Len(old) + Len(new) /\ i - Len(old) \in DOMAIN new
                 /\ (old \o new)[i] = new[i - Len(old)]
<1>1. /\ DOMAIN old = 1 .. Len(old) /\ DOMAIN new = 1 .. Len(new)
      /\ DOMAIN (old \o new) = 1 .. Len(old) + Len(new)
      /\ Len(old) \in Nat /\ Len(new) \in Nat
      /\ \A i \in 1 .. Len(old) + Len(new) :
           (old \o new)[i] = IF i <= Len(old) THEN old[i] ELSE new[i - Len(old)]
  BY ConcatProperties
<1>2. ASSUME NEW i \in 1 .. Len(old) + Len(new), i \notin 1 .. Len(old)
      PROVE  /\ i - Len(old) \in 1 .. Len(new) /\ (old \o new)[i] = new[i - Len(old)]
             /\ i \in Len(old) + 1 .. Len(old) + Len(new)
  BY <1>1, <1>2
<1>3. \A i \in 1 .. Len(old) : i <= Len(old) /\ i \in 1 .. Len(old) + Len(new)
  BY <1>1
<1>. QED  BY <1>1, <1>2, <1>3

(* Typed instructions are appended to typed ones.                          *)
LEMMA PutTyped ==
  ASSUME blocks \in Seq(Blocks), insert \in DOMAIN blocks, NEW new \in Seq(Instrs), NEW ret,
         AllTyped(blocks, ret), \A i \in DOMAIN new : WellTyped(new[i], ret, syntax)
  PROVE  AllTyped(Put(new), ret)
<1>. DEFINE put == Put(new)  old == blocks[insert]
<1>1. /\ DOMAIN put = DOMAIN blocks /\ put[insert] = old \o new
      /\ \A b \in DOMAIN blocks : b # insert => put[b] = blocks[b]
  BY PutType
<1>0. old \in Seq(Instrs)
  BY DEF Blocks
<1>. HIDE DEF put, old
<1>2. ASSUME NEW i \in DOMAIN (old \o new) PROVE WellTyped((old \o new)[i], ret, syntax)
  <2>1. \A j \in DOMAIN old : WellTyped(old[j], ret, syntax)
    BY DEF AllTyped, old
  <2>. QED  BY <1>0, <2>1, Appended
<1>3. ASSUME NEW b \in DOMAIN put, NEW i \in DOMAIN put[b] PROVE WellTyped(put[b][i], ret, syntax)
  BY <1>1, <1>2, <1>3 DEF AllTyped
<1>. QED  BY <1>3 DEF AllTyped, put

(* Allocations have no operands.                                           *)
LEMMA AllocaTyped ==
  ASSUME blocks \in Seq(Blocks), NEW d \in VarDecls, NEW ret, AllTyped(blocks, ret), blocks # <<>>
  PROVE  AllTyped([blocks EXCEPT ![1] = <<Access("alloca", <<>>, d)>> \o @], ret)
<1>. DEFINE i == Access("alloca", <<>>, d)  old == blocks[1]
            bs == [blocks EXCEPT ![1] = <<i>> \o old]
<1>1. i \in Instrs /\ WellTyped(i, ret, syntax)
  BY SomeInstrs, InstrFields DEF WellTyped
<1>2. /\ old \in Seq(Instrs) /\ <<i>> \in Seq(Instrs) /\ DOMAIN bs = DOMAIN blocks
      /\ bs[1] = <<i>> \o old /\ \A b \in DOMAIN blocks : b # 1 => bs[b] = blocks[b]
  BY <1>1 DEF Blocks
<1>. HIDE DEF i, bs, old
<1>3. ASSUME NEW j \in DOMAIN (<<i>> \o old) PROVE WellTyped((<<i>> \o old)[j], ret, syntax)
  <2>1. \A k \in DOMAIN old : WellTyped(old[k], ret, syntax)
    BY DEF AllTyped, old
  <2>2. \A k \in DOMAIN <<i>> : WellTyped(<<i>>[k], ret, syntax)
    BY <1>1
  <2>. DEFINE one == <<i>>
  <2>. HIDE DEF one
  <2>. QED  BY <1>2, <2>1, <2>2, Appended DEF one
<1>4. ASSUME NEW b \in DOMAIN bs, NEW j \in DOMAIN bs[b] PROVE WellTyped(bs[b][j], ret, syntax)
  BY <1>2, <1>3, <1>4 DEF AllTyped
<1>. QED  BY <1>4 DEF AllTyped, bs, i, old

(* New blocks are empty.                                                   *)
LEMMA NewBlocksTyped ==
  ASSUME NEW bs \in Seq(Blocks), NEW ret, AllTyped(bs, ret), NEW n \in Nat, NEW new \in [1 .. n -> {<<>>}]
  PROVE  AllTyped(bs \o new, ret)
<1>1. new \in Seq({<<>>}) /\ Len(new) = n
  <2>1. new \in Seq({<<>>})
    BY SeqDef
  <2>. QED  BY <2>1
<1>2. /\ DOMAIN (bs \o new) = 1 .. Len(bs) + n /\ Len(bs) \in Nat /\ DOMAIN bs = 1 .. Len(bs)
      /\ \A b \in 1 .. Len(bs) : (bs \o new)[b] = bs[b]
      /\ \A b \in Len(bs) + 1 .. Len(bs) + n : (bs \o new)[b] = <<>>
  BY <1>1
<1>. DEFINE cat == bs \o new
<1>3. \A b \in DOMAIN cat : (b \in DOMAIN bs /\ cat[b] = bs[b]) \/ cat[b] = <<>>
  <2>1. \A b \in 1 .. Len(bs) + n : b \in 1 .. Len(bs) \/ b \in Len(bs) + 1 .. Len(bs) + n
    BY <1>2
  <2>. QED  BY <1>2, <2>1
<1>. HIDE DEF cat
<1>4. AllTyped(cat, ret)
  BY <1>3 DEF AllTyped
<1>. QED  BY <1>4 DEF cat

-----------------------------------------------------------------------------
(* Frames                                                                  *)

LEMMA Positions ==
  ASSUME NEW n \in Nat
  PROVE  /\ \A i \in 1 .. n - 1 : i \in 1 .. n /\ i # n
         /\ \A i \in 1 .. n : i = n \/ i \in 1 .. n - 1
  OBVIOUS

(* Nothing is said when no Visit function waits for an expression.         *)
LEMMA NoneWaitsOK == ASSUME NEW prog, NEW fs, NEW k, NoneWaits(fs) PROVE WaitsOK(prog, fs, k)
  BY DEF NoneWaits, WaitsOK

(* The innermost Visit function returns, or goes on.                       *)
LEMMA WaitsMoved ==
  ASSUME NEW prog, NEW k, NEW fs \in Seq(Frames), fs # <<>>, WaitsOK(prog, fs, k)
  PROVE  /\ NoneWaits(Front(fs))
         /\ \A pc \in ControlPoints \ ExpPoints : NoneWaits(SetPc(fs, pc))
         /\ \A fr \in Frames : fr.pc \notin ExpPoints => NoneWaits([fs EXCEPT ![Len(fs)] = fr])
<1>1. Len(fs) \in Nat /\ Last(fs) \in Frames /\ DOMAIN fs = 1 .. Len(fs)
  BY LastFrame
<1>2. \A i \in 1 .. Len(fs) - 1 : fs[i].pc \notin ExpPoints
  <2>1. \A i \in 1 .. Len(fs) - 1 : i \in DOMAIN fs /\ i # Len(fs)
    BY <1>1, Positions
  <2>. QED  BY <2>1 DEF WaitsOK
<1>3. NoneWaits(Front(fs))
  <2>1. DOMAIN Front(fs) = 1 .. Len(fs) - 1
    BY <1>1, FrontFrames
  <2>. QED  BY <1>2, <2>1, FrontFrames DEF NoneWaits
<1>4. ASSUME NEW new \in Seq(Frames), Len(new) = Len(fs),
             \A i \in 1 .. Len(fs) - 1 : new[i] = fs[i], new[Len(fs)].pc \notin ExpPoints
      PROVE  NoneWaits(new)
  <2>1. \A i \in 1 .. Len(fs) : i = Len(fs) \/ i \in 1 .. Len(fs) - 1
    BY <1>1, Positions
  <2>2. DOMAIN new = 1 .. Len(fs)
    BY <1>4
  <2>. QED  BY <1>2, <1>4, <2>1, <2>2 DEF NoneWaits
<1>5. ASSUME NEW pc \in ControlPoints \ ExpPoints PROVE NoneWaits(SetPc(fs, pc))
  <2>1. [Last(fs) EXCEPT !.pc = pc].pc = pc
    BY <1>1 DEF Frames
  <2>. QED  BY <1>4, <2>1, SetPcFrames
<1>6. ASSUME NEW fr \in Frames, fr.pc \notin ExpPoints PROVE NoneWaits([fs EXCEPT ![Len(fs)] = fr])
  BY <1>4, <1>6, ReplacedFrames
<1>. QED  BY <1>3, <1>5, <1>6

(* A statement is visited.                                                 *)
LEMMA WaitsEntered ==
  ASSUME NEW prog, NEW k, NEW fs \in Seq(Frames), At(fs, StmtPoints), WaitsOK(prog, fs, k)
  PROVE  /\ NoneWaits(Resume(fs))
         /\ \A fr \in Frames, next \in Nat :
              (fr.pc \in ExpPoints =>
                 HasExp(prog, fr.node, next) /\ WaitsAt[prog[fr.node].n] = fr.pc)
              => WaitsOK(prog, Enter(fs, fr), next)
<1>1. NoneWaits(Resume(fs))
  <2>1. /\ fs # <<>> /\ Resume(fs) = SetPc(fs, After[Last(fs).pc])
        /\ After[Last(fs).pc] \in EndPoints \cup {"Seq"}
    BY ResumeFrames
  <2>2. EndPoints \cup {"Seq"} \subseteq ControlPoints \ ExpPoints
    BY DEF EndPoints, ControlPoints, ExpPoints, StmtPoints
  <2>. QED  BY <2>1, <2>2, WaitsMoved
<1>2. ASSUME NEW fr \in Frames, NEW next \in Nat,
             fr.pc \in ExpPoints =>
               HasExp(prog, fr.node, next) /\ WaitsAt[prog[fr.node].n] = fr.pc
      PROVE  WaitsOK(prog, Enter(fs, fr), next)
  <2>1. /\ Enter(fs, fr) \in Seq(Frames) /\ Len(Enter(fs, fr)) = Len(fs) + 1 /\ Len(fs) \in Nat
        /\ \A i \in 1 .. Len(fs) : Enter(fs, fr)[i] = Resume(fs)[i]
        /\ Enter(fs, fr)[Len(fs) + 1] = fr
        /\ DOMAIN Resume(fs) = 1 .. Len(fs)
    BY EnterFrames
  <2>2. \A i \in DOMAIN Enter(fs, fr) : i = Len(fs) + 1 \/ i \in 1 .. Len(fs)
    BY <2>1
  <2>3. \A i \in 1 .. Len(fs) : Resume(fs)[i].pc \notin ExpPoints
    BY <1>1, <2>1 DEF NoneWaits
  <2>. QED  BY <1>2, <2>1, <2>2, <2>3 DEF WaitsOK
<1>. QED  BY <1>1, <1>2

(* A node of the expression that is waited for.                            *)
LEMMA WaitsLonger ==
  ASSUME NEW prog, NEW k \in Nat, NEW fs, WaitsOK(prog, fs, k), prog[k].n \in ExpNodes
  PROVE  WaitsOK(prog, fs, k + 1)
<1>1. ASSUME NEW j, HasExp(prog, j, k) PROVE HasExp(prog, j, k + 1)
  <2>1. j \in 1 .. k - 1 /\ j \in 1 .. (k + 1) - 1
    BY <1>1 DEF HasExp
  <2>2. \A m \in j + 1 .. (k + 1) - 1 : m = k \/ m \in j + 1 .. k - 1
    BY <2>1
  <2>. QED  BY <1>1, <2>1, <2>2 DEF HasExp
<1>. QED  BY <1>1 DEF WaitsOK

-----------------------------------------------------------------------------
(* What a step leaves                                                      *)

(* The stacks before and behind the node that is visited.                  *)
LEMMA StackStep ==
  ASSUME TypeOK, cursor \in DOMAIN syntax, NEW st, Typing(syntax, st)
  PROVE  /\ TypeStep(syntax, cursor, st[cursor], st[cursor + 1])
         /\ st[cursor] \in Seq(Types) /\ st[cursor + 1] \in Seq(Types)
         /\ syntax[cursor].n \notin ExpNodes => st[cursor + 1] = <<>>
         /\ syntax[cursor].n \notin ExpNodes \cup {"EndExp"} => st[cursor] = <<>>
<1>1. cursor \in 1 .. Len(syntax) /\ Len(syntax) \in Nat
  BY DEF TypeOK
<1>2. cursor \in 1 .. Len(syntax) + 1 /\ cursor + 1 \in 1 .. Len(syntax) + 1
  BY <1>1
<1>3. /\ TypeStep(syntax, cursor, st[cursor], st[cursor + 1])
      /\ st[cursor] \in Seq(Types) /\ st[cursor + 1] \in Seq(Types)
  BY <1>1, <1>2 DEF Typing
<1>. QED  BY <1>3 DEF TypeStep, ExpNodes

(* An action on a node in a function.                                      *)
LEMMA OperandStep ==
  ASSUME TypeOK, OperandInv, frames # <<>>, cursor \in DOMAIN syntax,
         syntax' = syntax, cursor' = cursor + 1, module' = module,
         WaitsOK(syntax, frames', cursor + 1),
         frames' # <<>> => frames'[1].node = frames[1].node,
         OperatorCallsAreBuiltin =>
           \A st : Typing(syntax, st) /\ StackOK(st) =>
             /\ values' = ConvertTypes(st[cursor + 1])
             /\ AllTyped(blocks', RetOf(frames[1].node))
  PROVE  OperandInv'
<1>1. cursor + 1 <= Len(syntax) + 1
  BY DEF TypeOK
<1>2. ASSUME OperatorCallsAreBuiltin, NEW st, Typing(syntax, st)
      PROVE  StackOK(st)' /\ OperandsAreTyped'
  <2>1. StackOK(st) /\ OperandsAreTyped
    BY <1>2 DEF OperandInv
  <2>2. values' = ConvertTypes(st[cursor + 1]) /\ AllTyped(blocks', RetOf(frames[1].node))
    BY <1>2, <2>1
  <2>3. OperandsAreTyped'
    BY <2>1 DEF OperandsAreTyped, OperatorCallsAreBuiltin
  <2>. QED  BY <2>2, <2>3 DEF StackOK, AllTyped, RetOf
<1>3. OperatorCallsAreBuiltin' = OperatorCallsAreBuiltin
  BY DEF OperatorCallsAreBuiltin
<1>. QED  BY <1>1, <1>2, <1>3 DEF OperandInv

(* One on the node of a statement, which leaves the values as they are.    *)
LEMMA OperandStmt ==
  ASSUME TypeOK, OperandInv, frames # <<>>, cursor \in DOMAIN syntax,
         syntax[cursor].n \notin ExpNodes \cup {"EndExp"},
         syntax' = syntax, cursor' = cursor + 1, module' = module, values' = values,
         WaitsOK(syntax, frames', cursor + 1),
         frames' # <<>> => frames'[1].node = frames[1].node,
         \A ret : AllTyped(blocks, ret) => AllTyped(blocks', ret)
  PROVE  OperandInv'
  BY StackStep, OperandStep DEF StackOK

(* A failed assertion.                                                     *)
LEMMA OperandAbort == ASSUME OperandInv, Abort PROVE OperandInv'
  BY DEF OperandInv, Abort, WaitsOK, StackOK, AllTyped, RetOf, OperandsAreTyped, OperatorCallsAreBuiltin

-----------------------------------------------------------------------------
(* Statements                                                              *)

(* The new frame of a statement that waits for its expression.             *)
LEMMA WaitingFrame ==
  ASSUME cursor \in Nat \ {0}, NEW pc \in ControlPoints, NEW loop \in Nat,
         pc \in ExpPoints => syntax[cursor].n \in DOMAIN WaitsAt /\ WaitsAt[syntax[cursor].n] = pc
  PROVE  LET fr == NewFrame(pc, loop) IN
         /\ fr \in Frames
         /\ fr.pc \in ExpPoints =>
              HasExp(syntax, fr.node, cursor + 1) /\ WaitsAt[syntax[fr.node].n] = fr.pc
<1>1. cursor \in 1 .. (cursor + 1) - 1 /\ cursor + 1 .. (cursor + 1) - 1 = {}
  BY DEF HasExp
<1>. QED  BY <1>1, NewFrameType DEF HasExp

(* Which Visit function waits, of a program point.                         *)
LEMMA Waiting ==
  /\ DOMAIN WaitsAt = {"Decl", "Assign", "Return", "CallStmt", "If", "While"}
  /\ WaitsAt["Decl"] = "DeclInit" /\ WaitsAt["Assign"] = "AssignExp"
  /\ WaitsAt["Return"] = "ReturnExp" /\ WaitsAt["CallStmt"] = "CallExp"
  /\ WaitsAt["If"] = "IfCond" /\ WaitsAt["While"] = "WhileCond"
  /\ ExpPoints \subseteq ControlPoints /\ "Seq" \in ControlPoints \ ExpPoints
  /\ {"DeclInit", "AssignExp", "ReturnExp", "CallExp", "IfCond", "WhileCond"} \subseteq ExpPoints
  BY DEF WaitsAt, ExpPoints, ControlPoints, StmtPoints

(* The statements that only go on with an expression.                      *)
LEMMA OperandVisitExpOf ==
  ASSUME TypeInv, OperandInv, NEW kind \in {"Return", "CallStmt", "If", "Seq", "Assign"},
         NEW pc \in ControlPoints, VisitExpOf(kind, pc),
         pc \in ExpPoints => kind \in DOMAIN WaitsAt /\ WaitsAt[kind] = pc
  PROVE  OperandInv'
<1>1. /\ At(frames, StmtPoints) /\ frames # <<>> /\ frames \in Seq(Frames) /\ TypeOK
      /\ cursor \in Nat \ {0} /\ cursor \in DOMAIN syntax /\ syntax[cursor].n = kind
  BY ReadingNode DEF VisitExpOf, VisitStmt, TypeInv, TypeOK, At, Reading
<1>. DEFINE fr == NewFrame(pc, 0)
<1>2. /\ fr \in Frames
      /\ fr.pc \in ExpPoints =>
           HasExp(syntax, fr.node, cursor + 1) /\ WaitsAt[syntax[fr.node].n] = fr.pc
  BY <1>1, WaitingFrame
<1>. HIDE DEF fr
<1>3. /\ frames' = Enter(frames, fr) /\ cursor' = cursor + 1 /\ cursor + 1 \in Nat
      /\ UNCHANGED <<syntax, values, blocks, module>>
  BY <1>1 DEF VisitExpOf, VisitStmt, fr
<1>4. WaitsOK(syntax, frames', cursor + 1)
  BY <1>1, <1>2, <1>3, WaitsEntered DEF OperandInv
<1>5. frames'[1].node = frames[1].node
  BY <1>1, <1>2, <1>3, EnteredOutermost
<1>6. kind \notin ExpNodes \cup {"EndExp"}
  BY DEF ExpNodes
<1>. QED  BY <1>1, <1>3, <1>4, <1>5, <1>6, OperandStmt

(* A declaration.                                                          *)
LEMMA OperandVisitDecl == ASSUME TypeInv, InsertOK, OperandInv, VisitDecl PROVE OperandInv'
<1>. DEFINE node == syntax[cursor]
            decl == LocalDecl(cursor, node.name, node.type)
            fr   == NewFrame("DeclInit", 0)
<1>1. /\ At(frames, StmtPoints) /\ frames # <<>> /\ frames \in Seq(Frames) /\ TypeOK
      /\ cursor \in Nat \ {0} /\ cursor \in DOMAIN syntax /\ node \in Nodes /\ node.n = "Decl"
      /\ blocks \in Seq(Blocks) /\ insert \in DOMAIN blocks
  BY ReadingNode DEF VisitDecl, VisitStmt, TypeInv, TypeOK, At, Reading, InsertOK
<1>2. /\ fr \in Frames
      /\ fr.pc \in ExpPoints =>
           HasExp(syntax, fr.node, cursor + 1) /\ WaitsAt[syntax[fr.node].n] = fr.pc
  <2>1. 0 \in Nat /\ "DeclInit" \in ControlPoints
    BY Waiting
  <2>2. syntax[cursor].n \in DOMAIN WaitsAt /\ WaitsAt[syntax[cursor].n] = "DeclInit"
    BY <1>1, Waiting
  <2>. QED  BY <1>1, <2>1, <2>2, WaitingFrame
<1>3. decl \in VarDecls
  BY <1>1, NodeKinds, LocalDeclType
<1>4. /\ frames' = Enter(frames, fr) \/ frames' = Resume(frames)
      /\ blocks' = [blocks EXCEPT ![1] = <<Access("alloca", <<>>, decl)>> \o @]
      /\ cursor' = cursor + 1 /\ cursor + 1 \in Nat
      /\ UNCHANGED <<syntax, values, module>>
  BY <1>1 DEF VisitDecl, VisitStmt
<1>. HIDE DEF fr, decl
<1>5. WaitsOK(syntax, frames', cursor + 1)
  <2>1. WaitsOK(syntax, Resume(frames), cursor + 1)
    BY <1>1, WaitsEntered, NoneWaitsOK DEF OperandInv
  <2>. QED  BY <1>1, <1>2, <1>4, <2>1, WaitsEntered DEF OperandInv
<1>6. frames'[1].node = frames[1].node
  BY <1>1, <1>2, <1>4, EnteredOutermost
<1>7. node.n \notin ExpNodes \cup {"EndExp"} /\ blocks # <<>>
  BY <1>1 DEF ExpNodes
<1>8. \A ret : AllTyped(blocks, ret) => AllTyped(blocks', ret)
  BY <1>1, <1>3, <1>4, <1>7, AllocaTyped
<1>. QED  BY <1>1, <1>4, <1>5, <1>6, <1>7, <1>8, OperandStmt

(* Branches have no operands.                                              *)
LEMMA BranchTyped ==
  ASSUME TypeOK, insert \in DOMAIN blocks, NEW to \in Nat, NEW ret, AllTyped(blocks, ret)
  PROVE  LET put == Put(<<Jump("br", <<>>, <<to>>)>>)
         IN  put \in Seq(Blocks) /\ Len(put) = Len(blocks) /\ AllTyped(put, ret)
<1>. DEFINE br == <<Jump("br", <<>>, <<to>>)>>
<1>1. br \in Seq(Instrs)
  BY SomeInstrs
<1>2. \A i \in DOMAIN br : WellTyped(br[i], ret, syntax)
  BY InstrFields DEF WellTyped
<1>. HIDE DEF br
<1>3. AllTyped(Put(br), ret) /\ Put(br) \in Seq(Blocks) /\ Len(Put(br)) = Len(blocks)
  BY <1>1, <1>2, PutTyped, PutType DEF TypeOK
<1>. QED  BY <1>3 DEF br

(* The head of a loop opens a block before its condition.                  *)
LEMMA OperandVisitWhile == ASSUME TypeInv, InsertOK, OperandInv, VisitWhile PROVE OperandInv'
<1>. DEFINE loop == Len(blocks) + 1
            fr   == NewFrame("WhileCond", loop)
            put  == Put(<<Jump("br", <<>>, <<loop>>)>>)
<1>1. /\ At(frames, StmtPoints) /\ frames # <<>> /\ frames \in Seq(Frames) /\ TypeOK
      /\ cursor \in Nat \ {0} /\ cursor \in DOMAIN syntax /\ syntax[cursor].n = "While"
      /\ blocks \in Seq(Blocks) /\ insert \in DOMAIN blocks /\ loop \in Nat
  BY ReadingNode DEF VisitWhile, VisitStmt, TypeInv, TypeOK, At, Reading, InsertOK
<1>2. /\ frames' = Enter(frames, fr) /\ blocks' = Append(put, <<>>)
      /\ cursor' = cursor + 1 /\ cursor + 1 \in Nat
      /\ UNCHANGED <<syntax, values, module>>
  BY <1>1 DEF VisitWhile, VisitStmt
<1>. HIDE DEF loop
<1>3. /\ fr \in Frames
      /\ fr.pc \in ExpPoints =>
           HasExp(syntax, fr.node, cursor + 1) /\ WaitsAt[syntax[fr.node].n] = fr.pc
  <2>1. 0 \in Nat /\ "WhileCond" \in ControlPoints
    BY Waiting
  <2>2. syntax[cursor].n \in DOMAIN WaitsAt /\ WaitsAt[syntax[cursor].n] = "WhileCond"
    BY <1>1, Waiting
  <2>. QED  BY <1>1, <2>1, <2>2, WaitingFrame
<1>. HIDE DEF fr
<1>4. ASSUME NEW ret, AllTyped(blocks, ret) PROVE AllTyped(blocks', ret)
  <2>1. put \in Seq(Blocks) /\ AllTyped(put, ret)
    BY <1>1, <1>4, BranchTyped
  <2>. HIDE DEF put
  <2>2. Append(put, <<>>) = put \o << <<>> >>
    BY <2>1
  <2>3. << <<>> >> \in [1 .. 1 -> {<<>>}] /\ 1 \in Nat
    OBVIOUS
  <2>4. AllTyped(put \o << <<>> >>, ret)
    BY <2>1, <2>3, NewBlocksTyped
  <2>. QED  BY <1>2, <2>2, <2>4
<1>5. WaitsOK(syntax, frames', cursor + 1)
  BY <1>1, <1>2, <1>3, WaitsEntered DEF OperandInv
<1>6. frames'[1].node = frames[1].node
  BY <1>1, <1>2, <1>3, EnteredOutermost
<1>7. syntax[cursor].n \notin ExpNodes \cup {"EndExp"}
  BY <1>1 DEF ExpNodes
<1>. QED  BY <1>1, <1>2, <1>4, <1>5, <1>6, <1>7, OperandStmt

(* The ends of the statements that contain statements.                     *)
LEMMA OperandEndVisit ==
  ASSUME TypeInv, InsertOK, OperandInv, EndSeq \/ VisitElse \/ EndIf \/ EndWhile
  PROVE  OperandInv'
<1>1. PICK points, mark : EndVisit(points, mark) /\ mark \in Marks \ {"EndExp"}
  <2>1. {"EndSeq", "Else", "EndIf", "EndWhile"} \subseteq Marks \ {"EndExp"}
    BY DEF Marks
  <2>2. EndSeq => EndVisit({"Seq"}, "EndSeq")
    BY DEF EndSeq
  <2>3. VisitElse => EndVisit({"ThenEnd"}, "Else")
    BY DEF VisitElse
  <2>4. EndIf => EndVisit({"ThenEnd"}, "EndIf") \/ EndVisit({"ElseEnd"}, "EndIf")
    BY DEF EndIf
  <2>5. EndWhile => EndVisit({"BodyEnd"}, "EndWhile")
    BY DEF EndWhile
  <2>. QED  BY <2>1, <2>2, <2>3, <2>4, <2>5
<1>2. /\ frames # <<>> /\ frames \in Seq(Frames) /\ TypeOK /\ insert \in DOMAIN blocks
      /\ cursor \in DOMAIN syntax /\ syntax[cursor].n = mark
      /\ cursor' = cursor + 1 /\ UNCHANGED <<syntax, values, module>>
      /\ Last(frames).join \in Nat /\ Last(frames).loop \in Nat
  BY <1>1, ReadingNode, LastFrame DEF EndVisit, At, TypeInv, TypeOK, InsertOK, Frames
<1>3. mark \notin ExpNodes \cup {"EndExp"}
  BY <1>1 DEF Marks, ExpNodes
<1>4. frames' = Front(frames) \/ frames' = SetPc(frames, "IfElse")
  BY DEF EndSeq, VisitElse, EndIf, EndWhile
<1>5. "IfElse" \in ControlPoints \ ExpPoints
  BY DEF ControlPoints, StmtPoints, ExpPoints
<1>6. WaitsOK(syntax, frames', cursor + 1)
  BY <1>2, <1>4, <1>5, WaitsMoved, NoneWaitsOK DEF OperandInv
<1>7. frames' # <<>> => frames'[1].node = frames[1].node
  BY <1>2, <1>4, <1>5, MovedOutermost, PoppedOutermost
<1>8. ASSUME NEW ret, AllTyped(blocks, ret) PROVE AllTyped(blocks', ret)
  <2>1. \/ blocks' = blocks
        \/ \E to \in {Last(frames).join, Last(frames).loop} :
             blocks' = Put(<<Jump("br", <<>>, <<to>>)>>)
    BY DEF EndSeq, VisitElse, EndIf, EndWhile, BranchUnlessTerminated
  <2>. QED  BY <1>2, <1>8, <2>1, BranchTyped
<1>. QED  BY <1>2, <1>3, <1>6, <1>7, <1>8, OperandStmt

-----------------------------------------------------------------------------
(* The ends of expressions                                                 *)

\* What the statement that waits for an expression of type t relies on.
Consumes(t) ==
  /\ t \in Types /\ values = <<ConvertType(t)>> /\ ExpType(syntax[cursor - 1]) = t
  /\ LET j == Last(frames).node IN
     /\ WaitsAt[syntax[j].n] = Last(frames).pc /\ syntax[j].n \in DOMAIN WaitsAt
     /\ syntax[j].n = "Decl"   => t = syntax[j].type
     /\ syntax[j].n = "Assign" => t = syntax[j].decl.type
     /\ syntax[j].n = "Return" => t = RetOf(frames[1].node)

(* The last node of an expression is that of its value.                    *)
LEMMA LastOfExp ==
  ASSUME TypeOK, cursor \in DOMAIN syntax, NEW st, Typing(syntax, st),
         NEW t \in Types, st[cursor] = <<t>>,
         NEW j, HasExp(syntax, j, cursor)
  PROVE  ExpType(syntax[cursor - 1]) = t
<1>1. /\ cursor \in Nat \ {0} /\ j \in 1 .. cursor - 1 /\ syntax[j].n \in DOMAIN WaitsAt
      /\ \A m \in j + 1 .. cursor - 1 : syntax[m].n \in ExpNodes
      /\ Len(syntax) \in Nat /\ cursor \in 1 .. Len(syntax)
  BY DEF HasExp, TypeOK
<1>. DEFINE k == cursor - 1
<1>2. k \in 1 .. Len(syntax) /\ k + 1 = cursor /\ (k = j \/ k \in j + 1 .. cursor - 1)
      /\ k \in 1 .. Len(syntax) + 1
  BY <1>1
<1>. HIDE DEF k
<1>3. TypeStep(syntax, k, st[k], <<t>>) /\ st[k] \in Seq(Types)
  BY <1>2 DEF Typing
<1>4. syntax[k].n \in ExpNodes
  <2>1. CASE k = j
    <3>1. syntax[k].n \notin {"Const", "Var", "Call", "EndExp"}
      BY <1>1, <2>1, Waiting
    <3>2. <<t>> = <<>>
      BY <1>3, <3>1 DEF TypeStep
    <3>. QED  BY <3>2
  <2>. QED  BY <1>1, <1>2, <2>1
<1>5. \A s \in Seq(Types) : \A u : <<t>> = Append(s, u) => t = u
  <2>. SUFFICES ASSUME NEW s \in Seq(Types), NEW u, <<t>> = Append(s, u) PROVE t = u
    OBVIOUS
  <2>1. Len(Append(s, u)) = Len(s) + 1 /\ Len(s) \in Nat /\ Append(s, u)[Len(s) + 1] = u
    OBVIOUS
  <2>2. Len(s) = 0
    BY <2>1
  <2>. QED  BY <2>1, <2>2
<1>6. CASE syntax[k].n \in {"Const", "Var"}
  <2>1. <<t>> = Append(st[k], ExpType(syntax[k]))
    BY <1>3, <1>6 DEF TypeStep
  <2>. QED  BY <1>3, <1>5, <2>1 DEF k
<1>7. CASE syntax[k].n = "Call"
  <2>. DEFINE def == syntax[syntax[k].def].def
  <2>1. syntax[k].type = def.ret /\ \E rest \in Seq(Types) : <<t>> = Append(rest, def.ret)
    BY <1>3, <1>7 DEF TypeStep
  <2>2. t = syntax[k].type
    BY <1>5, <2>1
  <2>. QED  BY <1>7, <2>2 DEF ExpType, k
<1>. QED  BY <1>4, <1>6, <1>7 DEF ExpNodes

(* The value of an expression is consumed by the statement that waits for  *)
(* it.                                                                     *)
LEMMA ValueConsumed ==
  ASSUME TypeInv, TablesOK, OperandInv, NEW pc \in ExpPoints, EndExp(pc),
         NEW st, Typing(syntax, st), StackOK(st)
  PROVE  \E t : Consumes(t)
<1>. DEFINE j == Last(frames).node  f == frames[1].node
<1>1. /\ frames # <<>> /\ frames \in Seq(Frames) /\ TypeOK /\ Last(frames).pc = pc
      /\ cursor \in Nat \ {0} /\ cursor \in DOMAIN syntax /\ syntax[cursor].n = "EndExp"
      /\ Last(frames) = frames[Len(frames)] /\ Len(frames) \in DOMAIN frames
  BY ReadingNode, LastFrame DEF EndExp, TypeInv, TypeOK, At
<1>2. HasExp(syntax, j, cursor) /\ WaitsAt[syntax[j].n] = pc
  BY <1>1 DEF OperandInv, WaitsOK
<1>3. TypeStep(syntax, cursor, st[cursor], st[cursor + 1])
  BY <1>1, StackStep
<1>4. PICK t \in Types : st[cursor] = <<t>> /\ Expected(syntax, cursor, t)
  BY <1>1, <1>3 DEF TypeStep
<1>5. values = <<ConvertType(t)>>
  BY <1>4 DEF StackOK, ConvertTypes
<1>6. ExpType(syntax[cursor - 1]) = t
  BY <1>1, <1>2, <1>4, LastOfExp
<1>7. j \in 1 .. cursor - 1 /\ syntax[j].n \in DOMAIN WaitsAt
  BY <1>2 DEF HasExp
<1>8. ASSUME syntax[j].n = "Return" PROVE f \in 1 .. j - 1 /\ InFunction(syntax, f, j)
  <2>1. f \in 1 .. cursor - 1 /\ InFunction(syntax, f, cursor)
    BY <1>1 DEF TablesOK
  <2>. HIDE DEF j, f
  <2>2. f # j /\ f \notin j + 1 .. cursor - 1
    BY <1>2, <1>8, <2>1 DEF HasExp, InFunction, ExpNodes
  <2>3. f \in 1 .. j - 1 /\ \A m \in f + 1 .. j - 1 : m \in f + 1 .. cursor - 1
    BY <1>1, <1>7, <2>1, <2>2
  <2>. QED  BY <2>1, <2>3 DEF InFunction
<1>. HIDE DEF j, f
<1>9. /\ syntax[j].n = "Decl"   => t = syntax[j].type
      /\ syntax[j].n = "Assign" => t = syntax[j].decl.type
      /\ syntax[j].n = "Return" => t = RetOf(f)
  BY <1>2, <1>4, <1>7, <1>8 DEF Expected, RetOf
<1>. QED  BY <1>1, <1>2, <1>4, <1>5, <1>6, <1>7, <1>9 DEF Consumes, j, f

(* The expression of a call statement, whose value is dropped.             *)
LEMMA OperandEndExp ==
  ASSUME TypeInv, TablesOK, OperandInv, NEW pc \in ExpPoints, EndExp(pc), NoneWaits(frames'),
         frames' # <<>> => frames'[1].node = frames[1].node,
         \A t : Consumes(t) /\ AllTyped(blocks, RetOf(frames[1].node)) =>
                  AllTyped(blocks', RetOf(frames[1].node))
  PROVE  OperandInv'
<1>1. /\ frames # <<>> /\ TypeOK /\ cursor \in DOMAIN syntax /\ syntax[cursor].n = "EndExp"
      /\ cursor' = cursor + 1 /\ values' = <<>> /\ UNCHANGED <<syntax, module>>
  BY ReadingNode DEF EndExp, TypeInv, At
<1>2. WaitsOK(syntax, frames', cursor + 1)
  BY NoneWaitsOK
<1>3. ASSUME NEW st, Typing(syntax, st), StackOK(st)
      PROVE  values' = ConvertTypes(st[cursor + 1]) /\ AllTyped(blocks', RetOf(frames[1].node))
  <2>1. st[cursor + 1] = <<>>
    BY <1>1, <1>3, StackStep DEF ExpNodes
  <2>2. \E t : Consumes(t)
    BY <1>3, ValueConsumed
  <2>. QED  BY <1>1, <1>3, <2>1, <2>2, ConvertEmpty DEF StackOK
<1>. QED  BY <1>1, <1>2, <1>3, OperandStep

(* A statement that consumes its value in one instruction.                 *)
LEMMA OperandEndStmtExp ==
  ASSUME TypeInv, InsertOK, TablesOK, OperandInv, NEW pc \in ExpPoints, NEW instrs \in Seq(Instrs),
         EndStmtExp(pc, instrs),
         \A t : Consumes(t) =>
           \A i \in DOMAIN instrs : WellTyped(instrs[i], RetOf(frames[1].node), syntax)
  PROVE  OperandInv'
<1>1. /\ EndExp(pc) /\ frames # <<>> /\ frames \in Seq(Frames) /\ frames' = Front(frames)
      /\ blocks' = Put(instrs) /\ blocks \in Seq(Blocks) /\ insert \in DOMAIN blocks
  BY DEF EndStmtExp, EndExp, At, TypeInv, TypeOK, InsertOK
<1>2. NoneWaits(frames')
  BY <1>1, WaitsMoved DEF OperandInv
<1>3. frames' # <<>> => frames'[1].node = frames[1].node
  BY <1>1, PoppedOutermost
<1>. QED  BY <1>1, <1>2, <1>3, PutTyped, OperandEndExp

(* A stored or a returned value.                                           *)
LEMMA OperandEndStmt ==
  ASSUME TypeInv, InsertOK, TablesOK, OperandInv,
         EndCallStmt \/ EndReturn \/ EndAssign \/ EndDeclInit
  PROVE  OperandInv'
<1>. DEFINE ret == RetOf(frames[1].node)  k == Last(frames).node
<1>1. /\ frames # <<>> /\ frames \in Seq(Frames) /\ values[1] \in IRTypes
      /\ Last(frames) \in Frames /\ NodeOK(syntax, Last(frames))
  <2>1. \E pc : EndExp(pc)
    BY DEF EndCallStmt, EndReturn, EndAssign, EndDeclInit, EndStmtExp
  <2>2. frames # <<>> /\ frames \in Seq(Frames) /\ values[1] \in IRTypes
    BY <2>1 DEF EndExp, At, TypeInv, TypeOK
  <2>. QED  BY <2>2, LastFrame DEF TypeInv, NodesOK
<1>2. \A t : Consumes(t) => values[1] = ConvertType(t)
  BY DEF Consumes
<1>3. CASE EndCallStmt
  <2>1. <<>> \in Seq(Instrs) /\ DOMAIN <<>> = {} /\ "CallExp" \in ExpPoints
    BY Waiting
  <2>. QED  BY <1>3, <2>1, OperandEndStmtExp DEF EndCallStmt
<1>4. CASE EndReturn
  <2>. DEFINE instrs == <<Instr("ret", <<values[1]>>)>>
  <2>1. instrs \in Seq(Instrs) /\ "ReturnExp" \in ExpPoints
    BY <1>1, Waiting, SomeInstrs
  <2>2. ASSUME NEW t, Consumes(t) PROVE \A i \in DOMAIN instrs : WellTyped(instrs[i], ret, syntax)
    <3>1. Last(frames).pc = "ReturnExp"
      BY <1>4 DEF EndReturn, EndStmtExp, EndExp, At
    <3>2. t = ret
      BY <2>2, <3>1, Waiting DEF Consumes
    <3>. HIDE DEF ret
    <3>3. WellTyped(Instr("ret", <<values[1]>>), ret, syntax)
      BY <1>2, <2>2, <3>2, InstrFields DEF WellTyped
    <3>. QED  BY <3>3
  <2>3. EndStmtExp("ReturnExp", instrs)
    BY <1>4 DEF EndReturn
  <2>. HIDE DEF instrs
  <2>. QED  BY <2>1, <2>2, <2>3, OperandEndStmtExp
<1>5. ASSUME NEW d \in VarDecls \cup {Null}, NEW pc \in ExpPoints,
             EndStmtExp(pc, <<Access("store", <<values[1]>>, d)>>),
             \A t : Consumes(t) => t = d.type
      PROVE  OperandInv'
  <2>. DEFINE instrs == <<Access("store", <<values[1]>>, d)>>
  <2>1. instrs \in Seq(Instrs)
    BY <1>1, <1>5, SomeInstrs
  <2>2. ASSUME NEW t, Consumes(t) PROVE \A i \in DOMAIN instrs : WellTyped(instrs[i], ret, syntax)
    <3>1. WellTyped(Access("store", <<values[1]>>, d), ret, syntax)
      BY <1>2, <1>5, <2>2, InstrFields DEF WellTyped
    <3>. QED  BY <3>1
  <2>. HIDE DEF instrs
  <2>. QED  BY <1>5, <2>1, <2>2, OperandEndStmtExp DEF instrs
<1>6. CASE EndAssign
  <2>1. Last(frames).pc = "AssignExp" /\ "AssignExp" \in ExpPoints
    BY <1>6, Waiting DEF EndAssign, EndStmtExp, EndExp, At
  <2>2. k \in DOMAIN syntax /\ syntax[k].n = "Assign" /\ syntax[k] \in Nodes
    BY <1>1, <2>1 DEF NodeOK, TypeInv, TypeOK
  <2>3. syntax[k].decl \in VarDecls \cup {Null}
    BY <2>2, NodeKinds
  <2>4. \A t : Consumes(t) => t = syntax[k].decl.type
    BY <2>2 DEF Consumes
  <2>. QED  BY <1>5, <1>6, <2>1, <2>3, <2>4 DEF EndAssign
<1>7. CASE EndDeclInit
  <2>. DEFINE d == LocalDecl(k, syntax[k].name, syntax[k].type)
  <2>1. Last(frames).pc = "DeclInit" /\ "DeclInit" \in ExpPoints
    BY <1>7, Waiting DEF EndDeclInit, EndStmtExp, EndExp, At
  <2>2. k \in DOMAIN syntax /\ syntax[k].n = "Decl" /\ syntax[k] \in Nodes /\ k \in Nat
    BY <1>1, <2>1 DEF NodeOK, TypeInv, TypeOK, Frames
  <2>3. d \in VarDecls
    BY <2>2, NodeKinds, LocalDeclType
  <2>4. \A t : Consumes(t) => t = d.type
    BY <2>2 DEF Consumes, LocalDecl
  <2>5. EndStmtExp("DeclInit", <<Access("store", <<values[1]>>, d)>>)
    BY <1>7 DEF EndDeclInit
  <2>. HIDE DEF d
  <2>. QED  BY <1>5, <2>1, <2>3, <2>4, <2>5
<1>. QED  BY <1>3, <1>4, <1>6, <1>7

(* A condition is an i1: a bool is one, an int is compared with zero.      *)
LEMMA CondBranchTyped ==
  ASSUME NEW t, Consumes(t), NEW to, NEW ret
  PROVE  \A i \in DOMAIN CondBranch(to) : WellTyped(CondBranch(to)[i], ret, syntax)
<1>1. t \in Types /\ values[1] = ConvertType(t) /\ ExpType(syntax[cursor - 1]) = t
  BY DEF Consumes
<1>2. CASE t = "bool"
  <2>. DEFINE br == Jump("condbr", <<values[1]>>, to)
  <2>1. CondBranch(to) = <<br>>
    BY <1>1, <1>2 DEF CondBranch
  <2>2. WellTyped(br, ret, syntax)
    BY <1>1, <1>2, InstrFields DEF WellTyped, ConvertType
  <2>. HIDE DEF br
  <2>. QED  BY <2>1, <2>2
<1>3. CASE t = "int"
  <2>. DEFINE cmp == Instr("icmp", <<values[1], "i32">>)  br == Jump("condbr", <<"i1">>, to)
  <2>1. CondBranch(to) = <<cmp, br>>
    BY <1>1, <1>3 DEF CondBranch
  <2>2. WellTyped(cmp, ret, syntax) /\ WellTyped(br, ret, syntax)
    BY <1>1, <1>3, InstrFields DEF WellTyped, ConvertType
  <2>. HIDE DEF br, cmp
  <2>. QED  BY <2>1, <2>2
<1>. QED  BY <1>1, <1>2, <1>3 DEF Types

(* A condition is a boolean.                                               *)
LEMMA OperandEndCond ==
  ASSUME TypeInv, InsertOK, TablesOK, OperandInv, EndIfCond \/ EndWhileCond
  PROVE  OperandInv'
<1>. DEFINE ret == RetOf(frames[1].node)
<1>1. PICK pc \in ExpPoints : EndExp(pc)
  BY Waiting DEF EndIfCond, EndWhileCond
<1>2. /\ frames # <<>> /\ frames \in Seq(Frames) /\ blocks \in Seq(Blocks) /\ insert \in DOMAIN blocks
      /\ Last(frames) \in Frames /\ Last(frames) = frames[Len(frames)] /\ TypeOK /\ values # <<>>
  BY <1>1, LastFrame DEF EndExp, At, TypeInv, TypeOK, InsertOK
<1>3. ASSUME NEW to \in Seq(Nat), NEW n \in Nat, NEW new \in [1 .. n -> {<<>>}],
             blocks' = Put(CondBranch(to)) \o new,
             NEW fr \in Frames, frames' = [frames EXCEPT ![Len(frames)] = fr],
             fr.pc \notin ExpPoints, fr.node = Last(frames).node
      PROVE  OperandInv'
  <2>1. NoneWaits(frames')
    BY <1>2, <1>3, WaitsMoved DEF OperandInv
  <2>2. frames'[1].node = frames[1].node
    BY <1>2, <1>3, ReplacedOutermost
  <2>3. ASSUME NEW t, Consumes(t), AllTyped(blocks, ret) PROVE AllTyped(blocks', ret)
    <3>. HIDE DEF ret
    <3>1. CondBranch(to) \in Seq(Instrs)
      BY <1>2, CondBranchType
    <3>2. Put(CondBranch(to)) \in Seq(Blocks) /\ AllTyped(Put(CondBranch(to)), ret)
      BY <1>2, <2>3, <3>1, CondBranchTyped, PutTyped, PutType
    <3>. QED  BY <1>3, <3>2, NewBlocksTyped
  <2>. QED  BY <1>1, <2>1, <2>2, <2>3, OperandEndExp
<1>4. CASE EndIfCond
  <2>. DEFINE else == syntax[Last(frames).node].else
              then == Len(blocks) + 1
              els  == IF else THEN then + 1 ELSE 0
              join == IF else THEN then + 2 ELSE then + 1
              fr   == [Last(frames) EXCEPT !.pc = "IfThen", !.els = els, !.join = join]
              to   == <<then, IF else THEN els ELSE join>>
              n    == IF else THEN 3 ELSE 2
              new  == [b \in 1 .. n |-> <<>>]
  <2>1. frames' = [frames EXCEPT ![Len(frames)] = fr]
    BY <1>2, <1>4 DEF EndIfCond
  <2>2. els \in Nat /\ join \in Nat
    BY <1>2
  <2>3. fr \in Frames /\ fr.pc = "IfThen" /\ fr.node = Last(frames).node
    <3>. HIDE DEF els, join
    <3>. QED  BY <1>2, <2>2, BodyFrame DEF Frames
  <2>4. to \in Seq(Nat) /\ n \in Nat /\ new \in [1 .. n -> {<<>>}]
    BY <1>2
  <2>5. blocks' = Put(CondBranch(to)) \o new
    BY <1>4 DEF EndIfCond
  <2>6. "IfThen" \notin ExpPoints
    BY DEF ExpPoints
  <2>. HIDE DEF fr, to, n, new
  <2>. QED  BY <1>3, <2>1, <2>3, <2>4, <2>5, <2>6
<1>5. CASE EndWhileCond
  <2>. DEFINE body == Len(blocks) + 1
              join == Len(blocks) + 2
              fr   == [Last(frames) EXCEPT !.pc = "WhileBody", !.join = join]
              to   == <<body, join>>
              new  == << <<>>, <<>> >>
  <2>1. frames' = [frames EXCEPT ![Len(frames)] = fr]
    BY <1>2, <1>5 DEF EndWhileCond
  <2>2. join \in Nat
    BY <1>2
  <2>3. fr \in Frames /\ fr.pc = "WhileBody" /\ fr.node = Last(frames).node
    <3>. HIDE DEF join
    <3>. QED  BY <1>2, <2>2, BodyFrame DEF Frames
  <2>4. to \in Seq(Nat) /\ new \in [1 .. 2 -> {<<>>}]
    BY <1>2
  <2>5. blocks' = Put(CondBranch(to)) \o new
    BY <1>5 DEF EndWhileCond
  <2>6. "WhileBody" \notin ExpPoints
    BY DEF ExpPoints
  <2>. HIDE DEF fr, to, new
  <2>. QED  BY <1>3, <2>1, <2>3, <2>4, <2>5, <2>6
<1>. QED  BY <1>4, <1>5

(* An assignment is visited, or its variable is not found.                 *)
LEMMA OperandVisitAssign == ASSUME TypeInv, OperandInv, VisitAssign PROVE OperandInv'
<1>1. CASE Abort
  BY <1>1, OperandAbort
<1>2. CASE VisitExpOf("Assign", "AssignExp")
  <2>1. "AssignExp" \in ControlPoints /\ "Assign" \in DOMAIN WaitsAt /\ WaitsAt["Assign"] = "AssignExp"
    BY Waiting
  <2>. QED  BY <1>2, <2>1, OperandVisitExpOf
<1>. QED  BY <1>1, <1>2 DEF VisitAssign

-----------------------------------------------------------------------------
(* Expressions                                                             *)

(* The types of one more value, and of the instructions that compute it.   *)
LEMMA OperandGenerate ==
  ASSUME TypeInv, InsertOK, OperandInv, NEW kind \in ExpNodes, VisitExp(kind),
         NEW vals, NEW instrs \in Seq(Instrs), Generate(vals, instrs),
         OperatorCallsAreBuiltin =>
           \A st : Typing(syntax, st) /\ StackOK(st) =>
             /\ vals = ConvertTypes(st[cursor + 1])
             /\ \A i \in DOMAIN instrs : WellTyped(instrs[i], RetOf(frames[1].node), syntax)
  PROVE  OperandInv'
<1>1. /\ frames # <<>> /\ cursor \in DOMAIN syntax /\ syntax[cursor].n = kind /\ TypeOK
      /\ blocks \in Seq(Blocks) /\ insert \in DOMAIN blocks /\ cursor \in Nat
  BY ReadingNode DEF VisitExp, TypeInv, TypeOK, At, InsertOK
<1>2. /\ cursor' = cursor + 1 /\ blocks' = Put(instrs) /\ values' = vals
      /\ UNCHANGED <<syntax, frames, module>>
  BY DEF Generate
<1>3. WaitsOK(syntax, frames', cursor + 1)
  BY <1>1, <1>2, WaitsLonger DEF OperandInv
<1>4. ASSUME OperatorCallsAreBuiltin, NEW st, Typing(syntax, st), StackOK(st)
      PROVE  values' = ConvertTypes(st[cursor + 1]) /\ AllTyped(blocks', RetOf(frames[1].node))
  <2>1. AllTyped(blocks, RetOf(frames[1].node))
    BY <1>1, <1>4 DEF StackOK
  <2>2. \A i \in DOMAIN instrs : WellTyped(instrs[i], RetOf(frames[1].node), syntax)
    BY <1>4
  <2>3. AllTyped(blocks', RetOf(frames[1].node))
    BY <1>1, <1>2, <2>1, <2>2, PutTyped
  <2>. QED  BY <1>2, <1>4, <2>3
<1>. QED  BY <1>1, <1>2, <1>3, <1>4, OperandStep

(* Constants and variables.                                                *)
LEMMA OperandVisitLeaf ==
  ASSUME TypeInv, InsertOK, OperandInv, VisitConst \/ VisitVarExp
  PROVE  OperandInv'
<1>. DEFINE node == syntax[cursor]
<1>1. PICK kind \in {"Const", "Var"} : VisitExp(kind) /\ node.n = kind
  BY ReadingNode DEF VisitConst, VisitVarExp, VisitExp, TypeInv
<1>2. cursor \in DOMAIN syntax /\ node \in Nodes /\ TypeOK /\ kind \in ExpNodes
  BY <1>1, ReadingNode DEF VisitExp, TypeInv, ExpNodes
<1>3. node.n = "Const" => node.type \in Types
  BY <1>2, NodeKinds
<1>4. node.n = "Var" => node.decl \in VarDecls /\ node.decl.type \in Types
  <2>1. node.n = "Var" => node.decl \in VarDecls
    BY <1>2, NodeKinds
  <2>. QED  BY <2>1 DEF VarDecls
<1>5. ExpType(node) \in Types
  BY <1>1, <1>3, <1>4 DEF ExpType
<1>6. ASSUME NEW instrs \in Seq(Instrs), Generate(Append(values, ConvertType(ExpType(node))), instrs),
             \A i \in DOMAIN instrs : WellTyped(instrs[i], RetOf(frames[1].node), syntax)
      PROVE  OperandInv'
  <2>1. ASSUME NEW st, Typing(syntax, st), StackOK(st)
        PROVE  Append(values, ConvertType(ExpType(node))) = ConvertTypes(st[cursor + 1])
    <3>1. TypeStep(syntax, cursor, st[cursor], st[cursor + 1]) /\ st[cursor] \in Seq(Types)
      BY <1>2, <2>1, StackStep
    <3>2. st[cursor + 1] = Append(st[cursor], ExpType(node))
      BY <1>1, <3>1 DEF TypeStep
    <3>. QED  BY <1>5, <2>1, <3>1, <3>2, ConvertAppend DEF StackOK
  <2>. HIDE DEF node
  <2>. DEFINE vals == Append(values, ConvertType(ExpType(node)))
  <2>2. \A st : Typing(syntax, st) /\ StackOK(st) => vals = ConvertTypes(st[cursor + 1])
    BY <2>1
  <2>3. Generate(vals, instrs)
    BY <1>6
  <2>. HIDE DEF vals
  <2>. QED  BY <1>1, <1>2, <1>6, <2>2, <2>3, OperandGenerate
<1>. DEFINE load == <<Access("load", <<>>, node.decl)>>
<1>7. <<>> \in Seq(Instrs) /\ DOMAIN <<>> = {}
  OBVIOUS
<1>8. ASSUME node.n = "Var" PROVE
      load \in Seq(Instrs) /\ \A i \in DOMAIN load : WellTyped(load[i], RetOf(frames[1].node), syntax)
  <2>1. WellTyped(Access("load", <<>>, node.decl), RetOf(frames[1].node), syntax)
    BY InstrFields DEF WellTyped
  <2>2. Access("load", <<>>, node.decl) \in Instrs
    BY <1>4, <1>8, SomeInstrs
  <2>. QED  BY <2>1, <2>2
<1>9. CASE VisitConst
  <2>1. ExpType(node) = node.type
    BY <1>9, <1>2, ReadingNode DEF VisitConst, VisitExp, ExpType
  <2>2. Generate(Append(values, ConvertType(ExpType(node))), <<>>)
    BY <1>9, <2>1 DEF VisitConst
  <2>. QED  BY <1>6, <1>7, <2>2
<1>10. CASE VisitVarExp
  <2>1. node.n = "Var" /\ ExpType(node) = node.decl.type
    BY <1>10, <1>2, ReadingNode DEF VisitVarExp, VisitExp, ExpType
  <2>. DEFINE vals == Append(values, ConvertType(ExpType(node)))
  <2>2. Abort \/ Generate(vals, load) \/ Generate(vals, <<>>)
    BY <1>10, <2>1 DEF VisitVarExp
  <2>. HIDE DEF load
  <2>. QED  BY <1>6, <1>7, <1>8, <2>1, <2>2, OperandAbort
<1>. QED  BY <1>9, <1>10

(* Calls: the values on top of the stack have the types of the parameters. *)
LEMMA CallOperands ==
  ASSUME TypeOK, cursor \in DOMAIN syntax, syntax[cursor].n = "Call",
         NEW st, Typing(syntax, st), values = ConvertTypes(st[cursor])
  PROVE  LET node  == syntax[cursor]
             def   == syntax[node.def].def
             first == Len(values) - node.args
         IN  /\ def \in FuncDefs /\ ParamTypes(def) \in Seq(Types)
             /\ Len(ParamTypes(def)) = node.args
             /\ SubSeq(values, first + 1, Len(values)) = ConvertTypes(ParamTypes(def))
             /\ Append(SubSeq(values, 1, first), ConvertType(def.ret)) = ConvertTypes(st[cursor + 1])
<1>. DEFINE node  == syntax[cursor]
            def   == syntax[node.def].def
            first == Len(values) - node.args
<1>1. TypeStep(syntax, cursor, st[cursor], st[cursor + 1])
  BY StackStep
<1>2. /\ node.def \in 1 .. cursor - 1 /\ syntax[node.def].n = "Func"
      /\ node.args = Len(def.params)
      /\ \E rest \in Seq(Types) : /\ st[cursor] = rest \o ParamTypes(def)
                                  /\ st[cursor + 1] = Append(rest, def.ret)
  BY <1>1 DEF TypeStep
<1>3. syntax[node.def] \in Nodes
  BY <1>2 DEF TypeOK
<1>4. def \in FuncDefs
  BY <1>2, <1>3, NodeKinds
<1>5. PICK rest \in Seq(Types) : /\ st[cursor] = rest \o ParamTypes(def)
                                 /\ st[cursor + 1] = Append(rest, def.ret)
  BY <1>2
<1>6. /\ ParamTypes(def) \in Seq(Types) /\ Len(ParamTypes(def)) = node.args /\ def.ret \in Types
      /\ Len(rest) \in Nat /\ node.args \in Nat
  BY <1>2, <1>4, ParamTypesSeq
<1>. HIDE DEF node, def
<1>7. /\ Len(values) = Len(rest) + node.args
      /\ SubSeq(values, 1, Len(rest)) = ConvertTypes(rest)
      /\ SubSeq(values, Len(rest) + 1, Len(values)) = ConvertTypes(ParamTypes(def))
  BY <1>5, <1>6, ConvertSplit
<1>8. first = Len(rest)
  BY <1>6, <1>7
<1>9. ConvertTypes(st[cursor + 1]) = Append(ConvertTypes(rest), ConvertType(def.ret))
  BY <1>5, <1>6, ConvertAppend
<1>. QED  BY <1>4, <1>6, <1>7, <1>8, <1>9 DEF node, def

(* A call, of an operator or of a function.                                *)
LEMMA OperandVisitCall == ASSUME TypeInv, InsertOK, OperandInv, VisitCallExp PROVE OperandInv'
<1>. DEFINE node  == syntax[cursor]
            def   == syntax[node.def].def
            first == Len(values) - node.args
            args  == SubSeq(values, first + 1, Len(values))
            rest  == SubSeq(values, 1, first)
            instr == BuiltinInstr(node.name, args)
            emit  == IF node.name = "int" /\ args[1] = "i32" THEN <<>> ELSE <<instr>>
            call  == Call(args, node.def)
            ret   == RetOf(frames[1].node)
<1>1. /\ node \in Nodes /\ node.n = "Call" /\ node.args <= Len(values) /\ VisitExp("Call")
      /\ node.args \in Nat /\ node.def \in Nat /\ values \in Seq(IRTypes)
      /\ cursor \in DOMAIN syntax /\ TypeOK /\ "Call" \in ExpNodes
  BY ReadingNode, NodeKinds DEF VisitCallExp, VisitExp, TypeInv, TypeOK, ExpNodes
<1>2. args \in Seq(IRTypes) /\ Len(args) = node.args
  <2>1. first \in Nat /\ first <= Len(values) /\ Len(values) \in Nat
    BY <1>1
  <2>. QED  BY <1>1, <2>1
<1>3. \/ Abort
      \/ /\ node.name \in OperatorNames /\ node.args >= MinArgs(node.name)
         /\ Generate(Append(rest, BuiltinType(node.name, args)), emit)
      \/ Generate(Append(rest, ConvertType(def.ret)), <<call>>)
  BY DEF VisitCallExp
<1>4. ASSUME NEW st, Typing(syntax, st), StackOK(st)
      PROVE  /\ def \in FuncDefs /\ args = ConvertTypes(ParamTypes(def))
             /\ Append(rest, ConvertType(def.ret)) = ConvertTypes(st[cursor + 1])
  BY <1>1, <1>4, CallOperands DEF StackOK
<1>. HIDE DEF args, rest
<1>5. CASE Abort
  BY <1>5, OperandAbort
<1>6. CASE Generate(Append(rest, ConvertType(def.ret)), <<call>>)
  <2>. DEFINE vals == Append(rest, ConvertType(def.ret))  instrs == <<call>>
  <2>1. instrs \in Seq(Instrs)
    <3>1. "call" \in Opcodes
      BY DEF Opcodes
    <3>2. call \in Instrs
      BY <1>1, <1>2, <3>1, InstrType
    <3>. QED  BY <3>2
  <2>2. ASSUME NEW st, Typing(syntax, st), StackOK(st)
        PROVE  \A i \in DOMAIN instrs : WellTyped(instrs[i], ret, syntax)
    <3>1. call.op = "call" /\ call.ops = args /\ call.callee = node.def
      BY InstrFields
    <3>2. args = ConvertTypes(ParamTypes(def))
      BY <1>4, <2>2
    <3>. HIDE DEF call, ret
    <3>3. WellTyped(call, ret, syntax)
      BY <3>1, <3>2 DEF WellTyped
    <3>. QED  BY <3>3
  <2>3. \A st : Typing(syntax, st) /\ StackOK(st) => vals = ConvertTypes(st[cursor + 1])
    BY <1>4
  <2>4. Generate(vals, instrs)
    BY <1>6
  <2>. HIDE DEF vals, instrs
  <2>. QED  BY <1>1, <2>1, <2>2, <2>3, <2>4, OperandGenerate
<1>7. ASSUME node.name \in OperatorNames, node.args >= MinArgs(node.name),
             Generate(Append(rest, BuiltinType(node.name, args)), emit)
      PROVE  OperandInv'
  <2>. DEFINE vals == Append(rest, BuiltinType(node.name, args))
  <2>1. emit \in Seq(Instrs)
    <3>1. <<instr>> \in Seq(Instrs) /\ <<>> \in Seq(Instrs)
      BY <1>2, <1>7, BuiltinInstrType
    <3>. HIDE DEF instr
    <3>. QED  BY <3>1
  <2>2. ASSUME OperatorCallsAreBuiltin, NEW st, Typing(syntax, st), StackOK(st)
        PROVE  /\ vals = ConvertTypes(st[cursor + 1])
               /\ \A i \in DOMAIN emit : WellTyped(emit[i], ret, syntax)
    <3>. DEFINE types == ParamTypes(def)
    <3>1. /\ args = ConvertTypes(types)
          /\ Append(rest, ConvertType(def.ret)) = ConvertTypes(st[cursor + 1])
      BY <1>4, <2>2
    <3>2. PICK i \in DOMAIN GetBuiltins :
                 /\ GetBuiltins[i].name = node.name /\ GetBuiltins[i].ret = def.ret
                 /\ ParamTypes(GetBuiltins[i]) = types
      BY <1>1, <1>7, <2>2 DEF OperatorCallsAreBuiltin
    <3>. HIDE DEF types, def, node, ret
    <3>3. IsBuiltin(node.name, types, def.ret)
      BY <3>2, BuiltinCases
    <3>4. /\ WellTyped(BuiltinInstr(node.name, ConvertTypes(types)), ret, syntax)
          /\ BuiltinType(node.name, ConvertTypes(types)) = ConvertType(def.ret)
          /\ ~ (node.name = "int" /\ ConvertTypes(types)[1] = "i32")
      BY <3>3, BuiltinTyped
    <3>5. /\ WellTyped(instr, ret, syntax) /\ BuiltinType(node.name, args) = ConvertType(def.ret)
          /\ ~ (node.name = "int" /\ args[1] = "i32")
      BY <3>1, <3>4
    <3>. HIDE DEF instr
    <3>6. emit = <<instr>>
      BY <3>5
    <3>. HIDE DEF emit
    <3>. QED  BY <3>1, <3>5, <3>6
  <2>3. Generate(vals, emit)
    BY <1>7
  <2>. HIDE DEF vals, emit
  <2>. QED  BY <1>1, <2>1, <2>2, <2>3, OperandGenerate
<1>. QED  BY <1>3, <1>5, <1>6, <1>7

-----------------------------------------------------------------------------
(* Functions                                                               *)

(* A function begins with an empty stack and an empty block.               *)
LEMMA OperandBegin == ASSUME TypeInv, OperandInv, BeginFunction PROVE OperandInv'
<1>1. /\ cursor \in DOMAIN syntax /\ syntax[cursor].n = "Func" /\ frames = <<>> /\ TypeOK
      /\ cursor \in Nat \ {0} /\ cursor' = cursor + 1 /\ UNCHANGED <<syntax, values, module>>
      /\ cursor <= Len(syntax) /\ Len(syntax) \in Nat
  BY ReadingNode DEF BeginFunction, TypeInv, TypeOK
<1>2. \/ frames' = <<>>
      \/ frames' = <<NewFrame("FuncBody", 0)>> /\ blocks' = << <<>> >>
  BY <1>1 DEF BeginFunction
<1>3. WaitsOK(syntax, frames', cursor + 1)
  <2>1. NewFrame("FuncBody", 0).pc \notin ExpPoints
    BY DEF NewFrame, ExpPoints
  <2>2. NoneWaits(frames')
    BY <1>2, <2>1 DEF NoneWaits
  <2>. QED  BY <2>2, NoneWaitsOK
<1>4. \A ret : frames' # <<>> => AllTyped(blocks', ret)
  BY <1>2 DEF AllTyped
<1>5. ASSUME OperatorCallsAreBuiltin, NEW st, Typing(syntax, st)
      PROVE  StackOK(st)' /\ OperandsAreTyped'
  <2>1. StackOK(st) /\ OperandsAreTyped
    BY <1>5 DEF OperandInv
  <2>2. st[cursor] = <<>> /\ st[cursor + 1] = <<>>
    BY <1>1, <1>5, StackStep DEF ExpNodes
  <2>3. values' = ConvertTypes(st[cursor + 1])
    BY <1>1, <2>1, <2>2 DEF StackOK
  <2>4. OperandsAreTyped'
    BY <1>1, <2>1 DEF OperandsAreTyped, OperatorCallsAreBuiltin
  <2>5. frames' # <<>> => AllTyped(blocks', RetOf(frames[1].node)')
    BY <1>4
  <2>. QED  BY <1>1, <2>3, <2>4, <2>5 DEF StackOK, AllTyped
<1>6. OperatorCallsAreBuiltin' = OperatorCallsAreBuiltin
  BY <1>1 DEF OperatorCallsAreBuiltin
<1>7. cursor + 1 <= Len(syntax) + 1
  BY <1>1
<1>. QED  BY <1>1, <1>3, <1>5, <1>6, <1>7 DEF OperandInv

\* The instructions of a function that are not typed, ...
IllTyped(program, bs, ret) ==
  {p \in UNION {{b} \X DOMAIN bs[b] : b \in DOMAIN bs} : ~ WellTyped(bs[p[1]][p[2]], ret, program)}

\* ... and when it has at most the one that the code generator supplies.
BodyTyped(program, bs, ret) ==
  /\ ret = "int" => IllTyped(program, bs, ret) = {}
  /\ \A p \in IllTyped(program, bs, ret) : bs[p[1]][p[2]] = Instr("ret", <<"i32">>)
  /\ \A p, q \in IllTyped(program, bs, ret) : p = q

(* The property, function by function.                                     *)
LEMMA OperandsByBody ==
  OperandsAreTyped
    <=> (OperatorCallsAreBuiltin =>
           \A f \in DOMAIN module : BodyTyped(syntax, module[f].blocks, RetOf(module[f].def)))
  BY DEF OperandsAreTyped, BodyTyped, IllTyped, RetOf

(* The positions of ill-typed instructions.                                *)
LEMMA InIllTyped ==
  ASSUME NEW bs, NEW ret, NEW p \in IllTyped(syntax, bs, ret)
  PROVE  /\ p[1] \in DOMAIN bs /\ p[2] \in DOMAIN bs[p[1]] /\ p = <<p[1], p[2]>>
         /\ ~ WellTyped(bs[p[1]][p[2]], ret, syntax)
  BY DEF IllTyped

(* A body that is typed, and the return that ends it if it has none.       *)
LEMMA BodyIsTyped ==
  ASSUME blocks \in Seq(Blocks), insert \in DOMAIN blocks, NEW ret, AllTyped(blocks, ret)
  PROVE  BodyTyped(syntax, blocks, ret) /\ BodyTyped(syntax, Put(<<Instr("ret", <<"i32">>)>>), ret)
<1>. DEFINE supplied == Instr("ret", <<"i32">>)
            new == <<supplied>>
            put == Put(new)
            old == blocks[insert]
<1>1. \A bs : AllTyped(bs, ret) => BodyTyped(syntax, bs, ret)
  <2>1. ASSUME NEW bs, AllTyped(bs, ret) PROVE IllTyped(syntax, bs, ret) = {}
    BY <2>1, InIllTyped DEF AllTyped
  <2>. QED  BY <2>1 DEF BodyTyped
<1>2. new \in Seq(Instrs) /\ old \in Seq(Instrs)
  BY SomeInstrs DEF IRTypes, Blocks
<1>3. /\ DOMAIN put = DOMAIN blocks /\ put[insert] = old \o new
      /\ \A b \in DOMAIN blocks : b # insert => put[b] = blocks[b]
  BY <1>2, PutType
<1>4. DOMAIN new = {1} /\ new[1] = supplied
  OBVIOUS
<1>5. ret = "int" => WellTyped(supplied, ret, syntax)
  BY InstrFields DEF WellTyped, ConvertType
<1>6. ret = "int" => AllTyped(put, ret)
  <2>. HIDE DEF new, supplied
  <2>. QED  BY <1>2, <1>4, <1>5, PutTyped
<1>. HIDE DEF new, put, old
<1>7. ASSUME NEW p \in IllTyped(syntax, put, ret)
      PROVE  p = <<insert, Len(old) + 1>> /\ put[p[1]][p[2]] = supplied
  <2>1. /\ p[1] \in DOMAIN blocks /\ p[2] \in DOMAIN put[p[1]] /\ p = <<p[1], p[2]>>
        /\ ~ WellTyped(put[p[1]][p[2]], ret, syntax)
    BY <1>3, <1>7, InIllTyped
  <2>2. p[1] = insert
    BY <1>3, <2>1 DEF AllTyped
  <2>3. ~ (p[2] \in DOMAIN old /\ (old \o new)[p[2]] = old[p[2]])
    BY <1>3, <2>1, <2>2 DEF AllTyped, old
  <2>4. /\ p[2] \in Len(old) + 1 .. Len(old) + Len(new) /\ p[2] - Len(old) \in DOMAIN new
        /\ (old \o new)[p[2]] = new[p[2] - Len(old)] /\ Len(old) \in Nat
    BY <1>2, <1>3, <2>1, <2>2, <2>3, Appended
  <2>5. p[2] - Len(old) = 1 /\ p[2] \in Int
    BY <1>4, <2>4
  <2>6. p[2] = Len(old) + 1
    BY <2>4, <2>5
  <2>. QED  BY <1>3, <1>4, <2>1, <2>2, <2>4, <2>5, <2>6
<1>8. BodyTyped(syntax, put, ret)
  <2>1. CASE ret = "int"
    BY <1>1, <1>6, <2>1
  <2>2. CASE ret # "int"
    BY <1>7, <2>2 DEF BodyTyped, supplied
  <2>. QED  BY <2>1, <2>2
<1>. QED  BY <1>1, <1>8 DEF put, new

(* A function ends: its body joins the module.                             *)
LEMMA OperandEnd == ASSUME TypeInv, InsertOK, OperandInv, EndFunction PROVE OperandInv'
<1>. DEFINE supplied == Put(<<Instr("ret", <<"i32">>)>>)
            body == IF HasTerminator(blocks[insert]) THEN blocks ELSE supplied
            g    == frames[1].node
            done == [def |-> g, blocks |-> body]
<1>1. /\ cursor \in DOMAIN syntax /\ syntax[cursor].n = "EndFunc" /\ frames # <<>> /\ TypeOK
      /\ cursor \in Nat \ {0} /\ cursor' = cursor + 1 /\ UNCHANGED <<syntax, values>>
      /\ cursor <= Len(syntax) /\ Len(syntax) \in Nat
      /\ blocks \in Seq(Blocks) /\ insert \in DOMAIN blocks
      /\ module \in Seq([def : Nat, blocks : Seq(Blocks)])
      /\ frames' = <<>> /\ module' = Append(module, done)
  BY ReadingNode DEF EndFunction, TypeInv, TypeOK, InsertOK, At
<1>2. body = blocks \/ body = supplied
  OBVIOUS
<1>3. done.def = g /\ done.blocks = body
  OBVIOUS
<1>. HIDE DEF body, supplied, g, done
<1>4. /\ DOMAIN module' = 1 .. Len(module) + 1 /\ Len(module) \in Nat /\ DOMAIN module = 1 .. Len(module)
      /\ \A f \in 1 .. Len(module) : module'[f] = module[f]
      /\ module'[Len(module) + 1] = done
  BY <1>1
<1>5. ASSUME OperatorCallsAreBuiltin, NEW st, Typing(syntax, st)
      PROVE  StackOK(st)' /\ OperandsAreTyped'
  <2>1. StackOK(st) /\ OperandsAreTyped
    BY <1>5 DEF OperandInv
  <2>2. st[cursor] = <<>> /\ st[cursor + 1] = <<>>
    BY <1>1, <1>5, StackStep DEF ExpNodes
  <2>3. StackOK(st)'
    BY <1>1, <2>1, <2>2 DEF StackOK
  <2>4. BodyTyped(syntax, body, RetOf(g))
    BY <1>1, <1>2, <2>1, BodyIsTyped DEF StackOK, supplied, g
  <2>5. \A f \in DOMAIN module : BodyTyped(syntax, module[f].blocks, RetOf(module[f].def))
    BY <1>5, <2>1, OperandsByBody
  <2>6. ASSUME NEW f \in DOMAIN module'
        PROVE  BodyTyped(syntax, module'[f].blocks, RetOf(module'[f].def))
    <3>1. f = Len(module) + 1 \/ f \in 1 .. Len(module)
      BY <1>4
    <3>2. CASE f = Len(module) + 1
      BY <1>3, <1>4, <2>4, <3>2
    <3>3. CASE f \in 1 .. Len(module)
      BY <1>4, <2>5, <3>3
    <3>. QED  BY <3>1, <3>2, <3>3
  <2>7. (\A f \in DOMAIN module : BodyTyped(syntax, module[f].blocks, RetOf(module[f].def)))'
    BY <1>1, <2>6 DEF RetOf
  <2>8. (OperandsAreTyped
           <=> (OperatorCallsAreBuiltin =>
                  \A f \in DOMAIN module : BodyTyped(syntax, module[f].blocks, RetOf(module[f].def))))'
    BY DEF OperandsAreTyped, BodyTyped, IllTyped, RetOf
  <2>9. OperandsAreTyped'
    BY <2>7, <2>8
  <2>. QED  BY <2>3, <2>9
<1>6. OperatorCallsAreBuiltin' = OperatorCallsAreBuiltin
  BY <1>1 DEF OperatorCallsAreBuiltin
<1>7. cursor + 1 <= Len(syntax) + 1 /\ WaitsOK(syntax, frames', cursor + 1)
  BY <1>1 DEF WaitsOK
<1>. QED  BY <1>1, <1>5, <1>6, <1>7 DEF OperandInv

-----------------------------------------------------------------------------
(* The invariant holds at the start, and every step keeps it.              *)
LEMMA StartOperand == ASSUME syntax \in Seq(Nodes), Start PROVE OperandInv
<1>1. cursor = 1 /\ Len(syntax) \in Nat /\ frames = <<>> /\ values = <<>> /\ module = <<>>
  BY DEF Start
<1>2. cursor <= Len(syntax) + 1 /\ WaitsOK(syntax, frames, cursor)
  BY <1>1 DEF WaitsOK
<1>3. ASSUME NEW st, Typing(syntax, st) PROVE StackOK(st) /\ OperandsAreTyped
  <2>1. ConvertTypes(st[cursor]) = <<>>
    BY <1>1, <1>3, ConvertEmpty DEF Typing
  <2>2. OperandsAreTyped
    BY <1>1 DEF OperandsAreTyped
  <2>. QED  BY <1>1, <2>1, <2>2 DEF StackOK
<1>. QED  BY <1>2, <1>3 DEF OperandInv

(* Steps that leave all of it alone.                                       *)
LEMMA OperandSame == ASSUME OperandInv, UNCHANGED <<syntax, cursor, frames, values, blocks, module>> PROVE OperandInv'
  BY DEF OperandInv, WaitsOK, StackOK, AllTyped, RetOf, OperandsAreTyped, OperatorCallsAreBuiltin

(* Every step keeps the operands typed.                                    *)
LEMMA NextOperand ==
  ASSUME IInv, LookupInv, OperandInv, [Next \/ Returned]_vars
  PROVE  OperandInv'
<1>1. TypeInv /\ InsertOK /\ TablesOK
  BY DEF IInv, OpenInv, OthersEnd, InsertOK, LookupInv
<1>2. CASE BeginFunction \/ EndFunction
  BY <1>1, <1>2, OperandBegin, OperandEnd
<1>3. CASE NextExp
  BY <1>1, <1>3, OperandVisitLeaf, OperandVisitCall DEF NextExp
<1>4. CASE NextStmt
  <2>1. CASE VisitReturn \/ VisitCallStmt \/ VisitIf \/ VisitSeq
    BY <1>1, <2>1, OperandVisitExpOf, Waiting
       DEF VisitReturn, VisitCallStmt, VisitIf, VisitSeq
  <2>2. CASE VisitAssign \/ VisitDecl \/ VisitWhile \/ EndSeq \/ VisitElse \/ EndIf \/ EndWhile
    BY <1>1, <2>2, OperandVisitAssign, OperandVisitDecl, OperandVisitWhile, OperandEndVisit
  <2>3. CASE EndCallStmt \/ EndReturn \/ EndAssign \/ EndDeclInit \/ EndIfCond \/ EndWhileCond
    BY <1>1, <2>3, OperandEndStmt, OperandEndCond
  <2>. QED  BY <1>4, <2>1, <2>2, <2>3 DEF NextStmt
<1>5. CASE Finish \/ UNCHANGED vars
  BY <1>5, OperandSame DEF Finish, vars, genVars
<1>. QED  BY <1>2, <1>3, <1>4, <1>5 DEF Next, Returned

\* The property, for the programs that have a typing.
TypedCode == (\E st : Typing(syntax, st)) => OperandsAreTyped

(* What is left to say of the module.                                      *)
LEMMA OperandsDone == OperandInv => TypedCode
<1>1. ~ OperatorCallsAreBuiltin => OperandsAreTyped
  BY DEF OperandsAreTyped
<1>. QED  BY <1>1 DEF OperandInv, TypedCode

(* Whatever the program: if it has a typing, as the typechecker promises,  *)
(* and calls no operators of its own, then every instruction of every      *)
(* finished function has operands of the types that it takes, every branch *)
(* is on an i1, every call has arguments of the types of the parameters,   *)
(* although code generation checks none of this; only the return that is   *)
(* supplied at the end of a bool function has an i32                       *)
(* (Codegen.cpp:138-189, 268-273, 357-366, 426-428).                       *)
THEOREM OperandsOfTypedPrograms == Spec => []TypedCode
<1>1. Init => LookupInv /\ OperandInv
  BY StartLookup, StartOperand, CodegenAssumption DEF Init
<1>2. IInv => TypeInv
  BY DEF IInv
<1>. QED  BY <1>1, <1>2, NextLookup, NextOperand, OperandsDone, Inductive, PTL DEF Spec

-----------------------------------------------------------------------------
(* Returns, said of the nodes alone                                        *)

\* Behind the return at r, nothing has been generated before node k.
Behind(prog, r, k) ==
  /\ prog[r].n = "Return"
  /\ \E e \in r + 1 .. k - 1 :
       /\ prog[e].n = "EndExp"
       /\ \A i \in r + 1 .. e - 1 : prog[i].n # "EndExp"
       /\ \A i \in e + 1 .. k - 1 : Inert(prog[i])

\* A return is the last that the nodes from f to k have generated.
Dead(prog, f, k) == \E r \in f .. k - 1 : Behind(prog, r, k)

MayFollow == {"Else", "EndIf", "EndFunc"}

\* A return is followed by what is neither the end of a branch nor that of
\* the function.
Bad(prog, f, k) ==
  \E g \in f .. k - 1 :
    Dead(prog, f, g) /\ ~Inert(prog[g]) /\ prog[g].n \notin MayFollow

\* Every return has its value.
ReturnsEnded(prog, f, k) ==
  \A r \in f .. k - 1 : prog[r].n = "Return" => \E e \in r + 1 .. k - 1 : prog[e].n = "EndExp"

(* Node k generates nothing.                                               *)
LEMMA DeadInert ==
  ASSUME NEW prog, NEW f \in Nat, NEW k \in Nat, Inert(prog[k])
  PROVE  Dead(prog, f, k + 1) <=> Dead(prog, f, k)
<1>0. prog[k].n \notin {"EndExp", "Return"}
  BY DEF Inert
<1>1. ASSUME Dead(prog, f, k) PROVE Dead(prog, f, k + 1)
  <2>1. PICK r \in f .. k - 1 : Behind(prog, r, k)
    BY <1>1 DEF Dead
  <2>2. PICK e \in r + 1 .. k - 1 :
             /\ prog[e].n = "EndExp"
             /\ \A i \in r + 1 .. e - 1 : prog[i].n # "EndExp"
             /\ \A i \in e + 1 .. k - 1 : Inert(prog[i])
    BY <2>1 DEF Behind
  <2>3. /\ e \in r + 1 .. (k + 1) - 1 /\ r \in f .. (k + 1) - 1
        /\ \A i \in e + 1 .. (k + 1) - 1 : i = k \/ i \in e + 1 .. k - 1
    OBVIOUS
  <2>. QED  BY <2>1, <2>2, <2>3 DEF Dead, Behind
<1>2. ASSUME Dead(prog, f, k + 1) PROVE Dead(prog, f, k)
  <2>1. PICK r \in f .. (k + 1) - 1 : Behind(prog, r, k + 1)
    BY <1>2 DEF Dead
  <2>2. PICK e \in r + 1 .. (k + 1) - 1 :
             /\ prog[e].n = "EndExp"
             /\ \A i \in r + 1 .. e - 1 : prog[i].n # "EndExp"
             /\ \A i \in e + 1 .. (k + 1) - 1 : Inert(prog[i])
    BY <2>1 DEF Behind
  <2>3. e # k /\ r # k
    BY <1>0, <2>1, <2>2 DEF Behind
  <2>4. /\ e \in r + 1 .. k - 1 /\ r \in f .. k - 1
        /\ \A i \in e + 1 .. k - 1 : i \in e + 1 .. (k + 1) - 1
    BY <2>3
  <2>. QED  BY <2>1, <2>2, <2>4 DEF Dead, Behind
<1>. QED  BY <1>1, <1>2

(* Node k generates something.                                             *)
LEMMA DeadOther ==
  ASSUME NEW prog, NEW f \in Nat, NEW k \in Nat, ~Inert(prog[k]), prog[k].n # "EndExp"
  PROVE  ~Dead(prog, f, k + 1)
<1>. SUFFICES ASSUME Dead(prog, f, k + 1) PROVE FALSE
  OBVIOUS
<1>1. PICK r \in f .. (k + 1) - 1 : Behind(prog, r, k + 1)
  BY DEF Dead
<1>2. PICK e \in r + 1 .. (k + 1) - 1 :
           /\ prog[e].n = "EndExp"
           /\ \A i \in e + 1 .. (k + 1) - 1 : Inert(prog[i])
  BY <1>1 DEF Behind
<1>3. k \in e + 1 .. (k + 1) - 1
  BY <1>2
<1>. QED  BY <1>2, <1>3

(* What node k adds to the bad returns.                                    *)
LEMMA BadStep ==
  ASSUME NEW prog, NEW f \in Nat, NEW k \in Nat, f <= k
  PROVE  Bad(prog, f, k + 1)
           <=> \/ Bad(prog, f, k)
               \/ Dead(prog, f, k) /\ ~Inert(prog[k]) /\ prog[k].n \notin MayFollow
<1>1. \A g \in f .. (k + 1) - 1 : g = k \/ g \in f .. k - 1
  OBVIOUS
<1>2. k \in f .. (k + 1) - 1 /\ \A g \in f .. k - 1 : g \in f .. (k + 1) - 1
  OBVIOUS
<1>. QED  BY <1>1, <1>2 DEF Bad

(* A node that is no return waits for no value.                            *)
LEMMA EndedStep ==
  ASSUME NEW prog, NEW f \in Nat, NEW k \in Nat, ReturnsEnded(prog, f, k), prog[k].n # "Return"
  PROVE  ReturnsEnded(prog, f, k + 1)
<1>1. \A r \in f .. (k + 1) - 1 : r = k \/ r \in f .. k - 1
  OBVIOUS
<1>2. \A r \in f .. k - 1 : \A e \in r + 1 .. k - 1 : e \in r + 1 .. (k + 1) - 1
  OBVIOUS
<1>. QED  BY <1>1, <1>2 DEF ReturnsEnded

\* The nodes between the statement at p and node k are those of its expression.
Between(prog, p, k) == p < k /\ \A i \in p + 1 .. k - 1 : prog[i].n \in ExpNodes

(* A statement at p whose expression ends at k.                            *)
LEMMA DeadBetween ==
  ASSUME NEW prog, NEW f \in Nat, NEW p \in Nat, NEW k \in Nat, f <= p,
         ReturnsEnded(prog, f, p), ~Inert(prog[p]), prog[p].n # "EndExp",
         Between(prog, p, k), NEW g \in p + 1 .. k
  PROVE  ~Dead(prog, f, g)
<1>. SUFFICES ASSUME Dead(prog, f, g) PROVE FALSE
  OBVIOUS
<1>1. PICK r \in f .. g - 1 : Behind(prog, r, g)
  BY DEF Dead
<1>2. PICK e \in r + 1 .. g - 1 :
           /\ prog[e].n = "EndExp"
           /\ \A i \in r + 1 .. e - 1 : prog[i].n # "EndExp"
           /\ \A i \in e + 1 .. g - 1 : Inert(prog[i])
  BY <1>1 DEF Behind
<1>3. e \notin p + 1 .. k - 1
  BY <1>2 DEF Between, ExpNodes
<1>4. e \in p + 1 .. k - 1 \/ e = p \/ p \in e + 1 .. g - 1
  BY <1>2 DEF Between
<1>. QED  BY <1>2, <1>3, <1>4

(* What a statement at p adds to the bad returns: only the one that it     *)
(* follows.                                                                *)
LEMMA BadExp ==
  ASSUME NEW prog, NEW f \in Nat, NEW p \in Nat, NEW k \in Nat, f <= p,
         ReturnsEnded(prog, f, p), ~Inert(prog[p]), prog[p].n \notin MayFollow \cup {"EndExp"},
         Between(prog, p, k)
  PROVE  Bad(prog, f, k + 1) <=> Bad(prog, f, p) \/ Dead(prog, f, p)
<1>1. \A g \in p + 1 .. k : ~Dead(prog, f, g)
  BY DeadBetween
<1>2. /\ \A g \in f .. (k + 1) - 1 : g \in p + 1 .. k \/ g = p \/ g \in f .. p - 1
      /\ p \in f .. (k + 1) - 1 /\ \A g \in f .. p - 1 : g \in f .. (k + 1) - 1
  BY DEF Between
<1>. QED  BY <1>1, <1>2 DEF Bad

(* Behind the expression of the statement at p, a return is the last that  *)
(* has been generated if that statement is one.                            *)
LEMMA DeadEnd ==
  ASSUME NEW prog, NEW f \in Nat, NEW p \in Nat, NEW k \in Nat, f <= p,
         ReturnsEnded(prog, f, p), ~Inert(prog[p]), prog[p].n # "EndExp",
         Between(prog, p, k), prog[k].n = "EndExp"
  PROVE  Dead(prog, f, k + 1) <=> prog[p].n = "Return"
<1>1. ASSUME prog[p].n = "Return" PROVE Dead(prog, f, k + 1)
  <2>1. /\ p \in f .. (k + 1) - 1 /\ k \in p + 1 .. (k + 1) - 1
        /\ k + 1 .. (k + 1) - 1 = {}
    BY DEF Between
  <2>2. \A i \in p + 1 .. k - 1 : prog[i].n # "EndExp"
    BY DEF Between, ExpNodes
  <2>. QED  BY <1>1, <2>1, <2>2 DEF Dead, Behind
<1>2. ASSUME Dead(prog, f, k + 1) PROVE prog[p].n = "Return"
  <2>1. PICK r \in f .. (k + 1) - 1 : Behind(prog, r, k + 1)
    BY <1>2 DEF Dead
  <2>2. PICK e \in r + 1 .. (k + 1) - 1 :
             /\ prog[e].n = "EndExp"
             /\ \A i \in r + 1 .. e - 1 : prog[i].n # "EndExp"
             /\ \A i \in e + 1 .. (k + 1) - 1 : Inert(prog[i])
    BY <2>1 DEF Behind
  <2>3. e = k
    <3>1. e = k \/ k \in e + 1 .. (k + 1) - 1
      BY <2>2
    <3>2. ~Inert(prog[k])
      BY DEF Inert
    <3>. QED  BY <2>2, <3>1, <3>2
  <2>4. r \notin p + 1 .. k - 1
    BY <2>1 DEF Behind, Between, ExpNodes
  <2>5. r \notin f .. p - 1
    <3>1. ASSUME r \in f .. p - 1 PROVE FALSE
      <4>1. PICK d \in r + 1 .. p - 1 : prog[d].n = "EndExp"
        BY <2>1, <3>1 DEF ReturnsEnded, Behind
      <4>2. d \in r + 1 .. e - 1
        BY <2>3, <4>1 DEF Between
      <4>. QED  BY <2>2, <4>1, <4>2
    <3>. QED  BY <3>1
  <2>6. r = p
    BY <2>2, <2>3, <2>4, <2>5
  <2>. QED  BY <2>1, <2>6 DEF Behind
<1>. QED  BY <1>1, <1>2

(* ... and has its value.                                                  *)
LEMMA EndedExp ==
  ASSUME NEW prog, NEW f \in Nat, NEW p \in Nat, NEW k \in Nat, f <= p,
         ReturnsEnded(prog, f, p), Between(prog, p, k), prog[k].n = "EndExp"
  PROVE  ReturnsEnded(prog, f, k + 1)
<1>. SUFFICES ASSUME NEW r \in f .. (k + 1) - 1, prog[r].n = "Return"
              PROVE  \E e \in r + 1 .. (k + 1) - 1 : prog[e].n = "EndExp"
  BY DEF ReturnsEnded
<1>1. r \notin p + 1 .. k - 1 /\ r # k
  BY DEF Between, ExpNodes
<1>2. r < k /\ k \in r + 1 .. (k + 1) - 1
  BY <1>1
<1>. QED  BY <1>2

-----------------------------------------------------------------------------
(* What follows a return                                                   *)

(* The least of a set of positions.                                        *)
LEMMA LeastIs ==
  ASSUME NEW S \in SUBSET Nat, NEW g \in S, \A i \in S : g <= i
  PROVE  Min(S) = g
<1>1. \A i \in S : i <= g => i = g
  OBVIOUS
<1>. QED  BY <1>1 DEF Min

(* The first node at which an expression ends, a function ends, or         *)
(* something is generated.                                                 *)
LEMMA FirstEndExp ==
  ASSUME syntax \in Seq(Nodes), NEW k \in Nat, NEW e \in k .. Len(syntax),
         syntax[e].n = "EndExp", \A i \in k .. e - 1 : syntax[i].n # "EndExp"
  PROVE  Following(k, LAMBDA node : node.n = "EndExp") = e
<1>. DEFINE S == {i \in k .. Len(syntax) : syntax[i].n = "EndExp"}
<1>1. S \in SUBSET Nat /\ e \in S /\ \A i \in S : e <= i
  OBVIOUS
<1>. HIDE DEF S
<1>2. Min(S) = e /\ S # {}
  BY <1>1, LeastIs
<1>. QED  BY <1>2 DEF Following, SelectInSubSeq, S

LEMMA FirstEndFunc ==
  ASSUME syntax \in Seq(Nodes), NEW k \in Nat, NEW e \in k .. Len(syntax),
         syntax[e].n = "EndFunc", \A i \in k .. e - 1 : syntax[i].n # "EndFunc"
  PROVE  FunctionEnd(k) = e
<1>. DEFINE S == {i \in k .. Len(syntax) : syntax[i].n = "EndFunc"}
<1>1. S \in SUBSET Nat /\ e \in S /\ \A i \in S : e <= i
  OBVIOUS
<1>. HIDE DEF S
<1>2. Min(S) = e /\ S # {}
  BY <1>1, LeastIs
<1>. QED  BY <1>2 DEF FunctionEnd, Following, SelectInSubSeq, S

LEMMA FirstLive ==
  ASSUME syntax \in Seq(Nodes), NEW k \in Nat, NEW e \in k .. Len(syntax),
         ~Inert(syntax[e]), \A i \in k .. e - 1 : Inert(syntax[i])
  PROVE  Following(k, LAMBDA node : ~Inert(node)) = e
<1>. DEFINE S == {i \in k .. Len(syntax) : ~Inert(syntax[i])}
<1>1. S \in SUBSET Nat /\ e \in S /\ \A i \in S : e <= i
  OBVIOUS
<1>. HIDE DEF S
<1>2. Min(S) = e /\ S # {}
  BY <1>1, LeastIs
<1>. QED  BY <1>2 DEF Following, SelectInSubSeq, S

(* A set of positions has a first.                                         *)
LEMMA FirstOf ==
  ASSUME NEW S \in SUBSET Nat, S # {}
  PROVE  \E g \in S : \A i \in S : g <= i
<1>1. IsWellFoundedOn(OpToRel(<, Nat), Nat)
  BY NatLessThanWellFounded
<1>2. PICK g \in S : \A i \in S : ~ (<<i, g>> \in OpToRel(<, Nat))
  BY <1>1, WFMin
<1>3. \A i \in S : ~ (i < g)
  BY <1>2 DEF OpToRel
<1>. QED  BY <1>3

\* Nothing is generated between the return at r, which ends before k, and the
\* node at g that follows it.
IsFollower(r, g, k) == g \in r + 1 .. k /\ Behind(syntax, r, g) /\ ~Inert(syntax[g])

(* What follows a return of a function.                                    *)
LEMMA FollowerOf ==
  ASSUME syntax \in Seq(Nodes), NEW k \in 1 .. Len(syntax), ~Inert(syntax[k]),
         NEW r \in 1 .. k - 1, syntax[r].n = "Return",
         \E e \in r + 1 .. k - 1 : syntax[e].n = "EndExp"
  PROVE  /\ IsFollower(r, Follower(r), k)
         /\ \A g : IsFollower(r, g, k) => g = Follower(r)
<1>. DEFINE Ends == {i \in r + 1 .. k - 1 : syntax[i].n = "EndExp"}
<1>0. r \in Nat /\ k \in Nat /\ Len(syntax) \in Nat /\ k <= Len(syntax)
  OBVIOUS
<1>1. PICK e \in Ends : \A i \in Ends : e <= i
  <2>1. Ends \in SUBSET Nat /\ Ends # {}
    BY <1>0
  <2>. HIDE DEF Ends
  <2>. QED  BY <2>1, FirstOf
<1>2. /\ e \in r + 1 .. k - 1 /\ syntax[e].n = "EndExp"
      /\ \A i \in r + 1 .. e - 1 : syntax[i].n # "EndExp"
  <2>1. \A i \in r + 1 .. e - 1 : i \in r + 1 .. k - 1 /\ ~ (e <= i)
    OBVIOUS
  <2>. QED  BY <1>1, <2>1
<1>. DEFINE Live == {i \in e + 1 .. k : ~Inert(syntax[i])}
<1>3. PICK g \in Live : \A i \in Live : g <= i
  <2>1. Live \in SUBSET Nat /\ k \in Live
    BY <1>0, <1>2
  <2>. HIDE DEF Live
  <2>. QED  BY <2>1, FirstOf
<1>4. /\ g \in e + 1 .. k /\ ~Inert(syntax[g])
      /\ \A i \in e + 1 .. g - 1 : Inert(syntax[i])
  <2>1. \A i \in e + 1 .. g - 1 : i \in e + 1 .. k /\ ~ (g <= i)
    BY <1>2
  <2>. QED  BY <1>3, <2>1
<1>. HIDE DEF Ends, Live
<1>5. Follower(r) = g
  <2>1. e \in r .. Len(syntax) /\ \A i \in r .. e - 1 : syntax[i].n # "EndExp"
    <3>1. \A i \in r .. e - 1 : i = r \/ i \in r + 1 .. e - 1
      BY <1>2
    <3>. QED  BY <1>0, <1>2, <3>1
  <2>2. Following(r, LAMBDA node : node.n = "EndExp") = e
    BY <1>0, <1>2, <2>1, FirstEndExp
  <2>3. g \in e + 1 .. Len(syntax) /\ e + 1 \in Nat
    BY <1>0, <1>2, <1>4
  <2>4. Following(e + 1, LAMBDA node : ~Inert(node)) = g
    BY <1>4, <2>3, FirstLive
  <2>. QED  BY <2>2, <2>4 DEF Follower
<1>6. IsFollower(r, g, k)
  <2>1. e \in r + 1 .. g - 1 /\ g \in r + 1 .. k
    BY <1>0, <1>2, <1>4
  <2>. QED  BY <1>2, <1>4, <2>1 DEF IsFollower, Behind
<1>7. ASSUME NEW h, IsFollower(r, h, k) PROVE h = g
  <2>1. h \in r + 1 .. k /\ ~Inert(syntax[h])
    BY <1>7 DEF IsFollower
  <2>2. PICK d \in r + 1 .. h - 1 :
             /\ syntax[d].n = "EndExp"
             /\ \A i \in r + 1 .. d - 1 : syntax[i].n # "EndExp"
             /\ \A i \in d + 1 .. h - 1 : Inert(syntax[i])
    BY <1>7 DEF IsFollower, Behind
  <2>3. d = e
    <3>1. ~ (d < e) /\ ~ (e < d)
      BY <1>2, <2>2
    <3>. QED  BY <1>2, <2>2, <3>1
  <2>4. h = g
    <3>1. ~ (g < h) /\ ~ (h < g)
      BY <1>2, <1>4, <2>1, <2>2, <2>3
    <3>. QED  BY <1>4, <2>1, <3>1
  <2>. QED  BY <2>4
<1>. QED  BY <1>5, <1>6, <1>7

(* What follows the returns of a function, when it ends.                   *)
LEMMA FollowersDead ==
  ASSUME syntax \in Seq(Nodes), NEW k \in 1 .. Len(syntax), syntax[k].n = "EndFunc",
         NEW f \in 1 .. k - 1, \A i \in f .. k - 1 : syntax[i].n # "EndFunc",
         ReturnsEnded(syntax, f, k)
  PROVE  /\ FunctionEnd(f) = k
         /\ \A g \in Followers(f) : g \in f .. k /\ ~Inert(syntax[g])
         /\ \A g \in f .. k : ~Inert(syntax[g]) => (g \in Followers(f) <=> Dead(syntax, f, g))
<1>0. /\ k \in Nat /\ f \in Nat /\ Len(syntax) \in Nat /\ k <= Len(syntax)
      /\ ~Inert(syntax[k]) /\ f .. k - 1 \subseteq 1 .. k - 1
  BY DEF Inert
<1>1. FunctionEnd(f) = k
  BY <1>0, FirstEndFunc
<1>2. ReturnsIn(f) = {r \in f .. k - 1 : syntax[r].n = "Return"}
  <2>1. \A r \in f .. k : r \in f .. k - 1 \/ r = k
    BY <1>0
  <2>2. f .. k - 1 \subseteq f .. k
    BY <1>0
  <2>. QED  BY <1>1, <2>1, <2>2 DEF ReturnsIn
<1>3. ASSUME NEW r \in ReturnsIn(f)
      PROVE  IsFollower(r, Follower(r), k) /\ \A g : IsFollower(r, g, k) => g = Follower(r)
  <2>1. r \in 1 .. k - 1 /\ syntax[r].n = "Return" /\ r \in f .. k - 1
    BY <1>0, <1>2, <1>3
  <2>2. \E e \in r + 1 .. k - 1 : syntax[e].n = "EndExp"
    BY <2>1 DEF ReturnsEnded
  <2>. QED  BY <1>0, <2>1, <2>2, FollowerOf
<1>4. ASSUME NEW g \in f .. k, ~Inert(syntax[g])
      PROVE  g \in Followers(f) <=> Dead(syntax, f, g)
  <2>1. ASSUME g \in Followers(f) PROVE Dead(syntax, f, g)
    <3>1. PICK r \in ReturnsIn(f) : g = Follower(r)
      BY <2>1 DEF Followers
    <3>2. Behind(syntax, r, g) /\ g \in r + 1 .. k
      BY <1>3, <3>1 DEF IsFollower
    <3>3. r \in f .. g - 1
      BY <1>0, <1>2, <3>2
    <3>. QED  BY <3>2, <3>3 DEF Dead
  <2>2. ASSUME Dead(syntax, f, g) PROVE g \in Followers(f)
    <3>1. PICK r \in f .. g - 1 : Behind(syntax, r, g)
      BY <2>2 DEF Dead
    <3>2. r \in ReturnsIn(f) /\ g \in r + 1 .. k
      BY <1>0, <1>2, <3>1 DEF Behind
    <3>3. g = Follower(r)
      BY <1>3, <1>4, <3>1, <3>2 DEF IsFollower
    <3>. QED  BY <3>2, <3>3 DEF Followers
  <2>. QED  BY <2>1, <2>2
<1>5. ASSUME NEW g \in Followers(f) PROVE g \in f .. k /\ ~Inert(syntax[g])
  <2>1. PICK r \in ReturnsIn(f) : g = Follower(r)
    BY <1>5 DEF Followers
  <2>2. g \in r + 1 .. k /\ ~Inert(syntax[g])
    BY <1>3, <2>1 DEF IsFollower
  <2>. QED  BY <1>0, <1>2, <2>2
<1>. QED  BY <1>1, <1>4, <1>5

(* The source of a function is clean, said of what has been generated when *)
(* it ends.                                                                *)
LEMMA CleanAtEnd ==
  ASSUME syntax \in Seq(Nodes), NEW k \in 1 .. Len(syntax), syntax[k].n = "EndFunc",
         NEW f \in 1 .. k - 1, \A i \in f .. k - 1 : syntax[i].n # "EndFunc",
         ReturnsEnded(syntax, f, k)
  PROVE  Clean(f) <=> /\ ~Bad(syntax, f, k)
                      /\ syntax[f].def.ret = "bool" => Dead(syntax, f, k)
<1>0. k \in f .. k /\ ~Inert(syntax[k])
  BY DEF Inert
<1>1. FunctionEnd(f) = k
  BY FollowersDead
<1>2. \A g \in f .. k : ~Inert(syntax[g]) => (g \in Followers(f) <=> Dead(syntax, f, g))
  BY FollowersDead
<1>3. \A g \in Followers(f) : g \in f .. k /\ ~Inert(syntax[g])
  BY FollowersDead
<1>4. (\A g \in Followers(f) : syntax[g].n \in MayFollow) <=> ~Bad(syntax, f, k)
  <2>1. \A g \in f .. k : g = k \/ g \in f .. k - 1
    OBVIOUS
  <2>2. "EndFunc" \in MayFollow /\ \A g \in f .. k - 1 : g \in f .. k
    BY DEF MayFollow
  <2>. QED  BY <1>2, <1>3, <2>1, <2>2 DEF Bad
<1>5. k \in Followers(f) <=> Dead(syntax, f, k)
  BY <1>0, <1>2
<1>. QED  BY <1>1, <1>4, <1>5 DEF Clean, MayFollow

-----------------------------------------------------------------------------
(* Terminators before the last instruction, and targets of branches        *)

\* The verifier refuses a block with a terminator that is not its last.
Cut(b) == \E i \in 1 .. Len(b) - 1 : b[i].op \in Terminators

SomeCut(bs) == \E b \in DOMAIN bs : Cut(bs[b])

\* Branches go to a block up to the n-th, and never to the entry block.
Aimed(b, n) == \A i \in DOMAIN b : \A t \in DOMAIN b[i].to : b[i].to[t] \in 2 .. n

Inside(bs, n) == \A b \in DOMAIN bs : Aimed(bs[b], n)

(* A terminator is cut off by what is appended to it.                      *)
LEMMA CutAppended ==
  ASSUME NEW old \in Seq(Instrs), NEW new \in Seq(Instrs), new # <<>>, ~Cut(new)
  PROVE  /\ Cut(old \o new) <=> Cut(old) \/ HasTerminator(old)
         /\ HasTerminator(old \o new) <=> HasTerminator(new)
<1>. DEFINE cat == old \o new  m == Len(old)  n == Len(new)
<1>1. /\ m \in Nat /\ n \in Nat /\ n >= 1 /\ Len(cat) = m + n
      /\ \A i \in 1 .. m : cat[i] = old[i]
      /\ \A i \in 1 .. n : cat[m + i] = new[i]
      /\ (old # <<>> <=> m >= 1) /\ cat # <<>>
  OBVIOUS
<1>. HIDE DEF cat
<1>2. ASSUME Cut(old) \/ HasTerminator(old) PROVE Cut(cat)
  <2>1. PICK i \in 1 .. m : old[i].op \in Terminators
    <3>1. m >= 1 => m \in 1 .. m
      BY <1>1
    <3>2. \A i \in 1 .. m - 1 : i \in 1 .. m
      BY <1>1
    <3>. QED  BY <1>1, <1>2, <3>1, <3>2 DEF Cut, HasTerminator
  <2>2. i \in 1 .. Len(cat) - 1
    BY <1>1
  <2>. QED  BY <1>1, <2>1, <2>2 DEF Cut
<1>3. ASSUME Cut(cat) PROVE Cut(old) \/ HasTerminator(old)
  <2>1. PICK i \in 1 .. (m + n) - 1 : cat[i].op \in Terminators
    BY <1>1, <1>3 DEF Cut
  <2>2. CASE i \in 1 .. m - 1
    <3>1. i \in 1 .. m
      BY <1>1, <2>2
    <3>2. old[i].op \in Terminators
      BY <1>1, <2>1, <3>1
    <3>. QED  BY <2>2, <3>2 DEF Cut
  <2>3. CASE i = m
    BY <1>1, <2>1, <2>3 DEF HasTerminator
  <2>4. CASE i \in m + 1 .. (m + n) - 1
    <3>1. i - m \in 1 .. n - 1 /\ i - m \in 1 .. n /\ m + (i - m) = i
      BY <1>1, <2>4
    <3>2. new[i - m].op \in Terminators
      BY <1>1, <2>1, <3>1
    <3>. QED  BY <3>1, <3>2 DEF Cut
  <2>. QED  BY <1>1, <2>2, <2>3, <2>4
<1>4. HasTerminator(cat) <=> HasTerminator(new)
  <2>1. cat[Len(cat)] = new[n]
    BY <1>1
  <2>. QED  BY <1>1, <2>1 DEF HasTerminator
<1>. QED  BY <1>2, <1>3, <1>4 DEF cat

(* The blocks after instructions have been appended to the current one.    *)
LEMMA PutCut ==
  ASSUME blocks \in Seq(Blocks), insert \in DOMAIN blocks,
         NEW new \in Seq(Instrs), new # <<>>, ~Cut(new)
  PROVE  /\ SomeCut(Put(new)) <=> SomeCut(blocks) \/ HasTerminator(blocks[insert])
         /\ HasTerminator(Put(new)[insert]) <=> HasTerminator(new)
<1>. DEFINE put == Put(new)  old == blocks[insert]
<1>1. /\ DOMAIN put = DOMAIN blocks /\ put[insert] = old \o new
      /\ \A b \in DOMAIN blocks : b # insert => put[b] = blocks[b]
  BY PutType
<1>2. old \in Seq(Instrs)
  BY DEF Blocks
<1>3. /\ Cut(put[insert]) <=> Cut(old) \/ HasTerminator(old)
      /\ HasTerminator(put[insert]) <=> HasTerminator(new)
  BY <1>1, <1>2, CutAppended
<1>. HIDE DEF put
<1>4. SomeCut(put) <=> SomeCut(blocks) \/ HasTerminator(old)
  BY <1>1, <1>3 DEF SomeCut
<1>. QED  BY <1>3, <1>4 DEF put

(* Nothing is appended.                                                    *)
LEMMA PutNothing ==
  ASSUME blocks \in Seq(Blocks), insert \in DOMAIN blocks
  PROVE  Put(<<>>) = blocks
<1>1. blocks[insert] \o <<>> = blocks[insert]
  BY DEF Blocks
<1>. QED  BY <1>1 DEF Put

(* Branches of what is appended stay in the function.                      *)
LEMMA PutInside ==
  ASSUME blocks \in Seq(Blocks), insert \in DOMAIN blocks, NEW new \in Seq(Instrs),
         NEW n, Inside(blocks, n), Aimed(new, n)
  PROVE  Inside(Put(new), n)
<1>. DEFINE put == Put(new)  old == blocks[insert]
<1>1. /\ DOMAIN put = DOMAIN blocks /\ put[insert] = old \o new
      /\ \A b \in DOMAIN blocks : b # insert => put[b] = blocks[b]
  BY PutType
<1>2. old \in Seq(Instrs) /\ Aimed(old, n)
  BY DEF Blocks, Inside
<1>. HIDE DEF put, old
<1>3. Aimed(old \o new, n)
  <2>1. \A i \in DOMAIN (old \o new) :
          \/ i \in DOMAIN old /\ (old \o new)[i] = old[i]
          \/ i - Len(old) \in DOMAIN new /\ (old \o new)[i] = new[i - Len(old)]
    BY <1>2, Appended
  <2>. QED  BY <1>2, <2>1 DEF Aimed
<1>4. Inside(put, n)
  BY <1>1, <1>3 DEF Inside
<1>. QED  BY <1>4 DEF put

(* More blocks to branch to.                                               *)
LEMMA InsideMore ==
  ASSUME NEW bs, NEW n \in Nat, NEW m \in Nat, n <= m, Inside(bs, n)
  PROVE  Inside(bs, m)
<1>1. \A t \in 2 .. n : t \in 2 .. m
  OBVIOUS
<1>. QED  BY <1>1 DEF Inside, Aimed

(* Empty blocks are appended to the function.                              *)
LEMMA NewBlocksClean ==
  ASSUME NEW bs \in Seq(Blocks), NEW n \in Nat, NEW new \in [1 .. n -> {<<>>}]
  PROVE  /\ Len(bs \o new) = Len(bs) + n /\ Len(bs) \in Nat
         /\ \A b \in 1 .. Len(bs) : (bs \o new)[b] = bs[b]
         /\ \A b \in Len(bs) + 1 .. Len(bs) + n : (bs \o new)[b] = <<>>
         /\ SomeCut(bs \o new) <=> SomeCut(bs)
         /\ \A m : Inside(bs, m) => Inside(bs \o new, m)
<1>1. new \in Seq({<<>>}) /\ Len(new) = n
  <2>1. new \in Seq({<<>>})
    BY SeqDef
  <2>. QED  BY <2>1
<1>2. /\ DOMAIN (bs \o new) = 1 .. Len(bs) + n /\ Len(bs) \in Nat /\ DOMAIN bs = 1 .. Len(bs)
      /\ Len(bs \o new) = Len(bs) + n
      /\ \A b \in 1 .. Len(bs) : (bs \o new)[b] = bs[b]
      /\ \A b \in Len(bs) + 1 .. Len(bs) + n : (bs \o new)[b] = <<>>
  BY <1>1
<1>. DEFINE cat == bs \o new
<1>3. /\ \A b \in DOMAIN cat : (b \in DOMAIN bs /\ cat[b] = bs[b]) \/ cat[b] = <<>>
      /\ \A b \in DOMAIN bs : b \in DOMAIN cat /\ cat[b] = bs[b]
  <2>1. \A b \in 1 .. Len(bs) + n : b \in 1 .. Len(bs) \/ b \in Len(bs) + 1 .. Len(bs) + n
    BY <1>2
  <2>2. 1 .. Len(bs) \subseteq 1 .. Len(bs) + n
    BY <1>2
  <2>. QED  BY <1>2, <2>1, <2>2
<1>. HIDE DEF cat
<1>4. ~Cut(<<>>) /\ \A m : Aimed(<<>>, m)
  BY DEF Cut, Aimed
<1>5. /\ SomeCut(cat) <=> SomeCut(bs)
      /\ \A m : Inside(bs, m) => Inside(cat, m)
  BY <1>3, <1>4 DEF SomeCut, Inside
<1>. QED  BY <1>2, <1>5 DEF cat

(* An allocation at the start of the entry block cuts nothing off.         *)
LEMMA AllocaClean ==
  ASSUME blocks \in Seq(Blocks), blocks # <<>>, NEW i \in Instrs,
         i.op \notin Terminators, i.to = <<>>
  PROVE  LET bs == [blocks EXCEPT ![1] = <<i>> \o @] IN
         /\ Len(bs) = Len(blocks)
         /\ \A b \in DOMAIN blocks : b # 1 => bs[b] = blocks[b]
         /\ SomeCut(bs) <=> SomeCut(blocks)
         /\ \A b \in DOMAIN blocks : HasTerminator(bs[b]) <=> HasTerminator(blocks[b])
         /\ \A n : Inside(blocks, n) => Inside(bs, n)
<1>. DEFINE old == blocks[1]  one == <<i>>
            bs == [blocks EXCEPT ![1] = one \o old]
<1>1. /\ old \in Seq(Instrs) /\ one \in Seq(Instrs) /\ DOMAIN bs = DOMAIN blocks
      /\ Len(bs) = Len(blocks) /\ 1 \in DOMAIN blocks
      /\ bs[1] = one \o old /\ \A b \in DOMAIN blocks : b # 1 => bs[b] = blocks[b]
  BY DEF Blocks
<1>2. one # <<>> /\ ~Cut(one) /\ ~HasTerminator(one) /\ \A n : Aimed(one, n)
  BY DEF Cut, HasTerminator, Aimed
<1>3. (Cut(one \o old) <=> Cut(old)) /\ (HasTerminator(one \o old) <=> HasTerminator(old))
  <2>. DEFINE cat == one \o old  m == Len(old)
  <2>1. /\ m \in Nat /\ Len(cat) = m + 1 /\ cat[1] = i
        /\ \A j \in 1 .. m : cat[j + 1] = old[j]
        /\ (old # <<>> <=> m >= 1) /\ cat # <<>>
    BY <1>1
  <2>. HIDE DEF cat, old
  <2>2. ASSUME Cut(cat) PROVE Cut(old)
    <3>1. PICK j \in 1 .. (m + 1) - 1 : cat[j].op \in Terminators
      BY <2>1, <2>2 DEF Cut
    <3>2. j # 1
      BY <2>1, <3>1
    <3>3. j - 1 \in 1 .. m - 1 /\ j - 1 \in 1 .. m /\ (j - 1) + 1 = j
      BY <2>1, <3>1, <3>2
    <3>4. old[j - 1].op \in Terminators
      BY <2>1, <3>1, <3>3
    <3>. QED  BY <3>3, <3>4 DEF Cut
  <2>3. ASSUME Cut(old) PROVE Cut(cat)
    <3>1. PICK j \in 1 .. m - 1 : old[j].op \in Terminators
      BY <2>3 DEF Cut
    <3>2. j + 1 \in 1 .. Len(cat) - 1 /\ j \in 1 .. m
      BY <2>1, <3>1
    <3>3. cat[j + 1].op \in Terminators
      BY <2>1, <3>1, <3>2
    <3>. QED  BY <3>2, <3>3 DEF Cut
  <2>4. CASE m >= 1
    <3>1. m \in 1 .. m /\ cat[m + 1] = old[m]
      BY <2>1, <2>4
    <3>. QED  BY <2>1, <2>2, <2>3, <2>4, <3>1 DEF HasTerminator, cat
  <2>5. CASE m = 0
    BY <2>1, <2>2, <2>3, <2>5 DEF HasTerminator, cat
  <2>. QED  BY <2>1, <2>4, <2>5
<1>4. ASSUME NEW n, Aimed(old, n) PROVE Aimed(one \o old, n)
  <2>. HIDE DEF old, one
  <2>1. \A j \in DOMAIN (one \o old) :
          \/ j \in DOMAIN one /\ (one \o old)[j] = one[j]
          \/ j - Len(one) \in DOMAIN old /\ (one \o old)[j] = old[j - Len(one)]
    BY <1>1, Appended
  <2>. QED  BY <1>2, <1>4, <2>1 DEF Aimed
<1>. HIDE DEF bs
<1>5. SomeCut(bs) <=> SomeCut(blocks)
  BY <1>1, <1>3 DEF SomeCut, old
<1>6. \A b \in DOMAIN blocks : HasTerminator(bs[b]) <=> HasTerminator(blocks[b])
  BY <1>1, <1>3
<1>7. \A n : Inside(blocks, n) => Inside(bs, n)
  BY <1>1, <1>4 DEF Inside, old
<1>. QED  BY <1>1, <1>5, <1>6, <1>7 DEF bs, one, old

-----------------------------------------------------------------------------
(* The blocks that an if or a while will go to                             *)

LoopPoints == {"WhileCond", "WhileBody", "BodyEnd"}

FrameOK(fr, n) ==
  /\ fr.pc \in LoopPoints => fr.loop \in 2 .. n
  /\ fr.pc \in {"IfThen", "ThenEnd"} => fr.els # fr.join

\* They are still empty, none of them is the current block, and every one
\* belongs to one statement.
PendingOK(fs, bs, ins) ==
  /\ \A i \in DOMAIN fs : FrameOK(fs[i], Len(bs))
  /\ \A i \in DOMAIN fs : \A b \in Pending(fs[i]) : b \in 2 .. Len(bs) /\ b # ins /\ bs[b] = <<>>
  /\ \A i, j \in DOMAIN fs : \A b \in Pending(fs[i]) : b \in Pending(fs[j]) => i = j

JumpInv ==
  /\ frames # <<>> => PendingOK(frames, blocks, insert) /\ Inside(blocks, Len(blocks))
  /\ \A m \in DOMAIN module : Inside(module[m].blocks, Len(module[m].blocks))

\* Every frame will go to no other blocks than before.
Covered(old, new, n) ==
  \A i \in DOMAIN new :
    /\ FrameOK(new[i], n)
    /\ Pending(new[i]) = {} \/ (i \in DOMAIN old /\ Pending(new[i]) \subseteq Pending(old[i]))

(* Nothing is generated in the blocks that wait.                           *)
LEMMA PendingKept ==
  ASSUME NEW fs, NEW bs, NEW ins, PendingOK(fs, bs, ins),
         NEW new, NEW more, NEW to, Len(bs) \in Nat, Len(more) \in Nat, Len(bs) <= Len(more),
         Covered(fs, new, Len(more)),
         \A b \in 2 .. Len(bs) : b # ins => more[b] = bs[b],
         \A i \in DOMAIN new : to \notin Pending(new[i])
  PROVE  PendingOK(new, more, to)
<1>1. \A i \in DOMAIN new : FrameOK(new[i], Len(more))
  BY DEF Covered
<1>2. ASSUME NEW i \in DOMAIN new, NEW b \in Pending(new[i])
      PROVE  /\ b \in 2 .. Len(more) /\ b # to /\ more[b] = <<>>
             /\ i \in DOMAIN fs /\ b \in Pending(fs[i])
  <2>1. i \in DOMAIN fs /\ b \in Pending(fs[i])
    BY <1>2 DEF Covered
  <2>2. b \in 2 .. Len(bs) /\ b # ins /\ bs[b] = <<>>
    BY <2>1 DEF PendingOK
  <2>. QED  BY <1>2, <2>1, <2>2
<1>3. ASSUME NEW i \in DOMAIN new, NEW j \in DOMAIN new, NEW b \in Pending(new[i]), b \in Pending(new[j])
      PROVE  i = j
  BY <1>2, <1>3 DEF PendingOK
<1>. QED  BY <1>1, <1>2, <1>3 DEF PendingOK

LEMMA FrameMore ==
  ASSUME NEW fr, NEW n \in Nat, NEW m \in Nat, n <= m, FrameOK(fr, n)
  PROVE  FrameOK(fr, m)
  BY DEF FrameOK

(* The innermost Visit function returns, or goes on.                       *)
LEMMA CoveredMoved ==
  ASSUME NEW fs \in Seq(Frames), fs # <<>>, NEW n, \A i \in DOMAIN fs : FrameOK(fs[i], n)
  PROVE  /\ Covered(fs, Front(fs), n)
         /\ \A fr \in Frames :
              FrameOK(fr, n) /\ Pending(fr) \subseteq Pending(Last(fs))
              => Covered(fs, [fs EXCEPT ![Len(fs)] = fr], n)
<1>1. Len(fs) \in Nat /\ Last(fs) = fs[Len(fs)] /\ DOMAIN fs = 1 .. Len(fs) /\ Len(fs) \in DOMAIN fs
  BY LastFrame
<1>2. \A i \in 1 .. Len(fs) - 1 : i \in DOMAIN fs
  BY <1>1, Positions
<1>3. Covered(fs, Front(fs), n)
  <2>1. DOMAIN Front(fs) = 1 .. Len(fs) - 1
    BY <1>1, FrontFrames
  <2>. QED  BY <1>2, <2>1, FrontFrames DEF Covered
<1>4. ASSUME NEW fr \in Frames, FrameOK(fr, n), Pending(fr) \subseteq Pending(Last(fs))
      PROVE  Covered(fs, [fs EXCEPT ![Len(fs)] = fr], n)
  <2>. DEFINE new == [fs EXCEPT ![Len(fs)] = fr]
  <2>1. /\ Len(new) = Len(fs) /\ new \in Seq(Frames) /\ new[Len(fs)] = fr
        /\ \A i \in 1 .. Len(fs) - 1 : new[i] = fs[i]
    BY ReplacedFrames
  <2>. HIDE DEF new
  <2>2. \A i \in DOMAIN new : i = Len(fs) \/ i \in 1 .. Len(fs) - 1
    BY <1>1, <2>1, Positions
  <2>3. Covered(fs, new, n)
    BY <1>1, <1>2, <1>4, <2>1, <2>2 DEF Covered
  <2>. QED  BY <2>3 DEF new
<1>. QED  BY <1>3, <1>4

(* The points between which a frame moves without going anywhere.          *)
LEMMA MovedFrame ==
  ASSUME NEW fr \in Frames, NEW n, FrameOK(fr, n)
  PROVE  /\ fr.pc \in StmtPoints =>
              LET new == [fr EXCEPT !.pc = After[fr.pc]]
              IN  new \in Frames /\ FrameOK(new, n) /\ Pending(new) = Pending(fr)
         /\ fr.pc = "ThenEnd" =>
              LET new == [fr EXCEPT !.pc = "IfElse"]
              IN  new \in Frames /\ FrameOK(new, n) /\ Pending(new) = {fr.join}
<1>1. CASE fr.pc \in StmtPoints
  <2>1. /\ fr.pc \in {"IfThen"} => After[fr.pc] = "ThenEnd"
        /\ fr.pc \in {"IfElse"} => After[fr.pc] = "ElseEnd"
        /\ fr.pc \in {"WhileBody"} => After[fr.pc] = "BodyEnd"
        /\ fr.pc \in {"FuncBody"} => After[fr.pc] = "FuncEnd"
        /\ fr.pc \in {"Seq"} => After[fr.pc] = "Seq"
        /\ After[fr.pc] \in ControlPoints
    BY <1>1 DEF StmtPoints, After, ControlPoints, EndPoints
  <2>. DEFINE new == [fr EXCEPT !.pc = After[fr.pc]]
  <2>2. /\ new.pc = After[fr.pc] /\ new.els = fr.els /\ new.join = fr.join /\ new.loop = fr.loop
        /\ new \in Frames
    BY <2>1 DEF Frames
  <2>. HIDE DEF new
  <2>3. FrameOK(new, n) /\ Pending(new) = Pending(fr)
    BY <1>1, <2>1, <2>2 DEF FrameOK, Pending, LoopPoints, StmtPoints
  <2>4. fr.pc # "ThenEnd"
    BY <1>1 DEF StmtPoints
  <2>. QED  BY <2>2, <2>3, <2>4 DEF new
<1>2. CASE fr.pc = "ThenEnd"
  <2>. DEFINE new == [fr EXCEPT !.pc = "IfElse"]
  <2>1. "IfElse" \in ControlPoints /\ "ThenEnd" \notin StmtPoints
    BY DEF ControlPoints, StmtPoints
  <2>2. new.pc = "IfElse" /\ new.join = fr.join /\ new \in Frames
    BY <2>1 DEF Frames
  <2>. HIDE DEF new
  <2>3. FrameOK(new, n) /\ Pending(new) = {fr.join}
    BY <2>2 DEF FrameOK, Pending, LoopPoints
  <2>. QED  BY <1>2, <2>1, <2>2, <2>3 DEF new
<1>. QED  BY <1>1, <1>2

(* A statement is visited.                                                 *)
LEMMA CoveredEntered ==
  ASSUME NEW fs \in Seq(Frames), At(fs, StmtPoints), NEW n, \A i \in DOMAIN fs : FrameOK(fs[i], n)
  PROVE  /\ Covered(fs, Resume(fs), n)
         /\ \A fr \in Frames : FrameOK(fr, n) /\ Pending(fr) = {} => Covered(fs, Enter(fs, fr), n)
<1>1. /\ fs # <<>> /\ Len(fs) \in Nat /\ Last(fs) \in Frames /\ Last(fs) = fs[Len(fs)]
      /\ DOMAIN fs = 1 .. Len(fs) /\ Len(fs) \in DOMAIN fs /\ Last(fs).pc \in StmtPoints
  BY LastFrame DEF At
<1>. DEFINE new == [Last(fs) EXCEPT !.pc = After[Last(fs).pc]]
<1>2. new \in Frames /\ FrameOK(new, n) /\ Pending(new) = Pending(Last(fs))
  BY <1>1, MovedFrame
<1>3. Resume(fs) = [fs EXCEPT ![Len(fs)] = new]
  BY <1>1 DEF Resume
<1>. HIDE DEF new
<1>4. Covered(fs, Resume(fs), n)
  BY <1>1, <1>2, <1>3, CoveredMoved
<1>5. ASSUME NEW fr \in Frames, FrameOK(fr, n), Pending(fr) = {}
      PROVE  Covered(fs, Enter(fs, fr), n)
  <2>1. /\ Enter(fs, fr) \in Seq(Frames) /\ Len(Enter(fs, fr)) = Len(fs) + 1
        /\ \A i \in 1 .. Len(fs) : Enter(fs, fr)[i] = Resume(fs)[i]
        /\ Enter(fs, fr)[Len(fs) + 1] = fr
        /\ Resume(fs) \in Seq(Frames) /\ Len(Resume(fs)) = Len(fs)
    BY EnterFrames
  <2>2. DOMAIN Resume(fs) = 1 .. Len(fs)
    BY <1>1, <2>1
  <2>3. \A i \in DOMAIN Enter(fs, fr) : i = Len(fs) + 1 \/ i \in 1 .. Len(fs)
    BY <1>1, <2>1
  <2>. QED  BY <1>4, <1>5, <2>1, <2>2, <2>3 DEF Covered
<1>. QED  BY <1>4, <1>5

(* The current block is none of those that wait.                           *)
LEMMA NotCurrent ==
  ASSUME NEW fs, NEW bs, NEW ins, PendingOK(fs, bs, ins), NEW new, NEW n, Covered(fs, new, n)
  PROVE  \A i \in DOMAIN new : ins \notin Pending(new[i])
  BY DEF Covered, PendingOK

(* A condition has been generated: the blocks after it are new.            *)
LEMMA PendingAdded ==
  ASSUME NEW fs \in Seq(Frames), fs # <<>>, NEW bs, NEW ins, PendingOK(fs, bs, ins),
         NEW more, Len(bs) \in Nat \ {0}, Len(more) \in Nat, Len(bs) <= Len(more),
         \A b \in 2 .. Len(bs) : b # ins => more[b] = bs[b],
         NEW to \in Nat, to > Len(bs),
         NEW fr \in Frames, FrameOK(fr, Len(more)),
         \A b \in Pending(fr) : b \in Len(bs) + 1 .. Len(more) /\ b # to /\ more[b] = <<>>
  PROVE  PendingOK([fs EXCEPT ![Len(fs)] = fr], more, to)
<1>. DEFINE new == [fs EXCEPT ![Len(fs)] = fr]
<1>1. /\ Len(new) = Len(fs) /\ new \in Seq(Frames) /\ new[Len(fs)] = fr
      /\ \A i \in 1 .. Len(fs) - 1 : new[i] = fs[i]
  BY ReplacedFrames
<1>. HIDE DEF new
<1>2. Len(fs) \in Nat /\ DOMAIN fs = 1 .. Len(fs) /\ DOMAIN new = 1 .. Len(fs)
  BY <1>1, LastFrame
<1>3. /\ \A i \in DOMAIN new : i = Len(fs) \/ i \in 1 .. Len(fs) - 1
      /\ \A i \in 1 .. Len(fs) - 1 : i \in DOMAIN fs
  BY <1>2, Positions
<1>4. ASSUME NEW i \in 1 .. Len(fs) - 1
      PROVE  /\ FrameOK(new[i], Len(more)) /\ new[i] = fs[i]
             /\ \A b \in Pending(new[i]) : /\ b \in 2 .. Len(bs) /\ b \in 2 .. Len(more) /\ b # to
                                           /\ more[b] = <<>>
  <2>1. /\ FrameOK(fs[i], Len(bs)) /\ new[i] = fs[i]
        /\ \A b \in Pending(fs[i]) : b \in 2 .. Len(bs) /\ b # ins /\ bs[b] = <<>>
    BY <1>1, <1>3, <1>4 DEF PendingOK
  <2>2. FrameOK(fs[i], Len(more))
    BY <2>1, FrameMore
  <2>3. \A b \in 2 .. Len(bs) : b \in 2 .. Len(more) /\ b # to
    OBVIOUS
  <2>. QED  BY <2>1, <2>2, <2>3
<1>5. \A b \in Pending(new[Len(fs)]) :
        /\ b \notin 2 .. Len(bs) /\ b \in 2 .. Len(more) /\ b # to /\ more[b] = <<>>
  <2>1. \A b \in Len(bs) + 1 .. Len(more) : b \notin 2 .. Len(bs) /\ b \in 2 .. Len(more)
    OBVIOUS
  <2>. QED  BY <1>1, <2>1
<1>6. \A i \in DOMAIN new : FrameOK(new[i], Len(more))
  BY <1>1, <1>3, <1>4
<1>7. ASSUME NEW i \in DOMAIN new, NEW j \in DOMAIN new, NEW b \in Pending(new[i]), b \in Pending(new[j])
      PROVE  i = j
  <2>1. CASE i = Len(fs) /\ j = Len(fs)
    BY <2>1
  <2>2. CASE i \in 1 .. Len(fs) - 1 /\ j \in 1 .. Len(fs) - 1
    <3>1. b \in Pending(fs[i]) /\ b \in Pending(fs[j]) /\ i \in DOMAIN fs /\ j \in DOMAIN fs
      BY <1>3, <1>4, <1>7, <2>2
    <3>. QED  BY <3>1 DEF PendingOK
  <2>3. CASE (i = Len(fs) /\ j \in 1 .. Len(fs) - 1) \/ (j = Len(fs) /\ i \in 1 .. Len(fs) - 1)
    BY <1>4, <1>5, <1>7, <2>3
  <2>. QED  BY <1>3, <2>1, <2>2, <2>3
<1>8. PendingOK(new, more, to)
  BY <1>3, <1>4, <1>5, <1>6, <1>7 DEF PendingOK
<1>. QED  BY <1>8 DEF new

-----------------------------------------------------------------------------
(* The invariant                                                           *)

\* The blocks are as the nodes from f to k say.
Matches(prog, bs, ins, f, k) ==
  /\ ReturnsEnded(prog, f, k)
  /\ SomeCut(bs) <=> Bad(prog, f, k)
  /\ HasTerminator(bs[ins]) <=> Dead(prog, f, k)

\* The statement at p, which will generate something, has been started.
Started(prog, bs, ins, f, p) ==
  /\ ~Inert(prog[p])
  /\ ReturnsEnded(prog, f, p)
  /\ SomeCut(bs) \/ HasTerminator(bs[ins]) <=> Bad(prog, f, p) \/ Dead(prog, f, p)

CleanInv ==
  frames # <<>> =>
    LET f == frames[1].node
        p == Last(frames).node
    IN  /\ \A i \in f .. cursor - 1 : syntax[i].n # "EndFunc"
        /\ IF At(frames, ExpPoints)
           THEN /\ p \in f .. cursor - 1
                /\ Started(syntax, blocks, insert, f, p)
                /\ Last(frames).pc = "CallExp" /\ IsStmtCall(syntax[cursor - 1]) =>
                     ~HasTerminator(blocks[insert])
           ELSE Matches(syntax, blocks, insert, f, cursor)

Typable == \E st : Typing(syntax, st)

(* What is known of the current function.                                  *)
LEMMA Within ==
  ASSUME TypeInv, InsertOK, TablesOK, JumpInv, CleanInv, frames # <<>>
  PROVE  /\ TypeOK /\ frames \in Seq(Frames) /\ blocks \in Seq(Blocks) /\ insert \in DOMAIN blocks
         /\ Len(blocks) \in Nat \ {0} /\ blocks # <<>> /\ DOMAIN blocks = 1 .. Len(blocks)
         /\ cursor \in Nat \ {0} /\ frames[1].node \in Nat /\ frames[1].node \in 1 .. cursor - 1
         /\ PendingOK(frames, blocks, insert) /\ Inside(blocks, Len(blocks))
         /\ \A i \in DOMAIN frames : FrameOK(frames[i], Len(blocks))
         /\ \A i \in frames[1].node .. cursor - 1 : syntax[i].n # "EndFunc"
  BY DEF TypeInv, TypeOK, InsertOK, TablesOK, JumpInv, CleanInv, PendingOK

(* A step in a function, after which no Visit function waits.              *)
LEMMA CleanNow ==
  ASSUME TypeInv, InsertOK, TablesOK, JumpInv, CleanInv, frames # <<>>, syntax[cursor].n # "EndFunc",
         syntax' = syntax, cursor' = cursor + 1, module' = module,
         frames' # <<>> => frames'[1].node = frames[1].node,
         frames' \in Seq(Frames), NoneWaits(frames'),
         PendingOK(frames', blocks', insert'), Inside(blocks', Len(blocks')),
         Matches(syntax, blocks', insert', frames[1].node, cursor + 1)
  PROVE  JumpInv' /\ CleanInv'
<1>1. frames' # <<>> => ~At(frames', ExpPoints)
  <2>1. frames' # <<>> => Last(frames') = frames'[Len(frames')] /\ Len(frames') \in DOMAIN frames'
    BY LastFrame
  <2>. QED  BY <2>1 DEF NoneWaits, At
<1>2. \A i \in frames[1].node .. (cursor + 1) - 1 : syntax[i].n # "EndFunc"
  <2>1. \A i \in frames[1].node .. (cursor + 1) - 1 : i = cursor \/ i \in frames[1].node .. cursor - 1
    BY Within
  <2>. QED  BY <2>1, Within
<1>3. CleanInv'
  BY <1>1, <1>2 DEF CleanInv, At
<1>. QED  BY <1>3 DEF JumpInv

(* A statement has been started whose expression comes next.               *)
LEMMA CleanStarted ==
  ASSUME TypeInv, InsertOK, TablesOK, JumpInv, CleanInv, At(frames, StmtPoints),
         syntax[cursor].n \in DOMAIN WaitsAt,
         syntax' = syntax, cursor' = cursor + 1, module' = module,
         NEW fr \in Frames, fr.node = cursor, fr.pc \in ExpPoints, frames' = Enter(frames, fr),
         FrameOK(fr, Len(blocks')), Len(blocks) <= Len(blocks'), Len(blocks') \in Nat,
         \A b \in 2 .. Len(blocks) : b # insert => blocks'[b] = blocks[b],
         insert' = insert \/ insert' > Len(blocks), insert' \in Nat, Inside(blocks', Len(blocks')),
         Started(syntax, blocks', insert', frames[1].node, cursor)
  PROVE  JumpInv' /\ CleanInv'
<1>. DEFINE n == Len(blocks')
<1>1. frames # <<>> /\ frames \in Seq(Frames)
  BY DEF At, TypeInv, TypeOK
<1>2. syntax[cursor].n \notin {"EndFunc"} \cup ExpNodes
  BY Waiting DEF ExpNodes
<1>3. PendingOK(frames', blocks', insert')
  <2>1. \A i \in DOMAIN frames : FrameOK(frames[i], n)
    BY <1>1, Within, FrameMore
  <2>2. Pending(fr) = {}
    BY DEF Pending, ExpPoints
  <2>3. Covered(frames, frames', n)
    BY <1>1, <2>1, <2>2, CoveredEntered
  <2>4. \A i \in DOMAIN frames' : insert' \notin Pending(frames'[i])
    <3>1. CASE insert' = insert
      BY <1>1, <2>3, <3>1, NotCurrent, Within
    <3>2. CASE insert' > Len(blocks)
      <4>1. \A i \in DOMAIN frames' : Pending(frames'[i]) \subseteq 2 .. Len(blocks)
        BY <1>1, <2>3, Within DEF Covered, PendingOK
      <4>2. insert' \notin 2 .. Len(blocks)
        BY <1>1, <3>2, Within
      <4>. QED  BY <4>1, <4>2
    <3>. QED  BY <3>1, <3>2
  <2>. QED  BY <1>1, <2>3, <2>4, PendingKept, Within
<1>4. frames'[1].node = frames[1].node /\ frames' # <<>> /\ Last(frames') = fr
  <2>1. /\ Enter(frames, fr) \in Seq(Frames) /\ Len(Enter(frames, fr)) = Len(frames) + 1
        /\ Enter(frames, fr)[Len(frames) + 1] = fr /\ Len(frames) \in Nat
    BY <1>1, EnterFrames, LastFrame
  <2>. QED  BY <1>1, <2>1, EnteredOutermost DEF Last
<1>5. \A i \in frames[1].node .. (cursor + 1) - 1 : syntax[i].n # "EndFunc"
  <2>1. \A i \in frames[1].node .. (cursor + 1) - 1 : i = cursor \/ i \in frames[1].node .. cursor - 1
    BY <1>1, Within
  <2>. QED  BY <1>1, <1>2, <2>1, Within
<1>6. cursor \in frames[1].node .. (cursor + 1) - 1 /\ (cursor + 1) - 1 = cursor
  BY <1>1, Within
<1>7. ~IsStmtCall(syntax[cursor])
  BY <1>2 DEF IsStmtCall, ExpNodes
<1>8. CleanInv'
  BY <1>4, <1>5, <1>6, <1>7 DEF CleanInv, At
<1>. QED  BY <1>3, <1>8 DEF JumpInv

-----------------------------------------------------------------------------
(* Statements                                                              *)

(* While no expression is visited, the blocks are as the nodes say.        *)
LEMMA Matching ==
  ASSUME CleanInv, frames # <<>>, Last(frames).pc \notin ExpPoints
  PROVE  Matches(syntax, blocks, insert, frames[1].node, cursor)
  BY DEF CleanInv, At

(* No Visit function waits for a statement and an expression at once.      *)
LEMMA StmtOrExp == \A pc : pc \in StmtPoints \cup EndPoints => pc \notin ExpPoints
  BY DEF StmtPoints, EndPoints, ExpPoints

(* Node k generates nothing.                                               *)
LEMMA MatchesInert ==
  ASSUME NEW prog, NEW f \in Nat, NEW k \in Nat, f <= k, Inert(prog[k]),
         NEW bs, NEW ins, Matches(prog, bs, ins, f, k),
         NEW more, NEW to, SomeCut(more) <=> SomeCut(bs),
         HasTerminator(more[to]) <=> HasTerminator(bs[ins])
  PROVE  Matches(prog, more, to, f, k + 1)
<1>1. prog[k].n # "Return"
  BY DEF Inert
<1>. QED  BY <1>1, DeadInert, BadStep, EndedStep DEF Matches

(* A Visit function that waits for no expression is entered.               *)
LEMMA EnteredNone ==
  ASSUME NEW prog, NEW k, NEW fs \in Seq(Frames), At(fs, StmtPoints), WaitsOK(prog, fs, k),
         NEW fr \in Frames, fr.pc \notin ExpPoints
  PROVE  NoneWaits(Enter(fs, fr))
<1>1. /\ Enter(fs, fr) \in Seq(Frames) /\ Len(Enter(fs, fr)) = Len(fs) + 1 /\ Len(fs) \in Nat
      /\ \A i \in 1 .. Len(fs) : Enter(fs, fr)[i] = Resume(fs)[i]
      /\ Enter(fs, fr)[Len(fs) + 1] = fr
      /\ Resume(fs) \in Seq(Frames) /\ Len(Resume(fs)) = Len(fs)
  BY EnterFrames
<1>2. \A i \in DOMAIN Enter(fs, fr) : i = Len(fs) + 1 \/ i \in 1 .. Len(fs)
  BY <1>1
<1>3. DOMAIN Resume(fs) = 1 .. Len(fs)
  BY <1>1
<1>4. NoneWaits(Resume(fs))
  BY WaitsEntered
<1>. QED  BY <1>1, <1>2, <1>3, <1>4 DEF NoneWaits

(* The statements that only go on with an expression.                      *)
LEMMA CleanVisitExpOf ==
  ASSUME TypeInv, InsertOK, TablesOK, OperandInv, JumpInv, CleanInv,
         NEW kind \in {"Return", "CallStmt", "If", "Assign"},
         NEW pc \in {"ReturnExp", "CallExp", "IfCond", "AssignExp"}, VisitExpOf(kind, pc)
  PROVE  JumpInv' /\ CleanInv'
<1>1. /\ At(frames, StmtPoints) /\ frames # <<>> /\ cursor \in Nat /\ syntax[cursor].n = kind
      /\ cursor' = cursor + 1 /\ UNCHANGED <<syntax, blocks, insert, module>>
      /\ frames' = Enter(frames, NewFrame(pc, 0))
  BY ReadingNode DEF VisitExpOf, VisitStmt, TypeInv, TypeOK, At
<1>. DEFINE fr == NewFrame(pc, 0)
<1>2. fr \in Frames /\ fr.pc = pc /\ fr.node = cursor
  BY <1>1, NewFrameType, Waiting DEF ExpPoints
<1>. HIDE DEF fr
<1>3. pc \in ExpPoints /\ FrameOK(fr, Len(blocks)) /\ kind \in DOMAIN WaitsAt
  BY <1>2, Waiting DEF FrameOK, LoopPoints
<1>4. Matches(syntax, blocks, insert, frames[1].node, cursor)
  BY <1>1, Matching, StmtOrExp DEF At
<1>5. Started(syntax, blocks, insert, frames[1].node, cursor)
  BY <1>1, <1>4 DEF Matches, Started, Inert
<1>6. /\ Len(blocks') = Len(blocks) /\ Len(blocks) <= Len(blocks') /\ Len(blocks') \in Nat
      /\ insert' \in Nat /\ Inside(blocks', Len(blocks'))
  BY <1>1, Within
<1>. QED  BY <1>1, <1>2, <1>3, <1>5, <1>6, CleanStarted DEF fr

(* A block of statements begins.                                           *)
LEMMA CleanVisitSeq ==
  ASSUME TypeInv, InsertOK, TablesOK, OperandInv, JumpInv, CleanInv, VisitSeq
  PROVE  JumpInv' /\ CleanInv'
<1>1. /\ At(frames, StmtPoints) /\ frames # <<>> /\ frames \in Seq(Frames) /\ cursor \in Nat
      /\ syntax[cursor].n = "Seq"
      /\ cursor' = cursor + 1 /\ UNCHANGED <<syntax, blocks, insert, module>>
      /\ frames' = Enter(frames, NewFrame("Seq", 0))
  BY ReadingNode DEF VisitSeq, VisitExpOf, VisitStmt, TypeInv, TypeOK, At
<1>. DEFINE fr == NewFrame("Seq", 0)
<1>2. fr \in Frames /\ fr.pc = "Seq" /\ fr.pc \notin ExpPoints
  BY <1>1, NewFrameType, Waiting
<1>. HIDE DEF fr
<1>3. FrameOK(fr, Len(blocks)) /\ Pending(fr) = {}
  BY <1>2 DEF FrameOK, LoopPoints, Pending
<1>4. Covered(frames, frames', Len(blocks)) /\ frames' \in Seq(Frames)
  BY <1>1, <1>2, <1>3, CoveredEntered, EnterFrames, Within DEF fr
<1>5. PendingOK(frames', blocks, insert)
  BY <1>1, <1>4, NotCurrent, PendingKept, Within
<1>6. NoneWaits(frames') /\ frames'[1].node = frames[1].node
  BY <1>1, <1>2, EnteredNone, EnteredOutermost DEF OperandInv, fr
<1>7. Matches(syntax, blocks, insert, frames[1].node, cursor)
  BY <1>1, Matching, StmtOrExp DEF At
<1>8. Matches(syntax, blocks, insert, frames[1].node, cursor + 1)
  BY <1>1, <1>7, MatchesInert, Within DEF Inert
<1>. QED  BY <1>1, <1>4, <1>5, <1>6, <1>8, CleanNow, Within

(* A declaration.                                                          *)
LEMMA CleanVisitDecl ==
  ASSUME TypeInv, InsertOK, TablesOK, OperandInv, JumpInv, CleanInv, VisitDecl
  PROVE  JumpInv' /\ CleanInv'
<1>. DEFINE node == syntax[cursor]
            decl == LocalDecl(cursor, node.name, node.type)
            i    == Access("alloca", <<>>, decl)
            fr   == NewFrame("DeclInit", 0)
            f    == frames[1].node
<1>1. /\ At(frames, StmtPoints) /\ frames # <<>> /\ frames \in Seq(Frames) /\ cursor \in Nat
      /\ node \in Nodes /\ node.n = "Decl"
      /\ cursor' = cursor + 1 /\ UNCHANGED <<syntax, insert, module>>
      /\ blocks' = [blocks EXCEPT ![1] = <<i>> \o @]
      /\ frames' = IF node.init THEN Enter(frames, fr) ELSE Resume(frames)
  BY ReadingNode DEF VisitDecl, VisitStmt, TypeInv, TypeOK, At
<1>2. fr \in Frames /\ fr.pc = "DeclInit" /\ fr.node = cursor /\ fr.pc \in ExpPoints
  BY <1>1, NewFrameType, Waiting
<1>3. i \in Instrs /\ i.op \notin Terminators /\ i.to = <<>>
  <2>1. decl \in VarDecls
    BY <1>1, NodeKinds, LocalDeclType
  <2>2. i.op = "alloca" /\ i.to = <<>>
    BY DEF Access, Instr
  <2>. HIDE DEF i
  <2>. QED  BY <2>1, <2>2, SomeInstrs DEF Terminators, i
<1>. HIDE DEF fr, i, decl
<1>4. /\ Len(blocks') = Len(blocks)
      /\ \A b \in DOMAIN blocks : b # 1 => blocks'[b] = blocks[b]
      /\ SomeCut(blocks') <=> SomeCut(blocks)
      /\ \A b \in DOMAIN blocks : HasTerminator(blocks'[b]) <=> HasTerminator(blocks[b])
      /\ \A n : Inside(blocks, n) => Inside(blocks', n)
  BY <1>1, <1>3, AllocaClean, Within
<1>5. /\ Len(blocks) <= Len(blocks') /\ Len(blocks') \in Nat /\ insert' \in Nat
      /\ \A b \in 2 .. Len(blocks) : b # insert => blocks'[b] = blocks[b]
      /\ Inside(blocks', Len(blocks'))
      /\ HasTerminator(blocks'[insert]) <=> HasTerminator(blocks[insert])
  <2>1. \A b \in 2 .. Len(blocks) : b # 1 /\ b \in DOMAIN blocks
    BY <1>1, Within
  <2>2. /\ Len(blocks) \in Nat /\ insert \in DOMAIN blocks /\ insert \in Nat
        /\ Inside(blocks, Len(blocks)) /\ insert' = insert
    BY <1>1, Within
  <2>3. HasTerminator(blocks'[insert]) <=> HasTerminator(blocks[insert])
    BY <1>4, <2>2
  <2>4. Len(blocks) <= Len(blocks') /\ Len(blocks') \in Nat /\ Inside(blocks', Len(blocks'))
    BY <1>4, <2>2
  <2>. QED  BY <1>4, <2>1, <2>2, <2>3, <2>4
<1>6. Matches(syntax, blocks, insert, f, cursor)
  BY <1>1, Matching, StmtOrExp DEF At
<1>7. CASE node.init
  <2>1. FrameOK(fr, Len(blocks')) /\ "Decl" \in DOMAIN WaitsAt
    BY <1>2, Waiting DEF FrameOK, LoopPoints
  <2>2. Started(syntax, blocks', insert, f, cursor)
    BY <1>1, <1>4, <1>5, <1>6, <1>7 DEF Matches, Started, Inert
  <2>. QED  BY <1>1, <1>2, <1>5, <1>7, <2>1, <2>2, CleanStarted
<1>8. CASE ~node.init
  <2>1. frames' = Resume(frames)
    BY <1>1, <1>8
  <2>2. Covered(frames, frames', Len(blocks))
    BY <1>1, <2>1, CoveredEntered, Within
  <2>3. PendingOK(frames', blocks', insert')
    BY <1>1, <1>4, <1>5, <2>2, NotCurrent, PendingKept, Within
  <2>4. NoneWaits(frames') /\ frames'[1].node = f /\ frames' \in Seq(Frames)
    <3>1. Resume(frames) \in Seq(Frames)
      BY <1>1, <1>2, EnterFrames
    <3>. QED  BY <1>1, <2>1, <3>1, WaitsEntered, EnteredOutermost DEF OperandInv
  <2>5. Matches(syntax, blocks', insert, f, cursor + 1)
    <3>1. Inert(syntax[cursor])
      BY <1>1, <1>8 DEF Inert
    <3>2. f \in Nat /\ cursor \in Nat /\ f <= cursor
      BY <1>1, Within
    <3>. HIDE DEF f, node
    <3>. QED  BY <1>4, <1>5, <1>6, <3>1, <3>2, MatchesInert
  <2>. QED  BY <1>1, <1>5, <2>3, <2>4, <2>5, CleanNow
<1>. QED  BY <1>7, <1>8

(* A branch is one instruction, with one target.                           *)
LEMMA BranchFacts ==
  ASSUME NEW to \in Nat
  PROVE  LET br == <<Jump("br", <<>>, <<to>>)>> IN
         /\ br \in Seq(Instrs) /\ br # <<>> /\ ~Cut(br) /\ HasTerminator(br)
         /\ \A n : to \in 2 .. n => Aimed(br, n)
<1>. DEFINE i == Jump("br", <<>>, <<to>>)  br == <<i>>
<1>1. br \in Seq(Instrs) /\ i.op = "br" /\ i.to = <<to>>
  BY SomeInstrs DEF Jump, Instr
<1>. HIDE DEF i
<1>2. br # <<>> /\ ~Cut(br) /\ HasTerminator(br)
  BY <1>1 DEF Cut, HasTerminator, Terminators
<1>3. ASSUME NEW n, to \in 2 .. n PROVE Aimed(br, n)
  <2>1. \A t \in DOMAIN i.to : i.to[t] = to
    BY <1>1
  <2>. QED  BY <1>3, <2>1 DEF Aimed
<1>. QED  BY <1>1, <1>2, <1>3 DEF i

(* The blocks with a branch appended.                                      *)
LEMMA PutBranch ==
  ASSUME blocks \in Seq(Blocks), insert \in DOMAIN blocks, NEW to \in Nat
  PROVE  LET put == Put(<<Jump("br", <<>>, <<to>>)>>) IN
         /\ put \in Seq(Blocks) /\ Len(put) = Len(blocks)
         /\ \A b \in DOMAIN blocks : b # insert => put[b] = blocks[b]
         /\ SomeCut(put) <=> SomeCut(blocks) \/ HasTerminator(blocks[insert])
         /\ \A n : Inside(blocks, n) /\ to \in 2 .. n => Inside(put, n)
<1>. DEFINE br == <<Jump("br", <<>>, <<to>>)>>
<1>1. /\ br \in Seq(Instrs) /\ br # <<>> /\ ~Cut(br)
      /\ \A n : to \in 2 .. n => Aimed(br, n)
  BY BranchFacts
<1>. HIDE DEF br
<1>. QED  BY <1>1, PutType, PutCut, PutInside DEF br

(* The head of a loop opens a block before its condition.                  *)
LEMMA CleanVisitWhile ==
  ASSUME TypeInv, InsertOK, TablesOK, OperandInv, JumpInv, CleanInv, VisitWhile
  PROVE  JumpInv' /\ CleanInv'
<1>. DEFINE len  == Len(blocks)
            loop == len + 1
            fr   == NewFrame("WhileCond", loop)
            put  == Put(<<Jump("br", <<>>, <<loop>>)>>)
            f    == frames[1].node
<1>1. /\ At(frames, StmtPoints) /\ frames # <<>> /\ frames \in Seq(Frames) /\ cursor \in Nat
      /\ syntax[cursor].n = "While"
      /\ cursor' = cursor + 1 /\ UNCHANGED <<syntax, module>> /\ insert' = loop
      /\ blocks' = Append(put, <<>>) /\ frames' = Enter(frames, fr)
  BY ReadingNode DEF VisitWhile, VisitStmt, TypeInv, TypeOK, At
<1>2. len \in Nat \ {0} /\ loop \in Nat /\ loop > len /\ loop \in 2 .. loop /\ len <= loop
  BY <1>1, Within
<1>. HIDE DEF len
<1>3. fr \in Frames /\ fr.pc = "WhileCond" /\ fr.node = cursor /\ fr.pc \in ExpPoints /\ fr.loop = loop
  <2>. HIDE DEF loop
  <2>. QED  BY <1>1, <1>2, NewFrameType, Waiting DEF NewFrame
<1>. HIDE DEF fr, loop
<1>4. /\ put \in Seq(Blocks) /\ Len(put) = len
      /\ \A b \in DOMAIN blocks : b # insert => put[b] = blocks[b]
      /\ SomeCut(put) <=> SomeCut(blocks) \/ HasTerminator(blocks[insert])
      /\ Inside(put, loop)
  <2>1. Inside(blocks, loop)
    BY <1>1, <1>2, Within, InsideMore DEF len
  <2>. QED  BY <1>1, <1>2, <2>1, PutBranch, Within DEF len
<1>. HIDE DEF put
<1>5. /\ Len(blocks') = loop
      /\ \A b \in 1 .. len : blocks'[b] = put[b]
      /\ blocks'[loop] = <<>>
      /\ SomeCut(blocks') <=> SomeCut(put)
      /\ Inside(blocks', loop)
  <2>. DEFINE new == << <<>> >>
  <2>1. new \in [1 .. 1 -> {<<>>}] /\ 1 \in Nat
    OBVIOUS
  <2>2. blocks' = put \o new
    BY <1>1, <1>4
  <2>. HIDE DEF new
  <2>3. /\ Len(blocks') = len + 1
        /\ \A b \in 1 .. len : blocks'[b] = put[b]
        /\ \A b \in len + 1 .. len + 1 : blocks'[b] = <<>>
        /\ SomeCut(blocks') <=> SomeCut(put)
        /\ \A m : Inside(put, m) => Inside(blocks', m)
    BY <1>4, <2>1, <2>2, NewBlocksClean
  <2>4. loop \in len + 1 .. len + 1 /\ loop = len + 1
    BY <1>2 DEF loop
  <2>. QED  BY <1>4, <2>3, <2>4
<1>6. \A b \in 2 .. len : b # insert => blocks'[b] = blocks[b]
  <2>1. \A b \in 2 .. len : b \in 1 .. len /\ b \in DOMAIN blocks
    BY <1>1, <1>2, Within DEF len
  <2>. QED  BY <1>4, <1>5, <2>1
<1>7. FrameOK(fr, loop) /\ "While" \in DOMAIN WaitsAt
  BY <1>2, <1>3, Waiting DEF FrameOK
<1>8. Started(syntax, blocks', insert', f, cursor)
  <2>1. Matches(syntax, blocks, insert, f, cursor)
    BY <1>1, Matching, StmtOrExp DEF At
  <2>2. ~HasTerminator(blocks'[insert'])
    BY <1>1, <1>5 DEF HasTerminator
  <2>. QED  BY <1>1, <1>4, <1>5, <2>1, <2>2 DEF Matches, Started, Inert
<1>. QED  BY <1>1, <1>2, <1>3, <1>5, <1>6, <1>7, <1>8, CleanStarted DEF len

(* Node k generates something, in an empty block.                          *)
LEMMA MatchesLive ==
  ASSUME NEW prog, NEW f \in Nat, NEW k \in Nat, f <= k,
         ~Inert(prog[k]), prog[k].n \notin {"EndExp", "Return"},
         NEW bs, NEW ins, Matches(prog, bs, ins, f, k), NEW more, NEW to,
         SomeCut(more) <=> SomeCut(bs) \/ (HasTerminator(bs[ins]) /\ prog[k].n \notin MayFollow),
         ~HasTerminator(more[to])
  PROVE  Matches(prog, more, to, f, k + 1)
<1>1. ReturnsEnded(prog, f, k + 1)
  BY EndedStep DEF Matches
<1>2. ~Dead(prog, f, k + 1)
  BY DeadOther
<1>3. Bad(prog, f, k + 1) <=> Bad(prog, f, k) \/ (Dead(prog, f, k) /\ prog[k].n \notin MayFollow)
  BY BadStep
<1>. QED  BY <1>1, <1>2, <1>3 DEF Matches

(* A branch that is left out behind a terminator.                          *)
LEMMA BranchOnce ==
  ASSUME blocks \in Seq(Blocks), insert \in DOMAIN blocks, NEW to \in Nat
  PROVE  LET put == BranchUnlessTerminated(to) IN
         /\ put \in Seq(Blocks) /\ Len(put) = Len(blocks)
         /\ \A b \in DOMAIN blocks : b # insert => put[b] = blocks[b]
         /\ SomeCut(put) <=> SomeCut(blocks)
         /\ \A n : Inside(blocks, n) /\ to \in 2 .. n => Inside(put, n)
<1>1. CASE HasTerminator(blocks[insert])
  BY <1>1 DEF BranchUnlessTerminated
<1>2. CASE ~HasTerminator(blocks[insert])
  <2>1. BranchUnlessTerminated(to) = Put(<<Jump("br", <<>>, <<to>>)>>)
    BY <1>2 DEF BranchUnlessTerminated
  <2>. QED  BY <1>2, <2>1, PutBranch
<1>. QED  BY <1>1, <1>2

(* A block of statements ends.                                             *)
LEMMA CleanEndSeq ==
  ASSUME TypeInv, InsertOK, TablesOK, OperandInv, JumpInv, CleanInv, EndSeq
  PROVE  JumpInv' /\ CleanInv'
<1>1. /\ frames # <<>> /\ Last(frames).pc = "Seq" /\ frames \in Seq(Frames) /\ cursor \in Nat
      /\ syntax[cursor].n = "EndSeq" /\ frames' = Front(frames)
      /\ cursor' = cursor + 1 /\ UNCHANGED <<syntax, blocks, insert, module>>
  BY ReadingNode DEF EndSeq, EndVisit, TypeInv, TypeOK, At
<1>2. frames' \in Seq(Frames) /\ NoneWaits(frames') /\ (frames' # <<>> => frames'[1].node = frames[1].node)
  BY <1>1, FrontFrames, WaitsMoved, PoppedOutermost DEF OperandInv
<1>3. Covered(frames, frames', Len(blocks))
  BY <1>1, CoveredMoved, Within
<1>4. PendingOK(frames', blocks, insert)
  BY <1>1, <1>3, NotCurrent, PendingKept, Within
<1>5. Matches(syntax, blocks, insert, frames[1].node, cursor)
  BY <1>1, Matching DEF ExpPoints
<1>6. Matches(syntax, blocks, insert, frames[1].node, cursor + 1)
  BY <1>1, <1>5, MatchesInert, Within DEF Inert
<1>. QED  BY <1>1, <1>2, <1>4, <1>6, CleanNow, Within

\* The code goes on in a block that a statement has waited for.
Continues(to) ==
  /\ frames # <<>> /\ Last(frames).pc \in EndPoints \ {"FuncEnd"}
  /\ to \in Pending(Last(frames))
  /\ insert' = to /\ Len(blocks') = Len(blocks)
  /\ \A b \in DOMAIN blocks : b # insert => blocks'[b] = blocks[b]
  /\ cursor' = cursor + 1 /\ UNCHANGED <<syntax, module>>
  /\ \/ frames' = Front(frames)
     \/ /\ Last(frames).pc = "ThenEnd" /\ to = Last(frames).els /\ frames' = SetPc(frames, "IfElse")

(* ... which is empty, and waits no longer.                                *)
LEMMA ContinuesPending ==
  ASSUME frames \in Seq(Frames), blocks \in Seq(Blocks), PendingOK(frames, blocks, insert),
         NEW to, Continues(to)
  PROVE  /\ frames' \in Seq(Frames) /\ (frames' # <<>> => frames'[1].node = frames[1].node)
         /\ PendingOK(frames', blocks', insert')
         /\ insert' = to /\ blocks'[to] = <<>>
<1>. DEFINE last == Len(frames)  fr == Last(frames)  f == frames[1].node
<1>1. /\ frames # <<>> /\ fr = frames[last] /\ last \in DOMAIN frames
      /\ fr \in Frames /\ last \in Nat /\ DOMAIN frames = 1 .. last
  BY LastFrame DEF Continues
<1>2. /\ \A i \in DOMAIN frames : FrameOK(frames[i], Len(blocks))
      /\ \A i \in DOMAIN frames : \A b \in Pending(frames[i]) :
           b \in 2 .. Len(blocks) /\ b # insert /\ blocks[b] = <<>>
      /\ \A i, j \in DOMAIN frames : \A b \in Pending(frames[i]) : b \in Pending(frames[j]) => i = j
      /\ DOMAIN blocks = 1 .. Len(blocks) /\ Len(blocks) \in Nat
  BY <1>1 DEF PendingOK
<1>3. /\ to \in 2 .. Len(blocks) /\ to # insert /\ blocks[to] = <<>>
      /\ \A i \in 1 .. last - 1 : to \notin Pending(frames[i])
  <2>1. to \in Pending(frames[last])
    BY <1>1 DEF Continues
  <2>2. \A i \in 1 .. last - 1 : i \in DOMAIN frames /\ i # last
    BY <1>1, Positions
  <2>. QED  BY <1>1, <1>2, <2>1, <2>2
<1>4. /\ frames' \in Seq(Frames) /\ (frames' # <<>> => frames'[1].node = f)
      /\ Covered(frames, frames', Len(blocks))
      /\ \A i \in DOMAIN frames' : to \notin Pending(frames'[i])
  <2>1. CASE frames' = Front(frames)
    <3>1. frames' \in Seq(Frames) /\ (frames' # <<>> => frames'[1].node = f)
      BY <1>1, <2>1, FrontFrames, PoppedOutermost
    <3>2. Covered(frames, frames', Len(blocks))
      BY <1>1, <1>2, <2>1, CoveredMoved
    <3>3. DOMAIN frames' = 1 .. last - 1 /\ \A i \in 1 .. last - 1 : frames'[i] = frames[i]
      BY <1>1, <2>1, FrontFrames
    <3>. QED  BY <1>3, <3>1, <3>2, <3>3
  <2>2. CASE fr.pc = "ThenEnd" /\ to = fr.els /\ frames' = SetPc(frames, "IfElse")
    <3>. DEFINE new == [fr EXCEPT !.pc = "IfElse"]
    <3>1. new \in Frames /\ FrameOK(new, Len(blocks)) /\ Pending(new) = {fr.join}
      BY <1>1, <1>2, <2>2, MovedFrame
    <3>2. frames' = [frames EXCEPT ![last] = new]
      BY <1>1, <2>2 DEF SetPc
    <3>3. fr.join \in Pending(fr) /\ fr.els # fr.join
      <4>1. FrameOK(fr, Len(blocks))
        BY <1>1, <1>2
      <4>. QED  BY <2>2, <4>1 DEF Pending, FrameOK
    <3>. HIDE DEF new
    <3>4. Covered(frames, frames', Len(blocks))
      BY <1>1, <1>2, <3>1, <3>2, <3>3, CoveredMoved
    <3>5. "IfElse" \in ControlPoints
      BY DEF ControlPoints, StmtPoints
    <3>6. /\ frames' \in Seq(Frames) /\ frames'[1].node = f
          /\ Len(frames') = last /\ frames'[last] = new
          /\ \A i \in 1 .. last - 1 : frames'[i] = frames[i]
      <4>1. /\ frames' \in Seq(Frames) /\ Len(frames') = last /\ frames'[last] = new
            /\ \A i \in 1 .. last - 1 : frames'[i] = frames[i]
        <5>1. [frames EXCEPT ![last] = new] = [frames EXCEPT ![Len(frames)] = new]
          OBVIOUS
        <5>. HIDE DEF last
        <5>2. last = Len(frames)
          BY DEF last
        <5>. QED  BY <1>1, <3>1, <3>2, <5>2, ReplacedFrames
      <4>2. frames'[1].node = f
        BY <1>1, <2>2, <3>5, MovedOutermost
      <4>. QED  BY <4>1, <4>2
    <3>7. \A i \in DOMAIN frames' : i = last \/ i \in 1 .. last - 1
      BY <1>1, <3>6, Positions
    <3>. QED  BY <1>3, <2>2, <3>1, <3>3, <3>4, <3>6, <3>7
  <2>. QED  BY <2>1, <2>2 DEF Continues
<1>5. blocks'[to] = <<>> /\ Len(blocks') = Len(blocks) /\ insert' = to
  BY <1>2, <1>3 DEF Continues
<1>6. PendingOK(frames', blocks', insert')
  <2>1. \A b \in 2 .. Len(blocks) : b # insert => blocks'[b] = blocks[b]
    BY <1>2 DEF Continues
  <2>. QED  BY <1>2, <1>4, <1>5, <2>1, PendingKept
<1>. QED  BY <1>3, <1>4, <1>5, <1>6

(* A branch or a loop ends, and code generation goes on in a block that    *)
(* waits.                                                                  *)
LEMMA CleanContinues ==
  ASSUME TypeInv, InsertOK, TablesOK, OperandInv, JumpInv, CleanInv, NEW to, Continues(to),
         syntax[cursor].n \in {"Else", "EndIf", "EndWhile"},
         Inside(blocks', Len(blocks')),
         SomeCut(blocks')
           <=> SomeCut(blocks) \/ (HasTerminator(blocks[insert]) /\ syntax[cursor].n \notin MayFollow)
  PROVE  JumpInv' /\ CleanInv'
<1>. DEFINE f == frames[1].node
<1>1. /\ frames # <<>> /\ frames \in Seq(Frames)
      /\ frames' \in Seq(Frames) /\ (frames' # <<>> => frames'[1].node = f)
      /\ PendingOK(frames', blocks', insert') /\ blocks'[insert'] = <<>>
  <2>1. frames # <<>>
    BY DEF Continues
  <2>. QED  BY <2>1, ContinuesPending, Within
<1>2. NoneWaits(frames')
  <2>1. "IfElse" \in ControlPoints \ ExpPoints
    BY DEF ControlPoints, StmtPoints, ExpPoints
  <2>. QED  BY <1>1, <2>1, WaitsMoved DEF Continues, OperandInv
<1>3. Matches(syntax, blocks, insert, f, cursor)
  BY <1>1, Matching, StmtOrExp DEF Continues
<1>4. Matches(syntax, blocks', insert', f, cursor + 1)
  <2>1. ~Inert(syntax[cursor]) /\ syntax[cursor].n \notin {"EndExp", "Return"}
    BY DEF Inert
  <2>2. ~HasTerminator(blocks'[insert'])
    BY <1>1 DEF HasTerminator
  <2>3. f \in Nat /\ cursor \in Nat /\ f <= cursor
    BY <1>1, Within
  <2>. HIDE DEF f
  <2>. QED  BY <1>3, <2>1, <2>2, <2>3, MatchesLive
<1>5. cursor' = cursor + 1 /\ UNCHANGED <<syntax, module>>
  BY DEF Continues
<1>. QED  BY <1>1, <1>2, <1>4, <1>5, CleanNow

(* The ends of the branches of an if, and of the body of a loop.           *)
LEMMA CleanEndVisit ==
  ASSUME TypeInv, InsertOK, TablesOK, OperandInv, JumpInv, CleanInv,
         VisitElse \/ EndIf \/ EndWhile
  PROVE  JumpInv' /\ CleanInv'
<1>. DEFINE fr == Last(frames)
<1>1. /\ frames # <<>> /\ frames \in Seq(Frames) /\ fr \in Frames
      /\ cursor' = cursor + 1 /\ UNCHANGED <<syntax, module>>
      /\ blocks \in Seq(Blocks) /\ insert \in DOMAIN blocks /\ Inside(blocks, Len(blocks))
      /\ fr = frames[Len(frames)] /\ Len(frames) \in DOMAIN frames
  <2>1. frames # <<>> /\ cursor' = cursor + 1 /\ UNCHANGED <<syntax, module>>
    BY DEF VisitElse, EndIf, EndWhile, EndVisit, At
  <2>. QED  BY <2>1, LastFrame, Within
<1>2. \A to \in Pending(fr) : to \in 2 .. Len(blocks) /\ to \in Nat
  BY <1>1, Within DEF PendingOK
<1>3. CASE VisitElse
  <2>1. /\ fr.pc = "ThenEnd" /\ syntax[cursor].n = "Else" /\ fr.els # 0
        /\ blocks' = BranchUnlessTerminated(fr.join) /\ insert' = fr.els
        /\ frames' = SetPc(frames, "IfElse")
    BY <1>3 DEF VisitElse, EndVisit, At, Reading
  <2>2. fr.join \in Pending(fr) /\ fr.els \in Pending(fr)
    BY <2>1 DEF Pending
  <2>3. Continues(fr.els) /\ Inside(blocks', Len(blocks')) /\ (SomeCut(blocks') <=> SomeCut(blocks))
    BY <1>1, <1>2, <2>1, <2>2, BranchOnce DEF Continues, EndPoints
  <2>. QED  BY <2>1, <2>3, CleanContinues DEF MayFollow
<1>4. CASE EndIf
  <2>1. /\ fr.pc \in {"ThenEnd", "ElseEnd"} /\ syntax[cursor].n = "EndIf"
        /\ blocks' = BranchUnlessTerminated(fr.join) /\ insert' = fr.join
        /\ frames' = Front(frames)
    BY <1>4 DEF EndIf, EndVisit, At, Reading
  <2>2. fr.join \in Pending(fr)
    BY <2>1 DEF Pending
  <2>3. Continues(fr.join) /\ Inside(blocks', Len(blocks')) /\ (SomeCut(blocks') <=> SomeCut(blocks))
    BY <1>1, <1>2, <2>1, <2>2, BranchOnce DEF Continues, EndPoints
  <2>. QED  BY <2>1, <2>3, CleanContinues DEF MayFollow
<1>5. CASE EndWhile
  <2>1. /\ fr.pc = "BodyEnd" /\ syntax[cursor].n = "EndWhile"
        /\ blocks' = Put(<<Jump("br", <<>>, <<fr.loop>>)>>) /\ insert' = fr.join
        /\ frames' = Front(frames)
    BY <1>5 DEF EndWhile, EndVisit, At, Reading
  <2>2. fr.join \in Pending(fr)
    BY <2>1 DEF Pending
  <2>3. fr.loop \in 2 .. Len(blocks) /\ fr.loop \in Nat
    <3>1. FrameOK(fr, Len(blocks))
      BY <1>1, Within
    <3>. QED  BY <1>1, <2>1, <3>1 DEF FrameOK, LoopPoints, Frames
  <2>4. /\ Continues(fr.join) /\ Inside(blocks', Len(blocks'))
        /\ SomeCut(blocks') <=> SomeCut(blocks) \/ HasTerminator(blocks[insert])
    BY <1>1, <1>2, <2>1, <2>2, <2>3, PutBranch DEF Continues, EndPoints
  <2>. QED  BY <2>1, <2>4, CleanContinues DEF MayFollow
<1>. QED  BY <1>3, <1>4, <1>5

-----------------------------------------------------------------------------
(* Expressions                                                             *)

\* Instructions that control passes straight through.
Straight(instrs) ==
  /\ instrs \in Seq(Instrs)
  /\ \A i \in DOMAIN instrs : instrs[i].op \notin Terminators /\ instrs[i].to = <<>>

(* One instruction.                                                        *)
LEMMA StraightOne ==
  ASSUME NEW i \in Instrs, i.op \notin Terminators, i.to = <<>>
  PROVE  Straight(<<i>>)
<1>. DEFINE one == <<i>>
<1>1. one \in Seq(Instrs) /\ \A j \in DOMAIN one : one[j] = i
  OBVIOUS
<1>. HIDE DEF one
<1>2. Straight(one)
  BY <1>1 DEF Straight
<1>. QED  BY <1>2 DEF one

(* They cut nothing off, and go nowhere.                                   *)
LEMMA StraightFacts ==
  ASSUME NEW instrs, Straight(instrs)
  PROVE  /\ instrs \in Seq(Instrs) /\ ~Cut(instrs) /\ ~HasTerminator(instrs)
         /\ \A n : Aimed(instrs, n)
<1>1. /\ instrs \in Seq(Instrs) /\ Len(instrs) \in Nat /\ DOMAIN instrs = 1 .. Len(instrs)
      /\ instrs # <<>> => Len(instrs) \in DOMAIN instrs
  BY DEF Straight
<1>2. \A i \in 1 .. Len(instrs) - 1 : i \in DOMAIN instrs
  BY <1>1, Positions
<1>. QED  BY <1>1, <1>2 DEF Straight, Cut, HasTerminator, Aimed

(* What an expression generates.                                           *)
LEMMA StraightNextExp ==
  ASSUME TypeInv, InsertOK, NextExp
  PROVE  /\ At(frames, ExpPoints) /\ cursor \in DOMAIN syntax /\ syntax[cursor].n \in ExpNodes
         /\ \/ Abort
            \/ \E vals, instrs : /\ Generate(vals, instrs) /\ Straight(instrs)
                                 /\ IsStmtCall(syntax[cursor]) => instrs # <<>>
<1>1. PICK kind \in ExpNodes : VisitExp(kind)
  BY DEF NextExp, VisitConst, VisitVarExp, VisitCallExp, ExpNodes
<1>2. At(frames, ExpPoints) /\ cursor \in DOMAIN syntax /\ syntax[cursor].n \in ExpNodes
  BY <1>1, ReadingNode DEF VisitExp, TypeInv
<1>3. Straight(<<>>)
  BY DEF Straight
<1>4. CASE VisitConst
  <2>1. PICK vals : Generate(vals, <<>>)
    BY <1>4 DEF VisitConst
  <2>2. ~IsStmtCall(syntax[cursor])
    BY <1>4, ReadingNode DEF VisitConst, VisitExp, TypeInv, IsStmtCall
  <2>. QED  BY <1>2, <1>3, <2>1, <2>2
<1>5. CASE VisitVarExp
  <2>. DEFINE decl == syntax[cursor].decl
  <2>1. decl \in VarDecls /\ ~IsStmtCall(syntax[cursor])
    BY <1>5, ReadingNode, NodeKinds DEF VisitVarExp, VisitExp, TypeInv, IsStmtCall
  <2>2. \/ Abort
        \/ \E vals : Generate(vals, <<Access("load", <<>>, decl)>>) \/ Generate(vals, <<>>)
    BY <1>5 DEF VisitVarExp
  <2>3. Straight(<<Access("load", <<>>, decl)>>)
    <3>1. Access("load", <<>>, decl) \in Instrs
      BY <2>1, SomeInstrs
    <3>2. Access("load", <<>>, decl).op = "load" /\ Access("load", <<>>, decl).to = <<>>
      BY DEF Access, Instr
    <3>3. "load" \notin Terminators
      BY DEF Terminators
    <3>. QED  BY <3>1, <3>2, <3>3, StraightOne
  <2>. HIDE DEF decl
  <2>. QED  BY <1>2, <1>3, <2>1, <2>2, <2>3
<1>6. CASE VisitCallExp
  <2>1. \/ Abort
        \/ \E vals \in Seq(IRTypes), instrs \in Seq(Instrs) :
             /\ Generate(vals, instrs)
             /\ \A i \in DOMAIN instrs :
                  instrs[i].op \in {"binary", "icmp", "select", "zext", "call"} /\ instrs[i].to = <<>>
             /\ IsStmtCall(syntax[cursor]) => instrs # <<>>
    BY <1>6, CallInstrs
  <2>2. {"binary", "icmp", "select", "zext", "call"} \cap Terminators = {}
    BY DEF Terminators
  <2>. QED  BY <1>2, <2>1, <2>2 DEF Straight
<1>. QED  BY <1>4, <1>5, <1>6 DEF NextExp

(* A failed assertion.                                                     *)
LEMMA CleanAbort == ASSUME JumpInv, CleanInv, Abort PROVE JumpInv' /\ CleanInv'
  BY DEF Abort, JumpInv, CleanInv, At

(* The blocks with straight instructions appended, behind a return or not. *)
LEMMA PutStraight ==
  ASSUME blocks \in Seq(Blocks), insert \in DOMAIN blocks, NEW instrs, Straight(instrs)
  PROVE  /\ Len(Put(instrs)) = Len(blocks)
         /\ \A b \in DOMAIN blocks : b # insert => Put(instrs)[b] = blocks[b]
         /\ SomeCut(Put(instrs)) \/ HasTerminator(Put(instrs)[insert])
              <=> SomeCut(blocks) \/ HasTerminator(blocks[insert])
         /\ instrs # <<>> =>
              /\ ~HasTerminator(Put(instrs)[insert])
              /\ SomeCut(Put(instrs)) <=> SomeCut(blocks) \/ HasTerminator(blocks[insert])
         /\ \A n : Inside(blocks, n) => Inside(Put(instrs), n)
<1>. DEFINE put == Put(instrs)
<1>1. /\ instrs \in Seq(Instrs) /\ ~Cut(instrs) /\ ~HasTerminator(instrs)
      /\ \A n : Aimed(instrs, n)
  BY StraightFacts
<1>2. /\ Len(put) = Len(blocks) /\ \A b \in DOMAIN blocks : b # insert => put[b] = blocks[b]
      /\ \A n : Inside(blocks, n) => Inside(put, n)
  BY <1>1, PutType, PutInside
<1>3. ASSUME instrs # <<>>
      PROVE  /\ ~HasTerminator(put[insert])
             /\ SomeCut(put) <=> SomeCut(blocks) \/ HasTerminator(blocks[insert])
  BY <1>1, <1>3, PutCut
<1>4. instrs = <<>> => put = blocks
  BY PutNothing
<1>. HIDE DEF put
<1>. QED  BY <1>2, <1>3, <1>4 DEF put

(* A node of an expression.                                                *)
LEMMA CleanNextExp ==
  ASSUME TypeInv, InsertOK, TablesOK, OperandInv, JumpInv, CleanInv, NextExp
  PROVE  JumpInv' /\ CleanInv'
<1>. DEFINE f == frames[1].node  p == Last(frames).node
<1>1. /\ At(frames, ExpPoints) /\ frames # <<>> /\ syntax[cursor].n \in ExpNodes
      /\ \/ Abort
         \/ \E vals, instrs : /\ Generate(vals, instrs) /\ Straight(instrs)
                              /\ IsStmtCall(syntax[cursor]) => instrs # <<>>
  BY StraightNextExp DEF At
<1>2. CASE Abort
  BY <1>2, CleanAbort
<1>3. ASSUME NEW vals, NEW instrs, Generate(vals, instrs), Straight(instrs),
             IsStmtCall(syntax[cursor]) => instrs # <<>>
      PROVE  JumpInv' /\ CleanInv'
  <2>1. /\ blocks' = Put(instrs) /\ cursor' = cursor + 1
        /\ UNCHANGED <<syntax, frames, insert, module>>
    BY <1>3 DEF Generate
  <2>2. /\ blocks \in Seq(Blocks) /\ insert \in DOMAIN blocks /\ DOMAIN blocks = 1 .. Len(blocks)
        /\ PendingOK(frames, blocks, insert) /\ Inside(blocks, Len(blocks)) /\ Len(blocks) \in Nat
        /\ \A i \in DOMAIN frames : FrameOK(frames[i], Len(blocks))
        /\ \A i \in f .. cursor - 1 : syntax[i].n # "EndFunc"
        /\ f \in 1 .. cursor - 1 /\ cursor \in Nat
    BY <1>1, Within
  <2>3. /\ Len(blocks') = Len(blocks)
        /\ \A b \in DOMAIN blocks : b # insert => blocks'[b] = blocks[b]
        /\ SomeCut(blocks') \/ HasTerminator(blocks'[insert])
             <=> SomeCut(blocks) \/ HasTerminator(blocks[insert])
        /\ instrs # <<>> => ~HasTerminator(blocks'[insert])
        /\ \A n : Inside(blocks, n) => Inside(blocks', n)
    BY <1>3, <2>1, <2>2, PutStraight
  <2>4. Covered(frames, frames, Len(blocks))
    BY <2>2 DEF Covered
  <2>5. PendingOK(frames, blocks', insert)
    <3>1. \A b \in 2 .. Len(blocks) : b # insert => blocks'[b] = blocks[b]
      BY <2>2, <2>3
    <3>. QED  BY <2>2, <2>3, <2>4, <3>1, NotCurrent, PendingKept
  <2>6. JumpInv'
    BY <2>1, <2>2, <2>3, <2>5 DEF JumpInv
  <2>7. /\ p \in f .. cursor - 1
        /\ Started(syntax, blocks, insert, f, p)
    BY <1>1 DEF CleanInv
  <2>8. Started(syntax, blocks', insert, f, p)
    BY <2>3, <2>7 DEF Started
  <2>9. \A i \in f .. (cursor + 1) - 1 : syntax[i].n # "EndFunc"
    <3>1. \A i \in f .. (cursor + 1) - 1 : i = cursor \/ i \in f .. cursor - 1
      BY <2>2
    <3>. QED  BY <1>1, <2>2, <3>1 DEF ExpNodes
  <2>10. p \in f .. (cursor + 1) - 1 /\ (cursor + 1) - 1 = cursor
    BY <2>2, <2>7
  <2>11. IsStmtCall(syntax[cursor]) => ~HasTerminator(blocks'[insert])
    BY <1>3, <2>3
  <2>12. CleanInv'
    BY <1>1, <2>1, <2>8, <2>9, <2>10, <2>11 DEF CleanInv, At
  <2>. QED  BY <2>6, <2>12
<1>. QED  BY <1>1, <1>2, <1>3

-----------------------------------------------------------------------------
(* The ends of expressions                                                 *)

(* An expression has ended, and with it the statement at p.                *)
LEMMA MatchesEnd ==
  ASSUME NEW prog, NEW f \in Nat, NEW p \in Nat, NEW k \in Nat, f <= p,
         NEW bs, NEW ins, Started(prog, bs, ins, f, p),
         prog[p].n \in DOMAIN WaitsAt, Between(prog, p, k), prog[k].n = "EndExp",
         NEW more, NEW to, SomeCut(more) <=> SomeCut(bs) \/ HasTerminator(bs[ins]),
         HasTerminator(more[to]) <=> prog[p].n = "Return"
  PROVE  Matches(prog, more, to, f, k + 1)
<1>1. prog[p].n \notin MayFollow \cup {"EndExp"}
  BY Waiting DEF MayFollow
<1>2. ~Inert(prog[p]) /\ ReturnsEnded(prog, f, p)
  BY DEF Started
<1>3. ReturnsEnded(prog, f, k + 1)
  BY <1>2, EndedExp
<1>4. Bad(prog, f, k + 1) <=> Bad(prog, f, p) \/ Dead(prog, f, p)
  BY <1>1, <1>2, BadExp
<1>5. Dead(prog, f, k + 1) <=> prog[p].n = "Return"
  BY <1>1, <1>2, DeadEnd
<1>6. SomeCut(more) <=> Bad(prog, f, k + 1)
  BY <1>4 DEF Started
<1>. QED  BY <1>3, <1>5, <1>6 DEF Matches

(* What is known of the statement whose expression ends.                   *)
LEMMA Ending ==
  ASSUME TypeInv, InsertOK, TablesOK, OperandInv, JumpInv, CleanInv,
         NEW pc \in ExpPoints, EndExp(pc)
  PROVE  LET f == frames[1].node
             p == Last(frames).node
         IN  /\ frames # <<>> /\ frames \in Seq(Frames) /\ values # <<>> /\ TypeOK
             /\ Last(frames) \in Frames /\ Last(frames).pc = pc
             /\ syntax[cursor].n = "EndExp" /\ cursor' = cursor + 1 /\ UNCHANGED <<syntax, module>>
             /\ cursor \in DOMAIN syntax
             /\ f \in Nat /\ p \in Nat /\ cursor \in Nat /\ f <= p
             /\ HasExp(syntax, p, cursor) /\ Between(syntax, p, cursor)
             /\ syntax[p].n \in DOMAIN WaitsAt /\ WaitsAt[syntax[p].n] = pc
             /\ Started(syntax, blocks, insert, f, p)
             /\ pc = "CallExp" /\ IsStmtCall(syntax[cursor - 1]) => ~HasTerminator(blocks[insert])
             /\ \A more, to : /\ SomeCut(more) <=> SomeCut(blocks) \/ HasTerminator(blocks[insert])
                              /\ HasTerminator(more[to]) <=> pc = "ReturnExp"
                              => Matches(syntax, more, to, f, cursor + 1)
<1>. DEFINE f == frames[1].node  p == Last(frames).node
<1>1. /\ frames # <<>> /\ frames \in Seq(Frames) /\ values # <<>> /\ TypeOK /\ Last(frames).pc = pc
      /\ syntax[cursor].n = "EndExp" /\ cursor' = cursor + 1 /\ UNCHANGED <<syntax, module>>
      /\ cursor \in DOMAIN syntax /\ At(frames, ExpPoints)
  BY ReadingNode DEF EndExp, At, TypeInv, TypeOK
<1>2. /\ Last(frames) \in Frames /\ Last(frames) = frames[Len(frames)] /\ Len(frames) \in DOMAIN frames
  BY <1>1, LastFrame
<1>3. HasExp(syntax, p, cursor) /\ WaitsAt[syntax[p].n] = pc
  BY <1>1, <1>2 DEF OperandInv, WaitsOK
<1>4. /\ p \in f .. cursor - 1 /\ Started(syntax, blocks, insert, f, p)
      /\ pc = "CallExp" /\ IsStmtCall(syntax[cursor - 1]) => ~HasTerminator(blocks[insert])
  BY <1>1 DEF CleanInv
<1>5. /\ f \in Nat /\ cursor \in Nat
  BY <1>1, Within
<1>. HIDE DEF f, p
<1>6. p \in Nat /\ f <= p /\ p < cursor
  BY <1>4, <1>5
<1>7. /\ Between(syntax, p, cursor) /\ syntax[p].n \in DOMAIN WaitsAt
  BY <1>3, <1>6 DEF HasExp, Between
<1>8. syntax[p].n = "Return" <=> pc = "ReturnExp"
  BY <1>3, <1>7, Waiting
<1>9. ASSUME NEW more, NEW to, SomeCut(more) <=> SomeCut(blocks) \/ HasTerminator(blocks[insert]),
             HasTerminator(more[to]) <=> pc = "ReturnExp"
      PROVE  Matches(syntax, more, to, f, cursor + 1)
  <2>1. HasTerminator(more[to]) <=> syntax[p].n = "Return"
    BY <1>8, <1>9
  <2>. QED  BY <1>1, <1>4, <1>5, <1>6, <1>7, <1>9, <2>1, MatchesEnd
<1>. QED  BY <1>1, <1>2, <1>3, <1>4, <1>5, <1>6, <1>7, <1>9 DEF f, p

(* A statement ends with its expression.                                   *)
LEMMA CleanEndStmtExp ==
  ASSUME TypeInv, InsertOK, TablesOK, OperandInv, JumpInv, CleanInv,
         NEW pc \in ExpPoints, NEW instrs \in Seq(Instrs), EndStmtExp(pc, instrs),
         \A n : Aimed(instrs, n),
         SomeCut(Put(instrs)) <=> SomeCut(blocks) \/ HasTerminator(blocks[insert]),
         HasTerminator(Put(instrs)[insert]) <=> pc = "ReturnExp"
  PROVE  JumpInv' /\ CleanInv'
<1>1. /\ EndExp(pc) /\ blocks' = Put(instrs) /\ frames' = Front(frames) /\ insert' = insert
  BY DEF EndStmtExp
<1>2. /\ frames # <<>> /\ frames \in Seq(Frames)
      /\ syntax[cursor].n = "EndExp" /\ cursor' = cursor + 1 /\ UNCHANGED <<syntax, module>>
      /\ Matches(syntax, blocks', insert', frames[1].node, cursor + 1)
  BY <1>1, Ending
<1>3. /\ blocks \in Seq(Blocks) /\ insert \in DOMAIN blocks /\ DOMAIN blocks = 1 .. Len(blocks)
      /\ PendingOK(frames, blocks, insert) /\ Inside(blocks, Len(blocks)) /\ Len(blocks) \in Nat
      /\ \A i \in DOMAIN frames : FrameOK(frames[i], Len(blocks))
  BY <1>2, Within
<1>4. frames' \in Seq(Frames) /\ NoneWaits(frames') /\ (frames' # <<>> => frames'[1].node = frames[1].node)
  BY <1>1, <1>2, FrontFrames, WaitsMoved, PoppedOutermost DEF OperandInv
<1>5. Covered(frames, frames', Len(blocks))
  BY <1>1, <1>2, <1>3, CoveredMoved
<1>6. /\ Len(blocks') = Len(blocks) /\ Inside(blocks', Len(blocks'))
      /\ \A b \in DOMAIN blocks : b # insert => blocks'[b] = blocks[b]
  BY <1>1, <1>3, PutType, PutInside
<1>7. PendingOK(frames', blocks', insert')
  <2>1. \A b \in 2 .. Len(blocks) : b # insert => blocks'[b] = blocks[b]
    BY <1>3, <1>6
  <2>. QED  BY <1>1, <1>3, <1>5, <1>6, <2>1, NotCurrent, PendingKept
<1>. QED  BY <1>2, <1>4, <1>6, <1>7, CleanNow

(* The expression of a call statement has generated a call.                *)
LEMMA CallEnded ==
  ASSUME TypeOK, cursor \in DOMAIN syntax, syntax[cursor].n = "EndExp", Typable,
         NEW p, HasExp(syntax, p, cursor), syntax[p].n = "CallStmt"
  PROVE  IsStmtCall(syntax[cursor - 1])
<1>1. PICK st : Typing(syntax, st)
  BY DEF Typable
<1>2. TypeStep(syntax, cursor, st[cursor], st[cursor + 1])
  BY <1>1, StackStep
<1>3. \E t : Expected(syntax, cursor, t)
  BY <1>2 DEF TypeStep
<1>4. p \in 1 .. cursor - 1
  BY DEF HasExp
<1>. QED  BY <1>3, <1>4 DEF Expected

(* Stores, calls and returns.                                              *)
LEMMA CleanEndStmt ==
  ASSUME TypeInv, InsertOK, TablesOK, OperandInv, JumpInv, CleanInv, Typable,
         EndCallStmt \/ EndReturn \/ EndAssign \/ EndDeclInit
  PROVE  JumpInv' /\ CleanInv'
<1>. DEFINE k == Last(frames).node
<1>1. PICK pc \in ExpPoints : EndExp(pc)
  BY Waiting DEF EndCallStmt, EndReturn, EndAssign, EndDeclInit, EndStmtExp
<1>2. /\ frames # <<>> /\ Last(frames) \in Frames /\ TypeOK /\ NodeOK(syntax, Last(frames))
      /\ Last(frames).pc = pc /\ values[1] \in IRTypes
      /\ blocks \in Seq(Blocks) /\ insert \in DOMAIN blocks
  <2>1. values[1] \in IRTypes /\ frames # <<>> /\ TypeOK /\ Last(frames).pc = pc
    BY <1>1 DEF EndExp, At, TypeInv, TypeOK
  <2>. QED  BY <2>1, LastFrame DEF TypeInv, TypeOK, NodesOK, InsertOK
<1>3. CASE EndCallStmt
  <2>1. EndStmtExp("CallExp", <<>>) /\ EndExp("CallExp") /\ "CallExp" \in ExpPoints
    BY <1>3, Waiting DEF EndCallStmt, EndStmtExp
  <2>2. syntax[k].n = "CallStmt"
    BY <2>1, Ending, Waiting
  <2>3. IsStmtCall(syntax[cursor - 1])
    BY <2>1, <2>2, Ending, CallEnded
  <2>4. ~HasTerminator(blocks[insert])
    BY <2>1, <2>3, Ending
  <2>5. <<>> \in Seq(Instrs) /\ \A n : Aimed(<<>>, n)
    BY DEF Aimed
  <2>6. Put(<<>>) = blocks
    BY <1>2, PutNothing
  <2>. QED  BY <2>1, <2>4, <2>5, <2>6, CleanEndStmtExp
<1>4. CASE EndReturn
  <2>. DEFINE i == Instr("ret", <<values[1]>>)  one == <<i>>
  <2>1. EndStmtExp("ReturnExp", one) /\ "ReturnExp" \in ExpPoints
    BY <1>4, Waiting DEF EndReturn
  <2>2. one \in Seq(Instrs) /\ i.op = "ret" /\ i.to = <<>>
    BY <1>2, SomeInstrs DEF Instr
  <2>. HIDE DEF i
  <2>3. one # <<>> /\ ~Cut(one) /\ HasTerminator(one) /\ \A n : Aimed(one, n)
    BY <2>2 DEF Cut, HasTerminator, Terminators, Aimed
  <2>. HIDE DEF one
  <2>4. /\ SomeCut(Put(one)) <=> SomeCut(blocks) \/ HasTerminator(blocks[insert])
        /\ HasTerminator(Put(one)[insert])
    BY <1>2, <2>2, <2>3, PutCut
  <2>. QED  BY <2>1, <2>2, <2>3, <2>4, CleanEndStmtExp
<1>5. ASSUME NEW d \in VarDecls \cup {Null}, NEW at \in ExpPoints \ {"ReturnExp"},
             EndStmtExp(at, <<Access("store", <<values[1]>>, d)>>)
      PROVE  JumpInv' /\ CleanInv'
  <2>. DEFINE i == Access("store", <<values[1]>>, d)  one == <<i>>
  <2>1. i \in Instrs
    BY <1>2, <1>5, SomeInstrs
  <2>2. i.op \notin Terminators /\ i.to = <<>>
    BY DEF Access, Instr, Terminators
  <2>3. one # <<>>
    OBVIOUS
  <2>. HIDE DEF i
  <2>4. Straight(one)
    BY <2>1, <2>2, StraightOne
  <2>5. EndStmtExp(at, one)
    BY <1>5 DEF i
  <2>. HIDE DEF one
  <2>6. one \in Seq(Instrs) /\ \A n : Aimed(one, n)
    BY <2>4, StraightFacts
  <2>7. /\ SomeCut(Put(one)) <=> SomeCut(blocks) \/ HasTerminator(blocks[insert])
        /\ ~HasTerminator(Put(one)[insert])
    BY <1>2, <2>3, <2>4, PutStraight
  <2>8. at \in ExpPoints /\ at # "ReturnExp"
    OBVIOUS
  <2>. QED  BY <2>5, <2>6, <2>7, <2>8, CleanEndStmtExp
<1>6. CASE EndAssign
  <2>1. EndStmtExp("AssignExp", <<Access("store", <<values[1]>>, syntax[k].decl)>>)
    BY <1>6 DEF EndAssign
  <2>2. Last(frames).pc = "AssignExp" /\ "AssignExp" \in ExpPoints \ {"ReturnExp"}
    BY <2>1, Waiting DEF EndStmtExp, EndExp, At
  <2>3. k \in DOMAIN syntax /\ syntax[k].n = "Assign" /\ syntax[k] \in Nodes
    BY <1>2, <2>2 DEF NodeOK, TypeOK
  <2>4. syntax[k].decl \in VarDecls \cup {Null}
    BY <2>3, NodeKinds
  <2>. QED  BY <1>5, <2>1, <2>2, <2>4
<1>7. CASE EndDeclInit
  <2>. DEFINE d == LocalDecl(k, syntax[k].name, syntax[k].type)
  <2>1. EndStmtExp("DeclInit", <<Access("store", <<values[1]>>, d)>>)
    BY <1>7 DEF EndDeclInit
  <2>2. Last(frames).pc = "DeclInit" /\ "DeclInit" \in ExpPoints \ {"ReturnExp"}
    BY <2>1, Waiting DEF EndStmtExp, EndExp, At
  <2>3. k \in DOMAIN syntax /\ syntax[k].n = "Decl" /\ syntax[k] \in Nodes /\ k \in Nat
    BY <1>2, <2>2 DEF NodeOK, TypeOK, Frames
  <2>4. d \in VarDecls
    BY <2>3, NodeKinds, LocalDeclType
  <2>. HIDE DEF d
  <2>. QED  BY <1>5, <2>1, <2>2, <2>4
<1>. QED  BY <1>3, <1>4, <1>6, <1>7

(* A conditional branch ends a block, and goes where it is told.           *)
LEMMA CondFacts ==
  ASSUME TypeOK, values # <<>>, NEW to \in Seq(Nat)
  PROVE  /\ CondBranch(to) \in Seq(Instrs) /\ CondBranch(to) # <<>>
         /\ ~Cut(CondBranch(to)) /\ HasTerminator(CondBranch(to))
         /\ \A n : (\A t \in DOMAIN to : to[t] \in 2 .. n) => Aimed(CondBranch(to), n)
<1>. DEFINE cmp == Instr("icmp", <<values[1], "i32">>)
            br1 == Jump("condbr", <<values[1]>>, to)  br2 == Jump("condbr", <<"i1">>, to)
            cond == CondBranch(to)
<1>1. /\ cond \in Seq(Instrs) /\ cond # <<>> /\ cond[Len(cond)].op = "condbr"
  BY CondBranchType
<1>2. cond = <<br1>> \/ cond = <<cmp, br2>>
  BY DEF CondBranch
<1>3. br1.to = to /\ br2.to = to /\ cmp.to = <<>> /\ cmp.op = "icmp"
  BY DEF Jump, Instr
<1>. HIDE DEF cmp, br1, br2, cond
<1>4. ~Cut(cond)
  <2>1. CASE cond = <<br1>>
    BY <2>1 DEF Cut
  <2>2. CASE cond = <<cmp, br2>>
    <3>1. \A i \in 1 .. Len(cond) - 1 : cond[i] = cmp
      BY <2>2
    <3>. QED  BY <1>3, <3>1 DEF Cut, Terminators
  <2>. QED  BY <1>2, <2>1, <2>2
<1>5. HasTerminator(cond)
  BY <1>1 DEF HasTerminator, Terminators
<1>6. \A i \in DOMAIN cond : cond[i].to \in {<<>>, to}
  <2>1. CASE cond = <<br1>>
    BY <1>3, <2>1
  <2>2. CASE cond = <<cmp, br2>>
    BY <1>3, <2>2
  <2>. QED  BY <1>2, <2>1, <2>2
<1>7. ASSUME NEW n, \A t \in DOMAIN to : to[t] \in 2 .. n PROVE Aimed(cond, n)
  BY <1>6, <1>7 DEF Aimed
<1>. QED  BY <1>1, <1>4, <1>5, <1>7 DEF cond

(* A condition opens the blocks of its if or its while.                    *)
LEMMA CleanEndCond ==
  ASSUME TypeInv, InsertOK, TablesOK, OperandInv, JumpInv, CleanInv, EndIfCond \/ EndWhileCond
  PROVE  JumpInv' /\ CleanInv'
<1>. DEFINE len == Len(blocks)  f == frames[1].node
<1>1. PICK pc \in {"IfCond", "WhileCond"} : EndExp(pc)
  BY DEF EndIfCond, EndWhileCond
<1>2. /\ frames # <<>> /\ frames \in Seq(Frames) /\ values # <<>> /\ TypeOK
      /\ Last(frames) \in Frames /\ Last(frames).pc = pc
      /\ syntax[cursor].n = "EndExp" /\ cursor' = cursor + 1 /\ UNCHANGED <<syntax, module>>
      /\ \A more, to : /\ SomeCut(more) <=> SomeCut(blocks) \/ HasTerminator(blocks[insert])
                       /\ ~HasTerminator(more[to])
                       => Matches(syntax, more, to, f, cursor + 1)
  <2>1. pc \in ExpPoints /\ pc # "ReturnExp"
    BY Waiting
  <2>. QED  BY <1>1, <2>1, Ending
<1>3. /\ blocks \in Seq(Blocks) /\ insert \in DOMAIN blocks /\ DOMAIN blocks = 1 .. len
      /\ PendingOK(frames, blocks, insert) /\ Inside(blocks, len) /\ len \in Nat \ {0} /\ len \in Nat
      /\ \A i \in DOMAIN frames : FrameOK(frames[i], len)
  BY <1>2, Within
<1>4. FrameOK(Last(frames), len) /\ Last(frames) = frames[Len(frames)]
  BY <1>2, <1>3, LastFrame
<1>. HIDE DEF len, f
<1>5. ASSUME NEW to \in Seq(Nat), NEW n \in Nat, NEW new \in [1 .. n -> {<<>>}],
             blocks' = Put(CondBranch(to)) \o new,
             NEW fr \in Frames, frames' = [frames EXCEPT ![Len(frames)] = fr],
             fr.pc \notin ExpPoints, fr.node = Last(frames).node, FrameOK(fr, len + n),
             insert' \in len + 1 .. len + n,
             Pending(fr) \subseteq (len + 1 .. len + n) \ {insert'},
             \A t \in DOMAIN to : to[t] \in 2 .. len + n
      PROVE  JumpInv' /\ CleanInv'
  <2>. DEFINE cond == CondBranch(to)  put == Put(cond)  m == len + n
  <2>1. /\ cond \in Seq(Instrs) /\ cond # <<>> /\ ~Cut(cond) /\ HasTerminator(cond)
        /\ Aimed(cond, m)
    BY <1>2, <1>5, CondFacts
  <2>. HIDE DEF cond
  <2>2. /\ put \in Seq(Blocks) /\ Len(put) = len
        /\ \A b \in DOMAIN blocks : b # insert => put[b] = blocks[b]
        /\ SomeCut(put) <=> SomeCut(blocks) \/ HasTerminator(blocks[insert])
        /\ Inside(put, m)
    <3>1. Inside(blocks, m)
      BY <1>3, InsideMore
    <3>. QED  BY <1>3, <2>1, <3>1, PutType, PutCut, PutInside DEF len
  <2>3. blocks' = put \o new
    BY <1>5 DEF cond
  <2>. HIDE DEF put
  <2>4. /\ Len(blocks') = m /\ m \in Nat /\ len <= m
        /\ \A b \in 1 .. len : blocks'[b] = put[b]
        /\ \A b \in len + 1 .. m : blocks'[b] = <<>>
        /\ SomeCut(blocks') <=> SomeCut(put)
        /\ Inside(blocks', m)
    <3>1. /\ Len(blocks') = len + n
          /\ \A b \in 1 .. len : blocks'[b] = put[b]
          /\ \A b \in len + 1 .. len + n : blocks'[b] = <<>>
          /\ SomeCut(blocks') <=> SomeCut(put)
          /\ \A l : Inside(put, l) => Inside(blocks', l)
      <4>. DEFINE cat == put \o new
      <4>1. /\ Len(cat) = Len(put) + n
            /\ \A b \in 1 .. Len(put) : cat[b] = put[b]
            /\ \A b \in Len(put) + 1 .. Len(put) + n : cat[b] = <<>>
            /\ SomeCut(cat) <=> SomeCut(put)
            /\ \A l : Inside(put, l) => Inside(cat, l)
        BY <2>2, NewBlocksClean
      <4>2. blocks' = cat
        BY <2>3
      <4>. HIDE DEF cat
      <4>. QED  BY <2>2, <4>1, <4>2
    <3>2. m \in Nat /\ len <= m
      BY <1>3
    <3>3. Inside(blocks', m)
      BY <2>2, <3>1
    <3>. QED  BY <3>1, <3>2, <3>3
  <2>. HIDE DEF m
  <2>5. insert' \in Nat /\ insert' > len /\ blocks'[insert'] = <<>> /\ insert' \in len + 1 .. m
    BY <1>3, <1>5, <2>4 DEF m
  <2>6. Matches(syntax, blocks', insert', f, cursor + 1)
    <3>1. ~HasTerminator(blocks'[insert'])
      BY <2>5 DEF HasTerminator
    <3>. QED  BY <1>2, <2>2, <2>4, <3>1
  <2>7. \A b \in 2 .. len : b # insert => blocks'[b] = blocks[b]
    <3>1. \A b \in 2 .. len : b \in 1 .. len
      BY <1>3
    <3>. QED  BY <1>3, <2>2, <2>4, <3>1
  <2>8. PendingOK(frames', blocks', insert')
    <3>1. FrameOK(fr, m)
      BY <1>5 DEF m
    <3>2. \A b \in Pending(fr) : b \in len + 1 .. m /\ b # insert' /\ blocks'[b] = <<>>
      BY <1>5, <2>4 DEF m
    <3>. QED  BY <1>2, <1>3, <1>5, <2>4, <2>5, <2>7, <3>1, <3>2, PendingAdded DEF len
  <2>9. frames' \in Seq(Frames) /\ NoneWaits(frames') /\ frames'[1].node = f
    <3>1. frames' \in Seq(Frames)
      BY <1>2, <1>5, ReplacedFrames
    <3>2. NoneWaits(frames')
      BY <1>2, <1>5, WaitsMoved DEF OperandInv
    <3>3. frames'[1].node = f
      BY <1>2, <1>5, ReplacedOutermost DEF f
    <3>. QED  BY <3>1, <3>2, <3>3
  <2>. QED  BY <1>2, <2>4, <2>6, <2>8, <2>9, CleanNow DEF f
<1>6. CASE EndIfCond
  <2>. DEFINE else == syntax[Last(frames).node].else
              then == len + 1
              els  == IF else THEN then + 1 ELSE 0
              join == IF else THEN then + 2 ELSE then + 1
              fr   == [Last(frames) EXCEPT !.pc = "IfThen", !.els = els, !.join = join]
              to   == <<then, IF else THEN els ELSE join>>
              n    == IF else THEN 3 ELSE 2
              new  == [b \in 1 .. n |-> <<>>]
  <2>1. /\ frames' = [frames EXCEPT ![Len(frames)] = fr] /\ insert' = then
        /\ blocks' = Put(CondBranch(to)) \o new
    BY <1>4, <1>6 DEF EndIfCond, len
  <2>2. els \in Nat /\ join \in Nat /\ els # join
    BY <1>3
  <2>3. fr \in Frames
    <3>. HIDE DEF els, join
    <3>. QED  BY <1>2, <2>2, BodyFrame
  <2>4. fr.pc = "IfThen" /\ fr.els = els /\ fr.join = join /\ fr.node = Last(frames).node
    BY <1>2 DEF Frames
  <2>5. Pending(fr) \subseteq (len + 1 .. len + n) \ {then}
    <3>1. Pending(fr) = {join} \cup ({els} \ {0})
      <4>. HIDE DEF fr, els, join
      <4>. QED  BY <2>4 DEF Pending
    <3>2. {join} \cup ({els} \ {0}) = (len + 1 .. len + n) \ {then}
      BY <1>3
    <3>. QED  BY <3>1, <3>2
  <2>6. to \in Seq(Nat) /\ n \in Nat /\ new \in [1 .. n -> {<<>>}] /\ then \in len + 1 .. len + n
    BY <1>3
  <2>7. \A t \in DOMAIN to : to[t] \in 2 .. len + n
    <3>1. then \in 2 .. len + n /\ (IF else THEN els ELSE join) \in 2 .. len + n
      BY <1>3
    <3>. HIDE DEF then, els, join, n
    <3>. QED  BY <3>1
  <2>8. FrameOK(fr, len + n) /\ fr.pc \notin ExpPoints
    <3>. HIDE DEF fr, els, join, n
    <3>. QED  BY <2>2, <2>4 DEF FrameOK, LoopPoints, ExpPoints
  <2>. HIDE DEF fr, to, n, new, then
  <2>. QED  BY <1>5, <2>1, <2>3, <2>4, <2>5, <2>6, <2>7, <2>8
<1>7. CASE EndWhileCond
  <2>. DEFINE body == len + 1
              join == len + 2
              fr   == [Last(frames) EXCEPT !.pc = "WhileBody", !.join = join]
              to   == <<body, join>>
              new  == << <<>>, <<>> >>
  <2>1. /\ frames' = [frames EXCEPT ![Len(frames)] = fr] /\ insert' = body
        /\ blocks' = Put(CondBranch(to)) \o new
    BY <1>4, <1>7 DEF EndWhileCond, len
  <2>2. join \in Nat /\ 0 \in Nat
    BY <1>3
  <2>3. fr \in Frames
    <3>. HIDE DEF join
    <3>. QED  BY <1>2, <2>2, BodyFrame
  <2>4. /\ fr.pc = "WhileBody" /\ fr.join = join /\ fr.node = Last(frames).node
        /\ fr.loop = Last(frames).loop
    BY <1>2 DEF Frames
  <2>5. Pending(fr) \subseteq (len + 1 .. len + 2) \ {body}
    <3>1. Pending(fr) = {join}
      <4>. HIDE DEF fr, join
      <4>. QED  BY <2>4 DEF Pending
    <3>2. {join} = (len + 1 .. len + 2) \ {body}
      BY <1>3
    <3>. QED  BY <3>1, <3>2
  <2>6. to \in Seq(Nat) /\ new \in [1 .. 2 -> {<<>>}] /\ body \in len + 1 .. len + 2 /\ 2 \in Nat
    BY <1>3
  <2>7. \A t \in DOMAIN to : to[t] \in 2 .. len + 2
    <3>1. body \in 2 .. len + 2 /\ join \in 2 .. len + 2
      BY <1>3
    <3>. HIDE DEF body, join
    <3>. QED  BY <3>1
  <2>8. FrameOK(fr, len + 2) /\ fr.pc \notin ExpPoints
    <3>1. Last(frames).pc = "WhileCond"
      BY <1>7 DEF EndWhileCond, EndExp, At
    <3>2. Last(frames).loop \in 2 .. len
      BY <1>4, <3>1 DEF FrameOK, LoopPoints
    <3>3. fr.loop \in 2 .. len + 2
      BY <1>3, <2>4, <3>2
    <3>. HIDE DEF fr
    <3>. QED  BY <2>4, <3>3 DEF FrameOK, LoopPoints, ExpPoints
  <2>. HIDE DEF fr, to, new, body
  <2>. QED  BY <1>5, <2>1, <2>3, <2>4, <2>5, <2>6, <2>7, <2>8
<1>. QED  BY <1>6, <1>7

(* An assignment is visited, or its variable is not found.                 *)
LEMMA CleanVisitAssign ==
  ASSUME TypeInv, InsertOK, TablesOK, OperandInv, JumpInv, CleanInv, VisitAssign
  PROVE  JumpInv' /\ CleanInv'
<1>1. CASE Abort
  BY <1>1, CleanAbort
<1>2. CASE VisitExpOf("Assign", "AssignExp")
  BY <1>2, CleanVisitExpOf
<1>. QED  BY <1>1, <1>2 DEF VisitAssign

-----------------------------------------------------------------------------
(* Functions                                                               *)

(* A function begins: nothing has been generated.                          *)
LEMMA CleanBegin ==
  ASSUME TypeInv, JumpInv, CleanInv, BeginFunction
  PROVE  JumpInv' /\ CleanInv'
<1>1. /\ cursor \in DOMAIN syntax /\ syntax[cursor].n = "Func" /\ cursor \in Nat \ {0}
      /\ cursor' = cursor + 1 /\ UNCHANGED <<syntax, module>>
  BY ReadingNode DEF BeginFunction, TypeInv, TypeOK
<1>. DEFINE fr == NewFrame("FuncBody", 0)  fs == <<fr>>  bs == << <<>> >>
<1>2. \/ frames' = <<>>
      \/ frames' = fs /\ blocks' = bs /\ insert' = 1
  BY <1>1 DEF BeginFunction
<1>3. fr.pc = "FuncBody" /\ fr.node = cursor /\ Pending(fr) = {} /\ \A n : FrameOK(fr, n)
  BY DEF NewFrame, Pending, FrameOK, LoopPoints
<1>. HIDE DEF fr
<1>4. /\ fs # <<>> /\ fs[1] = fr /\ Last(fs) = fr /\ \A i \in DOMAIN fs : fs[i] = fr /\ i = 1
      /\ Len(bs) = 1 /\ \A b \in DOMAIN bs : bs[b] = <<>>
      /\ bs[1] = <<>>
  BY DEF Last
<1>. HIDE DEF fs, bs
<1>5. PendingOK(fs, bs, 1) /\ Inside(bs, Len(bs))
  BY <1>3, <1>4 DEF PendingOK, Inside, Aimed
<1>6. Matches(syntax, bs, 1, cursor, cursor + 1)
  <2>1. ~SomeCut(bs) /\ ~HasTerminator(bs[1])
    BY <1>4 DEF SomeCut, Cut, HasTerminator
  <2>2. \A i \in cursor .. (cursor + 1) - 1 : i = cursor
    BY <1>1
  <2>3. ~Dead(syntax, cursor, cursor + 1) /\ ReturnsEnded(syntax, cursor, cursor + 1)
    BY <1>1, <2>2 DEF Dead, Behind, ReturnsEnded
  <2>4. ~Dead(syntax, cursor, cursor)
    <3>1. \A r \in cursor .. cursor - 1 : FALSE
      BY <1>1
    <3>. QED  BY <3>1 DEF Dead
  <2>5. ~Bad(syntax, cursor, cursor + 1)
    BY <2>2, <2>4 DEF Bad
  <2>. QED  BY <2>1, <2>3, <2>5 DEF Matches
<1>7. \A i \in cursor .. (cursor + 1) - 1 : syntax[i].n # "EndFunc"
  BY <1>1
<1>8. "FuncBody" \notin ExpPoints
  BY DEF ExpPoints
<1>9. JumpInv' /\ CleanInv'
  BY <1>1, <1>2, <1>3, <1>4, <1>5, <1>6, <1>7, <1>8 DEF JumpInv, CleanInv, At
<1>. QED  BY <1>9

(* The verifier, on blocks that all end and branch inside the function.    *)
LEMMA VerifiedBody ==
  ASSUME NEW bs \in Seq(Blocks), NEW n, Inside(bs, n), \A b \in DOMAIN bs : HasTerminator(bs[b]), NEW ret
  PROVE  Verified(bs, ret, syntax) <=> ~SomeCut(bs) /\ AllTyped(bs, ret)
<1>1. \A t \in 2 .. n : t # 1
  OBVIOUS
<1>2. \A b \in DOMAIN bs : \A i \in DOMAIN bs[b] : \A t \in DOMAIN bs[b][i].to : bs[b][i].to[t] # 1
  BY <1>1 DEF Inside, Aimed
<1>3. \A b \in DOMAIN bs : TerminatorsEnd(bs[b]) <=> ~Cut(bs[b])
  BY DEF TerminatorsEnd, Cut
<1>. QED  BY <1>2, <1>3 DEF Verified, SomeCut, AllTyped

(* The return that is supplied is an i32.                                  *)
LEMMA SuppliedTyped ==
  ASSUME blocks \in Seq(Blocks), insert \in DOMAIN blocks, NEW ret \in Types, AllTyped(blocks, ret)
  PROVE  AllTyped(Put(<<Instr("ret", <<"i32">>)>>), ret) <=> ret # "bool"
<1>. DEFINE supplied == Instr("ret", <<"i32">>)
            new == <<supplied>>
            put == Put(new)
            old == blocks[insert]
<1>1. new \in Seq(Instrs) /\ old \in Seq(Instrs)
  BY SomeInstrs DEF IRTypes, Blocks
<1>2. /\ DOMAIN put = DOMAIN blocks /\ put[insert] = old \o new
  BY <1>1, PutType
<1>3. DOMAIN new = {1} /\ new[1] = supplied
  OBVIOUS
<1>4. WellTyped(supplied, ret, syntax) <=> ret # "bool"
  <2>1. supplied.op = "ret" /\ supplied.ops = <<"i32">>
    BY InstrFields
  <2>2. WellTyped(supplied, ret, syntax) <=> <<"i32">> = <<ConvertType(ret)>>
    BY <2>1 DEF WellTyped
  <2>. QED  BY <2>2 DEF ConvertType, Types
<1>5. ret # "bool" => AllTyped(put, ret)
  <2>. HIDE DEF new, supplied
  <2>. QED  BY <1>1, <1>3, <1>4, PutTyped
<1>6. Len(old) + 1 \in DOMAIN (old \o new) /\ (old \o new)[Len(old) + 1] = supplied
  <2>. HIDE DEF old, supplied
  <2>. QED  BY <1>1
<1>. HIDE DEF new, put, old, supplied
<1>7. AllTyped(put, ret) => ret # "bool"
  BY <1>2, <1>4, <1>6 DEF AllTyped
<1>. QED  BY <1>5, <1>7 DEF put, new, supplied

(* A function ends: the verifier accepts what has been generated exactly   *)
(* when the source is clean.                                               *)
LEMMA EndIsVerified ==
  ASSUME TypeInv, InsertOK, TablesOK, OperandInv, JumpInv, CleanInv, Typable,
         frames # <<>>, Last(frames).pc = "FuncEnd",
         cursor \in DOMAIN syntax, syntax[cursor].n = "EndFunc",
         NEW body, body = IF HasTerminator(blocks[insert]) THEN blocks
                          ELSE Put(<<Instr("ret", <<"i32">>)>>),
         \A b \in DOMAIN body : HasTerminator(body[b])
  PROVE  /\ Inside(body, Len(body))
         /\ OperatorCallsAreBuiltin =>
              (Verified(body, RetOf(frames[1].node), syntax) <=> Clean(frames[1].node))
<1>. DEFINE f == frames[1].node  new == <<Instr("ret", <<"i32">>)>>
<1>1. /\ TypeOK /\ frames \in Seq(Frames) /\ blocks \in Seq(Blocks) /\ insert \in DOMAIN blocks
      /\ cursor \in Nat \ {0} /\ f \in Nat /\ f \in 1 .. cursor - 1 /\ Inside(blocks, Len(blocks))
      /\ \A i \in f .. cursor - 1 : syntax[i].n # "EndFunc"
  BY Within
<1>2. syntax \in Seq(Nodes) /\ cursor \in 1 .. Len(syntax) /\ f \in DOMAIN syntax
  BY <1>1 DEF TypeOK
<1>3. RetOf(f) \in Types
  <2>1. syntax[f].n = "Func" /\ syntax[f] \in Nodes
    BY <1>2 DEF TablesOK, InFunction
  <2>2. syntax[f].def \in FuncDefs
    BY <2>1, NodeKinds
  <2>. QED  BY <2>2 DEF RetOf, FuncDefs
<1>4. Matches(syntax, blocks, insert, f, cursor)
  <2>1. "FuncEnd" \notin ExpPoints
    BY DEF ExpPoints
  <2>. QED  BY <2>1, Matching
<1>5. OperatorCallsAreBuiltin => AllTyped(blocks, RetOf(f))
  <2>1. PICK st : Typing(syntax, st)
    BY DEF Typable
  <2>. QED  BY <2>1 DEF OperandInv, StackOK
<1>6. Clean(f) <=> ~Bad(syntax, f, cursor) /\ (RetOf(f) = "bool" => Dead(syntax, f, cursor))
  BY <1>1, <1>2, <1>4, CleanAtEnd DEF Matches, RetOf
<1>7. new \in Seq(Instrs) /\ new # <<>> /\ ~Cut(new) /\ HasTerminator(new) /\ \A n : Aimed(new, n)
  <2>1. /\ new \in Seq(Instrs) /\ Len(new) = 1 /\ DOMAIN new = {1}
        /\ new[1] = Instr("ret", <<"i32">>)
    BY SomeInstrs DEF IRTypes
  <2>2. new[1].op = "ret" /\ new[1].to = <<>>
    BY DEF Instr
  <2>. HIDE DEF new
  <2>3. \A i \in DOMAIN new : DOMAIN new[i].to = {}
    BY <2>1, <2>2
  <2>4. ~Cut(new) /\ new # <<>>
    BY <2>1 DEF Cut
  <2>5. HasTerminator(new)
    BY <2>1, <2>2, <2>4 DEF HasTerminator, Terminators
  <2>6. \A n : Aimed(new, n)
    BY <2>3 DEF Aimed
  <2>. QED  BY <2>1, <2>4, <2>5, <2>6
<1>8. ASSUME HasTerminator(blocks[insert])
      PROVE  /\ body \in Seq(Blocks) /\ Inside(body, Len(body))
             /\ OperatorCallsAreBuiltin => (~SomeCut(body) /\ AllTyped(body, RetOf(f)) <=> Clean(f))
  BY <1>1, <1>4, <1>5, <1>6, <1>8 DEF Matches
<1>9. ASSUME ~HasTerminator(blocks[insert])
      PROVE  /\ body \in Seq(Blocks) /\ Inside(body, Len(body))
             /\ OperatorCallsAreBuiltin => (~SomeCut(body) /\ AllTyped(body, RetOf(f)) <=> Clean(f))
  <2>1. body = Put(new)
    BY <1>9
  <2>2. OperatorCallsAreBuiltin => (AllTyped(body, RetOf(f)) <=> RetOf(f) # "bool")
    BY <1>1, <1>3, <1>5, <2>1, SuppliedTyped
  <2>. HIDE DEF new
  <2>3. SomeCut(body) <=> SomeCut(blocks)
    BY <1>1, <1>7, <1>9, <2>1, PutCut
  <2>4. body \in Seq(Blocks) /\ Inside(body, Len(body))
    BY <1>1, <1>7, <2>1, PutType, PutInside
  <2>. QED  BY <1>4, <1>6, <1>9, <2>2, <2>3, <2>4 DEF Matches
<1>. QED  BY <1>8, <1>9, VerifiedBody

(* What the property says depends on the program and the module alone.     *)
LEMMA SameVerified ==
  ASSUME syntax' = syntax
  PROVE  VerifiedIffClean'
           <=> (OperatorCallsAreBuiltin =>
                  \A m \in DOMAIN module' : Passes(module'[m]) <=> Clean(module'[m].def))
<1>1. OperatorCallsAreBuiltin' <=> OperatorCallsAreBuiltin
  BY DEF OperatorCallsAreBuiltin
<1>2. \A m : Passes(module[m])' <=> Passes(module'[m])
  BY DEF Passes
<1>3. \A d : Clean(d)' <=> Clean(d)
  <2>1. \A k : FunctionEnd(k)' = FunctionEnd(k) /\ Follower(k)' = Follower(k)
    BY DEF FunctionEnd, Follower, Following, SelectInSubSeq, Inert
  <2>2. \A k : Followers(k)' = Followers(k)
    BY <2>1 DEF Followers, ReturnsIn
  <2>. QED  BY <2>1, <2>2 DEF Clean
<1>4. \A m : Clean(module[m].def)' <=> Clean(module'[m].def)
  BY <1>3
<1>. QED  BY <1>1, <1>2, <1>4 DEF VerifiedIffClean

(* ... and joins the module.                                               *)
LEMMA CleanEnd ==
  ASSUME TypeInv, InsertOK, TablesOK, OpenInv, OperandInv, Typable, JumpInv, CleanInv,
         VerifiedIffClean, EndFunction
  PROVE  JumpInv' /\ CleanInv' /\ VerifiedIffClean'
<1>. DEFINE body == IF HasTerminator(blocks[insert]) THEN blocks
                    ELSE Put(<<Instr("ret", <<"i32">>)>>)
            g    == frames[1].node
            done == [def |-> g, blocks |-> body]
<1>1. /\ cursor \in DOMAIN syntax /\ syntax[cursor].n = "EndFunc"
      /\ frames # <<>> /\ Last(frames).pc = "FuncEnd" /\ syntax' = syntax
      /\ module \in Seq([def : Nat, blocks : Seq(Blocks)])
      /\ frames' = <<>> /\ module' = Append(module, done)
  BY ReadingNode DEF EndFunction, TypeInv, TypeOK, At
<1>2. done.def = g /\ done.blocks = body
  OBVIOUS
<1>3. body = IF HasTerminator(blocks[insert]) THEN blocks ELSE Put(<<Instr("ret", <<"i32">>)>>)
  OBVIOUS
<1>. HIDE DEF body, done
<1>4. /\ DOMAIN module' = 1 .. Len(module) + 1 /\ Len(module) \in Nat /\ DOMAIN module = 1 .. Len(module)
      /\ \A m \in 1 .. Len(module) : module'[m] = module[m]
      /\ module'[Len(module) + 1] = done /\ Len(module) + 1 \in DOMAIN module'
  BY <1>1
<1>5. \A m \in DOMAIN module' : m = Len(module) + 1 \/ m \in DOMAIN module
  BY <1>4
<1>6. \A b \in DOMAIN body : HasTerminator(body[b])
  <2>1. BlocksTerminated'
    BY OpenFunctions DEF OpenInv
  <2>. QED  BY <1>2, <1>4, <2>1 DEF BlocksTerminated
<1>7. /\ Inside(body, Len(body))
      /\ OperatorCallsAreBuiltin => (Verified(body, RetOf(g), syntax) <=> Clean(g))
  BY <1>1, <1>3, <1>6, EndIsVerified
<1>. HIDE DEF g
<1>8. JumpInv'
  BY <1>1, <1>2, <1>4, <1>5, <1>7 DEF JumpInv
<1>9. CleanInv'
  BY <1>1 DEF CleanInv
<1>10. OperatorCallsAreBuiltin => \A m \in DOMAIN module' : Passes(module'[m]) <=> Clean(module'[m].def)
  <2>1. OperatorCallsAreBuiltin => (Passes(done) <=> Clean(done.def))
    BY <1>2, <1>7 DEF Passes, RetOf
  <2>2. OperatorCallsAreBuiltin => \A m \in DOMAIN module : Passes(module[m]) <=> Clean(module[m].def)
    BY DEF VerifiedIffClean
  <2>. QED  BY <1>4, <1>5, <2>1, <2>2
<1>11. VerifiedIffClean'
  BY <1>1, <1>10, SameVerified
<1>. QED  BY <1>8, <1>9, <1>11

-----------------------------------------------------------------------------
(* The invariant holds at the start, and every step keeps it.              *)

VerifierInv == Typable => JumpInv /\ CleanInv /\ VerifiedIffClean

(* Code generation starts with no function.                                *)
LEMMA StartVerifier == ASSUME Start PROVE VerifierInv
  BY DEF Start, VerifierInv, JumpInv, CleanInv, VerifiedIffClean

(* Steps that leave all of it alone.                                       *)
LEMMA CleanSame ==
  ASSUME JumpInv, CleanInv, UNCHANGED <<syntax, cursor, frames, blocks, insert, module>>
  PROVE  JumpInv' /\ CleanInv'
  BY DEF JumpInv, CleanInv, At

(* Only the end of a function adds to the module.                          *)
LEMMA VerifiedSame ==
  ASSUME VerifiedIffClean, UNCHANGED <<syntax, module>>
  PROVE  VerifiedIffClean'
  BY SameVerified DEF VerifiedIffClean

(* Every step keeps the blocks as the source says.                         *)
LEMMA CleanNext ==
  ASSUME IInv, LookupInv, OperandInv, Typable, JumpInv, CleanInv, VerifiedIffClean,
         [Next \/ Returned]_vars
  PROVE  JumpInv' /\ CleanInv' /\ VerifiedIffClean'
<1>1. TypeInv /\ InsertOK /\ TablesOK /\ OpenInv
  BY DEF IInv, OpenInv, OthersEnd, InsertOK, LookupInv
<1>2. CASE BeginFunction
  <2>1. UNCHANGED <<syntax, module>>
    BY <1>2 DEF BeginFunction
  <2>. QED  BY <1>1, <1>2, <2>1, CleanBegin, VerifiedSame
<1>3. CASE EndFunction
  BY <1>1, <1>3, CleanEnd
<1>4. CASE NextExp
  <2>1. UNCHANGED <<syntax, module>>
    BY <1>4 DEF NextExp, VisitConst, VisitVarExp, VisitCallExp, Generate, Abort
  <2>. QED  BY <1>1, <1>4, <2>1, CleanNextExp, VerifiedSame
<1>5. CASE NextStmt
  <2>1. UNCHANGED <<syntax, module>>
    <3>1. \A kind, pc : VisitExpOf(kind, pc) => UNCHANGED <<syntax, module>>
      BY DEF VisitExpOf
    <3>2. \A pc : EndExp(pc) => UNCHANGED <<syntax, module>>
      BY DEF EndExp
    <3>3. \A points, mark : EndVisit(points, mark) => UNCHANGED <<syntax, module>>
      BY DEF EndVisit
    <3>4. EndSeq \/ VisitElse \/ EndIf \/ EndWhile => UNCHANGED <<syntax, module>>
      BY <3>3 DEF EndSeq, VisitElse, EndIf, EndWhile
    <3>5. EndCallStmt \/ EndReturn \/ EndAssign \/ EndDeclInit \/ EndIfCond \/ EndWhileCond
            => UNCHANGED <<syntax, module>>
      BY <3>2 DEF EndCallStmt, EndReturn, EndAssign, EndDeclInit, EndStmtExp, EndIfCond, EndWhileCond
    <3>6. VisitAssign \/ VisitDecl \/ VisitWhile => UNCHANGED <<syntax, module>>
      BY <3>1 DEF VisitAssign, VisitDecl, VisitWhile, Abort
    <3>. QED  BY <1>5, <3>1, <3>4, <3>5, <3>6
              DEF NextStmt, VisitReturn, VisitCallStmt, VisitIf, VisitSeq
  <2>2. ASSUME VisitReturn \/ VisitCallStmt \/ VisitIf
      PROVE  JumpInv' /\ CleanInv'
    BY <1>1, <2>2, CleanVisitExpOf DEF VisitReturn, VisitCallStmt, VisitIf
  <2>3. ASSUME VisitSeq \/ VisitAssign \/ VisitDecl \/ VisitWhile
      PROVE  JumpInv' /\ CleanInv'
    BY <1>1, <2>3, CleanVisitSeq, CleanVisitAssign, CleanVisitDecl, CleanVisitWhile
  <2>4. ASSUME EndSeq \/ VisitElse \/ EndIf \/ EndWhile
      PROVE  JumpInv' /\ CleanInv'
    BY <1>1, <2>4, CleanEndSeq, CleanEndVisit
  <2>5. ASSUME EndCallStmt \/ EndReturn \/ EndAssign \/ EndDeclInit
      PROVE  JumpInv' /\ CleanInv'
    BY <1>1, <2>5, CleanEndStmt
  <2>6. ASSUME EndIfCond \/ EndWhileCond
      PROVE  JumpInv' /\ CleanInv'
    BY <1>1, <2>6, CleanEndCond
  <2>. QED  BY <1>5, <2>1, <2>2, <2>3, <2>4, <2>5, <2>6, VerifiedSame DEF NextStmt
<1>6. CASE Finish \/ UNCHANGED vars
  BY <1>6, CleanSame, VerifiedSame DEF Finish, vars, genVars
<1>. QED  BY <1>2, <1>3, <1>4, <1>5, <1>6 DEF Next, Returned

(* Every step keeps the invariant, if the program has a typing.            *)
LEMMA NextVerifier ==
  ASSUME IInv, LookupInv, OperandInv, VerifierInv, [Next \/ Returned]_vars
  PROVE  VerifierInv'
<1>1. Typable' => Typable
  BY SameProgram DEF Typable
<1>. QED  BY <1>1, CleanNext DEF VerifierInv

(* Whatever the program: if it has a typing, as the typechecker promises,  *)
(* and calls no operators of its own, then the verifier accepts exactly    *)
(* the functions whose source is clean: in which every return ends a       *)
(* branch or the function, and which end in a return if they have the type *)
(* bool.  Nothing else that code generation does, however statements are   *)
(* nested, makes a function that the verifier refuses                      *)
(* (main.cpp:122-123, Codegen.cpp:290-347, 426-428).                       *)
THEOREM VerifierOfTypedPrograms == Spec => [](Typable => VerifiedIffClean)
<1>1. Init => LookupInv /\ OperandInv /\ VerifierInv
  BY StartLookup, StartOperand, StartVerifier, CodegenAssumption DEF Init
<1>2. IInv => TypeInv
  BY DEF IInv
<1>3. VerifierInv => (Typable => VerifiedIffClean)
  BY DEF VerifierInv
<1>. QED  BY <1>1, <1>2, <1>3, NextLookup, NextOperand, NextVerifier, Inductive, PTL DEF Spec

-----------------------------------------------------------------------------
(* Counts of marks                                                         *)

\* The nodes with mark m, from a to b.
Count(prog, m, a, b) == Cardinality({k \in a .. b : prog[k].n = m})

LEMMA CountedSet ==
  ASSUME NEW prog, NEW m, NEW a \in Nat, NEW b \in Nat
  PROVE  LET S == {k \in a .. b : prog[k].n = m} IN IsFiniteSet(S) /\ Cardinality(S) \in Nat
<1>. DEFINE S == {k \in a .. b : prog[k].n = m}
<1>1. S \in SUBSET (a .. b) /\ IsFiniteSet(a .. b)
  BY FS_Interval
<1>. HIDE DEF S
<1>2. IsFiniteSet(S) /\ Cardinality(S) \in Nat
  BY <1>1, FS_Subset, FS_CardinalityType
<1>. QED  BY <1>2 DEF S

LEMMA CountNat ==
  ASSUME NEW prog, NEW m, NEW a \in Nat, NEW b \in Nat
  PROVE  /\ Count(prog, m, a, b) \in Nat
         /\ a > b => Count(prog, m, a, b) = 0
<1>. DEFINE S == {k \in a .. b : prog[k].n = m}
<1>1. IsFiniteSet(S) /\ Cardinality(S) \in Nat
  BY CountedSet
<1>2. a > b => S = {}
  OBVIOUS
<1>3. Cardinality({}) = 0
  BY FS_EmptySet
<1>. QED  BY <1>1, <1>2, <1>3 DEF Count

(* A range of nodes in two parts.                                          *)
LEMMA CountSplit ==
  ASSUME NEW prog, NEW m, NEW a \in Nat, NEW x \in Nat, NEW b \in Nat, a <= x + 1, x <= b
  PROVE  Count(prog, m, a, b) = Count(prog, m, a, x) + Count(prog, m, x + 1, b)
<1>. DEFINE S == {k \in a .. x : prog[k].n = m}
            T == {k \in x + 1 .. b : prog[k].n = m}
<1>1. IsFiniteSet(S) /\ Cardinality(S) \in Nat
  BY CountedSet
<1>0. IsFiniteSet(T) /\ Cardinality(T) \in Nat
  <2>1. \A y \in Nat : LET R == {k \in y .. b : prog[k].n = m} IN IsFiniteSet(R) /\ Cardinality(R) \in Nat
    BY CountedSet
  <2>2. x + 1 \in Nat
    OBVIOUS
  <2>. QED  BY <2>1, <2>2
<1>2. S \cup T = {k \in a .. b : prog[k].n = m} /\ S \cap T = {}
  OBVIOUS
<1>3. Count(prog, m, a, b) = Cardinality(S \cup T)
  BY <1>2 DEF Count
<1>4. Count(prog, m, a, x) = Cardinality(S) /\ Count(prog, m, x + 1, b) = Cardinality(T)
  BY DEF Count
<1>. HIDE DEF S, T
<1>5. Cardinality(S \cup T) = Cardinality(S) + Cardinality(T) - Cardinality({})
  BY <1>0, <1>1, <1>2, FS_Union
<1>. QED  BY <1>0, <1>1, <1>3, <1>4, <1>5, FS_EmptySet

(* One node.                                                               *)
LEMMA CountOne ==
  ASSUME NEW prog, NEW m, NEW a \in Nat
  PROVE  Count(prog, m, a, a) = IF prog[a].n = m THEN 1 ELSE 0
<1>. DEFINE S == {k \in a .. a : prog[k].n = m}
<1>1. prog[a].n = m => S = {a}
  OBVIOUS
<1>2. prog[a].n # m => S = {}
  OBVIOUS
<1>. HIDE DEF S
<1>. QED  BY <1>1, <1>2, FS_EmptySet, FS_Singleton DEF Count, S

LEMMA CountNext ==
  ASSUME NEW prog, NEW m, NEW a \in Nat, NEW b \in Nat, a <= b + 1
  PROVE  /\ Count(prog, m, a, b) \in Nat
         /\ Count(prog, m, a, b + 1) = Count(prog, m, a, b) + IF prog[b + 1].n = m THEN 1 ELSE 0
<1>1. Count(prog, m, a, b + 1) = Count(prog, m, a, b) + Count(prog, m, b + 1, b + 1)
  BY CountSplit
<1>. QED  BY <1>1, CountOne, CountNat

-----------------------------------------------------------------------------
(* Complete statements.  The marks o, m and c open, divide and close those *)
(* of one kind: in the nodes from a to b as many are closed as are opened, *)
(* none is closed that was opened before a, and none is divided that is    *)
(* not closed.                                                             *)

Matched(prog, o, c, a, b) ==
  /\ Count(prog, o, a, b) = Count(prog, c, a, b)
  /\ \A i \in a .. b : Count(prog, o, i, b) <= Count(prog, c, i, b)

Closed(prog, o, m, c, a, b) ==
  /\ Matched(prog, o, c, a, b)
  /\ \A i \in a .. b : prog[i].n = m => Count(prog, o, i, b) < Count(prog, c, i, b)

LEMMA ClosedEmpty ==
  ASSUME NEW prog, NEW o, NEW m, NEW c, NEW a \in Nat, NEW b \in Nat, a > b
  PROVE  Closed(prog, o, m, c, a, b)
<1>1. \A i \in a .. b : FALSE
  OBVIOUS
<1>. QED  BY <1>1, CountNat DEF Closed, Matched

(* Some statements after the other.                                        *)
LEMMA CountBoth ==
  ASSUME NEW prog, NEW o, NEW c, NEW x \in Nat, NEW b \in Nat, NEW i \in Nat, i <= x + 1, x <= b,
         Matched(prog, o, c, x + 1, b)
  PROVE  /\ Count(prog, o, i, x) = Count(prog, c, i, x) => Count(prog, o, i, b) = Count(prog, c, i, b)
         /\ Count(prog, o, i, x) <= Count(prog, c, i, x) => Count(prog, o, i, b) <= Count(prog, c, i, b)
         /\ Count(prog, o, i, x) < Count(prog, c, i, x) => Count(prog, o, i, b) < Count(prog, c, i, b)
<1>1. \A n : /\ Count(prog, n, i, b) = Count(prog, n, i, x) + Count(prog, n, x + 1, b)
             /\ Count(prog, n, i, x) \in Nat /\ Count(prog, n, x + 1, b) \in Nat
  BY CountSplit, CountNat
<1>2. Count(prog, o, x + 1, b) = Count(prog, c, x + 1, b)
  BY DEF Matched
<1>. QED  BY <1>1, <1>2

LEMMA MatchedBoth ==
  ASSUME NEW prog, NEW o, NEW c, NEW a \in Nat, NEW x \in Nat, NEW b \in Nat,
         a <= x + 1, x <= b, Matched(prog, o, c, a, x), Matched(prog, o, c, x + 1, b)
  PROVE  Matched(prog, o, c, a, b)
<1>1. Count(prog, o, a, b) = Count(prog, c, a, b)
  BY CountBoth DEF Matched
<1>2. ASSUME NEW i \in a .. b
      PROVE  Count(prog, o, i, b) <= Count(prog, c, i, b)
  <2>1. CASE i \in a .. x
    <3>1. i \in Nat /\ i <= x + 1
      BY <2>1
    <3>. QED  BY <2>1, <3>1, CountBoth DEF Matched
  <2>2. CASE i \in x + 1 .. b
    BY <2>2 DEF Matched
  <2>. QED  BY <2>1, <2>2
<1>. QED  BY <1>1, <1>2 DEF Matched

LEMMA ClosedBoth ==
  ASSUME NEW prog, NEW o, NEW m, NEW c, NEW a \in Nat, NEW x \in Nat, NEW b \in Nat,
         a <= x + 1, x <= b,
         Closed(prog, o, m, c, a, x), Closed(prog, o, m, c, x + 1, b)
  PROVE  Closed(prog, o, m, c, a, b)
<1>1. Matched(prog, o, c, a, b)
  BY MatchedBoth DEF Closed
<1>2. ASSUME NEW i \in a .. b, prog[i].n = m
      PROVE  Count(prog, o, i, b) < Count(prog, c, i, b)
  <2>1. CASE i \in a .. x
    <3>1. i \in Nat /\ i <= x + 1
      BY <2>1
    <3>. QED  BY <1>2, <2>1, <3>1, CountBoth DEF Closed
  <2>2. CASE i \in x + 1 .. b
    BY <1>2, <2>2 DEF Closed
  <2>. QED  BY <2>1, <2>2
<1>. QED  BY <1>1, <1>2 DEF Closed

(* A node that opens, closes or divides nothing.                           *)
LEMMA MatchedOne ==
  ASSUME NEW prog, NEW o, NEW c, NEW a \in Nat, prog[a].n \notin {o, c}
  PROVE  Matched(prog, o, c, a, a)
<1>1. Count(prog, o, a, a) = 0 /\ Count(prog, c, a, a) = 0
  BY CountOne
<1>2. \A i \in a .. a : i = a
  OBVIOUS
<1>. QED  BY <1>1, <1>2 DEF Matched

LEMMA ClosedMore ==
  ASSUME NEW prog, NEW o, NEW m, NEW c, NEW a \in Nat, NEW b \in Nat, a <= b + 1,
         Closed(prog, o, m, c, a, b), prog[b + 1].n \notin {o, m, c}
  PROVE  Closed(prog, o, m, c, a, b + 1)
<1>1. Closed(prog, o, m, c, b + 1, b + 1)
  <2>1. \A i \in b + 1 .. b + 1 : i = b + 1
    OBVIOUS
  <2>. QED  BY <2>1, MatchedOne DEF Closed
<1>. QED  BY <1>1, ClosedBoth

(* A statement with others in it.                                          *)
LEMMA ClosedAround ==
  ASSUME NEW prog, NEW o, NEW m, NEW c, o # m, o # c, m # c,
         NEW s \in Nat, NEW e \in Nat, s < e, prog[s].n = o, prog[e].n = c,
         Matched(prog, o, c, s + 1, e - 1)
  PROVE  Closed(prog, o, m, c, s, e)
<1>. DEFINE inner == e - 1
<1>1. inner \in Nat /\ inner + 1 = e /\ s <= inner /\ Matched(prog, o, c, s + 1, inner)
  OBVIOUS
<1>. HIDE DEF inner
<1>2. ASSUME NEW i \in Nat, i <= e
      PROVE  /\ Count(prog, o, i, e) = Count(prog, o, i, inner) /\ Count(prog, o, i, inner) \in Nat
             /\ Count(prog, c, i, e) = Count(prog, c, i, inner) + 1 /\ Count(prog, c, i, inner) \in Nat
  BY <1>1, <1>2, CountNext
<1>3. /\ Count(prog, o, s, inner) = 1 + Count(prog, o, s + 1, inner)
      /\ Count(prog, c, s, inner) = Count(prog, c, s + 1, inner)
  <2>1. \A n : Count(prog, n, s, inner) = Count(prog, n, s, s) + Count(prog, n, s + 1, inner)
    BY <1>1, CountSplit
  <2>2. Count(prog, o, s, s) = 1 /\ Count(prog, c, s, s) = 0
    BY CountOne
  <2>3. \A n : Count(prog, n, s + 1, inner) \in Nat
    BY <1>1, CountNat
  <2>. QED  BY <2>1, <2>2, <2>3
<1>4. Count(prog, o, s, e) = Count(prog, c, s, e)
  <2>1. Count(prog, o, s + 1, inner) = Count(prog, c, s + 1, inner)
    BY <1>1 DEF Matched
  <2>2. Count(prog, c, s + 1, inner) \in Nat
    BY <1>1, CountNat
  <2>. QED  BY <1>2, <1>3, <2>1, <2>2
<1>5. ASSUME NEW i \in s + 1 .. e
      PROVE  Count(prog, o, i, e) < Count(prog, c, i, e)
  <2>1. i \in Nat /\ i <= e
    BY <1>5
  <2>2. CASE i \in s + 1 .. inner
    <3>1. Count(prog, o, i, inner) <= Count(prog, c, i, inner)
      BY <1>1, <2>2 DEF Matched
    <3>. QED  BY <1>2, <2>1, <3>1
  <2>3. CASE i = e
    <3>1. Count(prog, o, e, inner) = 0 /\ Count(prog, c, e, inner) = 0
      BY <1>1, CountNat
    <3>. QED  BY <1>2, <2>1, <2>3, <3>1
  <2>. QED  BY <1>1, <1>5, <2>2, <2>3
<1>6. \A i \in s .. e : i = s \/ i \in s + 1 .. e
  OBVIOUS
<1>7. \A i \in s .. e : Count(prog, o, i, e) <= Count(prog, c, i, e)
  <2>1. \A i \in s .. e : Count(prog, o, i, e) \in Nat /\ Count(prog, c, i, e) \in Nat
    BY CountNat
  <2>. QED  BY <1>4, <1>5, <1>6, <2>1
<1>. QED  BY <1>4, <1>5, <1>6, <1>7 DEF Closed, Matched

(* The same, divided at j.                                                 *)
LEMMA MatchedDivided ==
  ASSUME NEW prog, NEW o, NEW c, NEW a \in Nat, NEW b \in Nat,
         NEW j \in a .. b, a > 0, prog[j].n \notin {o, c},
         Matched(prog, o, c, a, j - 1), Matched(prog, o, c, j + 1, b)
  PROVE  Matched(prog, o, c, a, b)
<1>1. /\ j \in Nat /\ j - 1 \in Nat /\ a <= (j - 1) + 1 /\ j - 1 <= j /\ (j - 1) + 1 = j
      /\ a <= j + 1 /\ j <= b
  OBVIOUS
<1>2. Matched(prog, o, c, a, j)
  BY <1>1, MatchedOne, MatchedBoth
<1>. QED  BY <1>1, <1>2, MatchedBoth

-----------------------------------------------------------------------------
(* The invariant                                                           *)

ClosedIf(prog, a, b) == Closed(prog, "If", "Else", "EndIf", a, b)

\* The blocks that a branch goes to.
BranchesOf(b) == UNION {Range(b[i].to) : i \in DOMAIN b}

Targets(bs) == UNION {BranchesOf(bs[b]) : b \in DOMAIN bs}

ThenPoints == {"IfThen", "ThenEnd"}
ElsePoints == {"IfElse", "ElseEnd"}
BodyPoints == ThenPoints \cup ElsePoints

Openers == {"Func", "Return", "CallStmt", "If", "Seq", "Assign", "Decl", "While"}

\* Behind the node of a Visit function, or behind its else, complete
\* statements follow, up to e.  The join of an if without else has a way in;
\* that of an if with else has one when a branch has ended otherwise than by a
\* return.
NestOK(prog, fr, e, f, to) ==
  /\ fr.node \in 1 .. e /\ prog[fr.node].n \in Openers
  /\ fr.pc \in {"IfCond"} \cup BodyPoints <=> prog[fr.node].n = "If"
  /\ fr.pc \in LoopPoints => fr.loop \in to
  /\ fr.pc \in {"WhileBody", "BodyEnd"} => fr.join \in to
  /\ fr.pc \notin BodyPoints => fr.els = 0
  /\ fr.pc \in BodyPoints /\ fr.els = 0 => fr.join \in to
  /\ fr.pc \in ThenPoints /\ fr.els # 0 => fr.els \in to /\ fr.join \notin to
  /\ IF fr.pc \in ElsePoints
     THEN /\ fr.els # 0
          /\ \E j \in fr.node + 1 .. e :
               /\ prog[j].n = "Else"
               /\ ClosedIf(prog, fr.node + 1, j - 1) /\ ClosedIf(prog, j + 1, e)
               /\ fr.join \notin to <=> Dead(prog, f, j)
     ELSE ClosedIf(prog, fr.node + 1, e)

\* A Visit function's nodes end before that of the next one.
EndOf(fs, t, k) == IF t = Len(fs) THEN k - 1 ELSE fs[t + 1].node - 1

Nested(prog, fs, k, to) ==
  \A t \in DOMAIN fs : NestOK(prog, fs[t], EndOf(fs, t, k), fs[1].node, to)

\* The mark at j is that of the else branch of the if that ends at e.
ElseIn(prog, j, e) ==
  /\ j < e /\ prog[j].n = "Else"
  /\ Count(prog, "EndIf", j, e) = Count(prog, "If", j, e) + 1
  /\ \A i \in j .. e : Count(prog, "EndIf", i, e) > Count(prog, "If", i, e)

\* The ifs that have ended, before k, and both of whose branches return.
Returning(prog, f, k) ==
  {e \in f .. k - 1 : /\ prog[e].n = "EndIf" /\ Dead(prog, f, e)
                      /\ \E j \in f .. e - 1 : ElseIn(prog, j, e) /\ Dead(prog, f, j)}

\* The blocks, up to the n-th, to which no branch goes or will go.
Unreached(n, to, fs) == ((2 .. n) \ to) \ PendingOf(fs)

NestingInv ==
  /\ frames # <<>> =>
       LET to == Targets(blocks) IN
       /\ Nested(syntax, frames, cursor, to)
       /\ Cardinality(Unreached(Len(blocks), to, frames))
            = Cardinality(Returning(syntax, frames[1].node, cursor))
  /\ BlocksAreConnected

-----------------------------------------------------------------------------
(* Active Visit functions                                                  *)

(* A node that is of no if is visited.                                     *)
LEMMA NestMore ==
  ASSUME NEW prog, NEW fr \in Frames, NEW e \in Nat, NEW f, NEW to, NestOK(prog, fr, e, f, to),
         prog[e + 1].n \notin {"If", "Else", "EndIf"}
  PROVE  NestOK(prog, fr, e + 1, f, to)
<1>1. /\ fr.node \in Nat /\ fr.node \in 1 .. e /\ fr.node \in 1 .. e + 1 /\ fr.node + 1 \in Nat
      /\ fr.node + 1 <= e + 1
  BY DEF NestOK, Frames
<1>2. \A a \in Nat : a <= e + 1 /\ ClosedIf(prog, a, e) => ClosedIf(prog, a, e + 1)
  BY ClosedMore DEF ClosedIf
<1>3. ASSUME fr.pc \in ElsePoints
      PROVE  \E j \in fr.node + 1 .. e + 1 :
               /\ prog[j].n = "Else"
               /\ ClosedIf(prog, fr.node + 1, j - 1) /\ ClosedIf(prog, j + 1, e + 1)
               /\ fr.join \notin to <=> Dead(prog, f, j)
  <2>1. PICK j \in fr.node + 1 .. e :
               /\ prog[j].n = "Else"
               /\ ClosedIf(prog, fr.node + 1, j - 1) /\ ClosedIf(prog, j + 1, e)
               /\ fr.join \notin to <=> Dead(prog, f, j)
    BY <1>3 DEF NestOK
  <2>2. j \in fr.node + 1 .. e + 1 /\ j + 1 \in Nat /\ j + 1 <= e + 1
    BY <1>1
  <2>. QED  BY <1>2, <2>1, <2>2
<1>4. fr.pc \notin ElsePoints => ClosedIf(prog, fr.node + 1, e + 1)
  BY <1>1, <1>2 DEF NestOK
<1>. QED  BY <1>1, <1>3, <1>4 DEF NestOK

(* A statement, from s to e, is visited.                                   *)
LEMMA NestThrough ==
  ASSUME NEW prog, NEW fr \in Frames, NEW s \in Nat, NEW e \in Nat, s > 0, s <= e, NEW f, NEW to,
         NestOK(prog, fr, s - 1, f, to), ClosedIf(prog, s, e)
  PROVE  NestOK(prog, fr, e, f, to)
<1>. DEFINE r == s - 1
<1>1. r \in Nat /\ s = r + 1 /\ r <= e /\ NestOK(prog, fr, r, f, to)
  OBVIOUS
<1>. HIDE DEF r
<1>2. /\ fr.node \in Nat /\ fr.node \in 1 .. r /\ fr.node \in 1 .. e /\ fr.node + 1 \in Nat
      /\ fr.node + 1 <= r + 1
  BY <1>1 DEF NestOK, Frames
<1>3. \A a \in Nat : a <= r + 1 /\ ClosedIf(prog, a, r) => ClosedIf(prog, a, e)
  BY <1>1, ClosedBoth DEF ClosedIf
<1>4. ASSUME fr.pc \in ElsePoints
      PROVE  \E j \in fr.node + 1 .. e :
               /\ prog[j].n = "Else"
               /\ ClosedIf(prog, fr.node + 1, j - 1) /\ ClosedIf(prog, j + 1, e)
               /\ fr.join \notin to <=> Dead(prog, f, j)
  <2>1. PICK j \in fr.node + 1 .. r :
               /\ prog[j].n = "Else"
               /\ ClosedIf(prog, fr.node + 1, j - 1) /\ ClosedIf(prog, j + 1, r)
               /\ fr.join \notin to <=> Dead(prog, f, j)
    BY <1>1, <1>4 DEF NestOK
  <2>2. j \in fr.node + 1 .. e /\ j + 1 \in Nat /\ j + 1 <= r + 1
    BY <1>1, <1>2
  <2>. QED  BY <1>3, <2>1, <2>2
<1>5. fr.pc \notin ElsePoints => ClosedIf(prog, fr.node + 1, e)
  BY <1>1, <1>2, <1>3 DEF NestOK
<1>. QED  BY <1>1, <1>2, <1>4, <1>5 DEF NestOK

\* Control points between which a frame moves when a statement is started.
SameKind(pc, qc) ==
  /\ pc \in ThenPoints <=> qc \in ThenPoints
  /\ pc \in ElsePoints <=> qc \in ElsePoints
  /\ pc \in {"WhileBody", "BodyEnd"} <=> qc \in {"WhileBody", "BodyEnd"}
  /\ pc \in LoopPoints <=> qc \in LoopPoints
  /\ pc = "IfCond" <=> qc = "IfCond"

LEMMA ResumedKind == \A pc \in StmtPoints : SameKind(pc, After[pc])
  BY DEF StmtPoints, After, SameKind, ThenPoints, ElsePoints, LoopPoints

LEMMA NestMoved ==
  ASSUME NEW prog, NEW fr \in Frames, NEW e, NEW f, NEW to, NestOK(prog, fr, e, f, to),
         NEW qc, SameKind(fr.pc, qc)
  PROVE  NestOK(prog, [fr EXCEPT !.pc = qc], e, f, to)
<1>. DEFINE new == [fr EXCEPT !.pc = qc]
<1>1. /\ new.pc = qc /\ new.node = fr.node /\ new.loop = fr.loop /\ new.els = fr.els
      /\ new.join = fr.join
  BY DEF Frames
<1>. HIDE DEF new
<1>2. NestOK(prog, new, e, f, to)
  BY <1>1 DEF NestOK, SameKind, BodyPoints
<1>. QED  BY <1>2 DEF new

(* Only blocks that no if waits for are branched to.                       *)
LEMMA NestTargets ==
  ASSUME NEW prog, NEW fr \in Frames, NEW e, NEW f, NEW to, NestOK(prog, fr, e, f, to),
         NEW more, to \subseteq more, \A b \in more : b \in to \/ b \notin Pending(fr)
  PROVE  NestOK(prog, fr, e, f, more)
<1>1. fr.pc \in BodyPoints => (fr.join \in more <=> fr.join \in to)
  BY DEF Pending, BodyPoints, ThenPoints, ElsePoints
<1>2. fr.pc \in ElsePoints => fr.pc \in BodyPoints
  BY DEF BodyPoints
<1>3. fr.pc \in ThenPoints => fr.pc \in BodyPoints
  BY DEF BodyPoints
<1>. QED  BY <1>1, <1>2, <1>3 DEF NestOK

(* The innermost Visit function apart from the others.                     *)
LEMMA NestedSplit ==
  ASSUME NEW prog, NEW fs \in Seq(Frames), fs # <<>>, NEW k, NEW to, Nested(prog, fs, k, to)
  PROVE  /\ NestOK(prog, Last(fs), k - 1, fs[1].node, to)
         /\ Nested(prog, Front(fs), Last(fs).node, to)
<1>1. /\ Len(fs) \in Nat \ {0} /\ Len(fs) \in DOMAIN fs /\ Last(fs) = fs[Len(fs)]
      /\ DOMAIN fs = 1 .. Len(fs)
  BY LastFrame
<1>2. NestOK(prog, Last(fs), k - 1, fs[1].node, to)
  BY <1>1 DEF Nested, EndOf
<1>. DEFINE front == Front(fs)
<1>3. /\ front \in Seq(Frames) /\ Len(front) = Len(fs) - 1 /\ DOMAIN front = 1 .. Len(fs) - 1
      /\ \A i \in 1 .. Len(fs) - 1 : front[i] = fs[i]
  <2>1. /\ front \in Seq(Frames) /\ Len(front) = Len(fs) - 1
        /\ \A i \in 1 .. Len(fs) - 1 : front[i] = fs[i]
    BY FrontFrames
  <2>. HIDE DEF front
  <2>. QED  BY <2>1
<1>. HIDE DEF front
<1>4. ASSUME NEW t \in DOMAIN front
      PROVE  NestOK(prog, front[t], EndOf(front, t, Last(fs).node), front[1].node, to)
  <2>1. /\ t \in 1 .. Len(fs) - 1 /\ t \in 1 .. Len(fs) /\ 1 \in 1 .. Len(fs) - 1
        /\ t # Len(fs) /\ (t # Len(front) => t + 1 \in 1 .. Len(fs) - 1)
        /\ (t = Len(front) => t + 1 = Len(fs))
    BY <1>1, <1>3, <1>4
  <2>2. front[t] = fs[t] /\ front[1] = fs[1]
    BY <1>3, <2>1
  <2>3. EndOf(front, t, Last(fs).node) = EndOf(fs, t, k)
    <3>1. CASE t = Len(front)
      BY <1>1, <2>1, <3>1 DEF EndOf
    <3>2. CASE t # Len(front)
      BY <1>3, <2>1, <3>2 DEF EndOf
    <3>. QED  BY <3>1, <3>2
  <2>. QED  BY <1>1, <2>1, <2>2, <2>3 DEF Nested
<1>. QED  BY <1>2, <1>4 DEF Nested, front

LEMMA NestedJoined ==
  ASSUME NEW prog, NEW fs \in Seq(Frames), NEW fr \in Frames, NEW k, NEW to,
         Nested(prog, fs, fr.node, to),
         NestOK(prog, fr, k - 1, IF fs = <<>> THEN fr.node ELSE fs[1].node, to)
  PROVE  Nested(prog, Append(fs, fr), k, to)
<1>. DEFINE new == Append(fs, fr)
<1>1. /\ Len(fs) \in Nat /\ Len(new) = Len(fs) + 1 /\ new[Len(fs) + 1] = fr
      /\ DOMAIN new = 1 .. Len(fs) + 1 /\ DOMAIN fs = 1 .. Len(fs)
      /\ \A i \in 1 .. Len(fs) : new[i] = fs[i]
      /\ fs = <<>> => Len(fs) = 0
      /\ fs # <<>> => 1 \in 1 .. Len(fs)
  OBVIOUS
<1>. HIDE DEF new
<1>2. new[1].node = IF fs = <<>> THEN fr.node ELSE fs[1].node
  BY <1>1
<1>3. ASSUME NEW t \in DOMAIN new
      PROVE  NestOK(prog, new[t], EndOf(new, t, k), new[1].node, to)
  <2>1. CASE t = Len(fs) + 1
    BY <1>1, <1>2, <2>1 DEF EndOf
  <2>2. CASE t \in 1 .. Len(fs)
    <3>1. /\ new[t] = fs[t] /\ t # Len(new) /\ fs # <<>>
          /\ t # Len(fs) => t + 1 \in 1 .. Len(fs)
      BY <1>1, <2>2
    <3>2. EndOf(new, t, k) = EndOf(fs, t, fr.node)
      <4>1. CASE t = Len(fs)
        BY <1>1, <3>1, <4>1 DEF EndOf
      <4>2. CASE t # Len(fs)
        BY <1>1, <3>1, <4>2 DEF EndOf
      <4>. QED  BY <4>1, <4>2
    <3>. QED  BY <1>1, <1>2, <2>2, <3>1, <3>2 DEF Nested
  <2>. QED  BY <1>1, <2>1, <2>2
<1>. QED  BY <1>3 DEF Nested, new

-----------------------------------------------------------------------------
(* Blocks with a way in                                                    *)

LEMMA BranchesAre ==
  /\ \A b, t : t \in BranchesOf(b) <=> \E i \in DOMAIN b : \E p \in DOMAIN b[i].to : t = b[i].to[p]
  /\ \A bs, t : t \in Targets(bs) <=> \E b \in DOMAIN bs : t \in BranchesOf(bs[b])
  BY DEF BranchesOf, Targets, Range

LEMMA BranchesJoined ==
  ASSUME NEW old \in Seq(Instrs), NEW new \in Seq(Instrs)
  PROVE  BranchesOf(old \o new) = BranchesOf(old) \cup BranchesOf(new)
<1>. DEFINE cat == old \o new  m == Len(old)
<1>1. /\ m \in Nat /\ DOMAIN old = 1 .. m /\ DOMAIN new = 1 .. Len(new) /\ Len(new) \in Nat
      /\ DOMAIN cat = 1 .. m + Len(new)
      /\ \A i \in 1 .. m : cat[i] = old[i]
      /\ \A i \in 1 .. Len(new) : cat[m + i] = new[i]
  OBVIOUS
<1>2. /\ \A i \in 1 .. m : i \in 1 .. m + Len(new)
      /\ \A i \in 1 .. Len(new) : m + i \in 1 .. m + Len(new)
      /\ \A i \in 1 .. m + Len(new) : i \in 1 .. m \/ (i - m \in 1 .. Len(new) /\ m + (i - m) = i)
  BY <1>1
<1>. HIDE DEF cat, m
<1>3. ASSUME NEW t \in BranchesOf(cat) PROVE t \in BranchesOf(old) \/ t \in BranchesOf(new)
  <2>1. PICK i \in DOMAIN cat : \E p \in DOMAIN cat[i].to : t = cat[i].to[p]
    BY BranchesAre
  <2>2. CASE i \in 1 .. m
    BY <1>1, <2>1, <2>2, BranchesAre
  <2>3. CASE i - m \in 1 .. Len(new) /\ m + (i - m) = i
    <3>1. cat[i] = new[i - m]
      BY <1>1, <2>3
    <3>. QED  BY <1>1, <2>1, <2>3, <3>1, BranchesAre
  <2>. QED  BY <1>1, <1>2, <2>1, <2>2, <2>3
<1>4. ASSUME NEW t \in BranchesOf(old) PROVE t \in BranchesOf(cat)
  BY <1>1, <1>2, BranchesAre
<1>5. ASSUME NEW t \in BranchesOf(new) PROVE t \in BranchesOf(cat)
  <2>1. PICK i \in DOMAIN new : \E p \in DOMAIN new[i].to : t = new[i].to[p]
    BY BranchesAre
  <2>2. m + i \in DOMAIN cat /\ cat[m + i] = new[i]
    BY <1>1, <1>2, <2>1
  <2>. QED  BY <2>1, <2>2, BranchesAre
<1>. QED  BY <1>3, <1>4, <1>5 DEF cat

LEMMA OneChanged ==
  ASSUME NEW old, NEW new, NEW c, c \in DOMAIN old, DOMAIN new = DOMAIN old,
         \A b \in DOMAIN old : b # c => new[b] = old[b],
         NEW was, was = BranchesOf(old[c]), NEW is, is = BranchesOf(new[c]), NEW more, is = was \cup more
  PROVE  \A t : t \in Targets(new) <=> t \in Targets(old) \/ t \in more
<1>1. ASSUME NEW t \in Targets(new) PROVE t \in Targets(old) \/ t \in more
  <2>1. PICK b \in DOMAIN new : t \in BranchesOf(new[b])
    BY BranchesAre
  <2>. QED  BY <2>1, BranchesAre
<1>2. ASSUME NEW t \in Targets(old) PROVE t \in Targets(new)
  <2>1. PICK b \in DOMAIN old : t \in BranchesOf(old[b])
    BY BranchesAre
  <2>. QED  BY <2>1, BranchesAre
<1>3. ASSUME NEW t \in more PROVE t \in Targets(new)
  BY <1>3, BranchesAre
<1>. QED  BY <1>1, <1>2, <1>3

LEMMA PutTargets ==
  ASSUME blocks \in Seq(Blocks), insert \in DOMAIN blocks, NEW new \in Seq(Instrs)
  PROVE  Targets(Put(new)) = Targets(blocks) \cup BranchesOf(new)
<1>1. /\ DOMAIN Put(new) = DOMAIN blocks
      /\ \A b \in DOMAIN blocks : b # insert => Put(new)[b] = blocks[b]
      /\ Put(new)[insert] = blocks[insert] \o new
  BY PutType
<1>2. BranchesOf(Put(new)[insert]) = BranchesOf(blocks[insert]) \cup BranchesOf(new)
  <2>1. blocks[insert] \in Seq(Instrs)
    BY DEF Blocks
  <2>. QED  BY <1>1, <2>1, BranchesJoined
<1>. DEFINE put  == Put(new)  more == BranchesOf(new)
            was  == BranchesOf(blocks[insert])  is == BranchesOf(put[insert])
<1>3. /\ insert \in DOMAIN blocks /\ DOMAIN put = DOMAIN blocks /\ is = was \cup more
      /\ \A b \in DOMAIN blocks : b # insert => put[b] = blocks[b]
  BY <1>1, <1>2
<1>4. was = BranchesOf(blocks[insert]) /\ is = BranchesOf(put[insert])
  OBVIOUS
<1>. HIDE DEF put, more, was, is
<1>5. \A t : t \in Targets(put) <=> t \in Targets(blocks) \/ t \in more
  BY <1>3, <1>4, OneChanged
<1>. QED  BY <1>5 DEF put, more

LEMMA AllocaTargets ==
  ASSUME blocks \in Seq(Blocks), blocks # <<>>, NEW i \in Instrs, i.to = <<>>
  PROVE  Targets([blocks EXCEPT ![1] = <<i>> \o @]) = Targets(blocks)
<1>. DEFINE bs == [blocks EXCEPT ![1] = <<i>> \o @]  one == <<i>>
<1>1. /\ DOMAIN bs = DOMAIN blocks /\ 1 \in DOMAIN blocks /\ blocks[1] \in Seq(Instrs)
      /\ bs[1] = one \o blocks[1] /\ \A b \in DOMAIN blocks : b # 1 => bs[b] = blocks[b]
      /\ one \in Seq(Instrs)
  BY DEF Blocks
<1>2. BranchesOf(one) = {}
  <2>1. \A j \in DOMAIN one : DOMAIN one[j].to = {}
    OBVIOUS
  <2>. HIDE DEF one
  <2>. QED  BY <2>1, BranchesAre
<1>. HIDE DEF one, bs
<1>3. BranchesOf(bs[1]) = BranchesOf(blocks[1]) \cup {}
  <2>1. BranchesOf(one \o blocks[1]) = BranchesOf(one) \cup BranchesOf(blocks[1])
    BY <1>1, BranchesJoined
  <2>. QED  BY <1>1, <1>2, <2>1
<1>4. \A t : t \in Targets(bs) <=> t \in Targets(blocks) \/ t \in {}
  <2>. DEFINE c == 1  none == {}  was == BranchesOf(blocks[c])  is == BranchesOf(bs[c])
  <2>1. /\ is = was \cup none /\ was = BranchesOf(blocks[c]) /\ is = BranchesOf(bs[c])
        /\ c \in DOMAIN blocks /\ DOMAIN bs = DOMAIN blocks
        /\ \A b \in DOMAIN blocks : b # c => bs[b] = blocks[b]
    BY <1>1, <1>3
  <2>. HIDE DEF was, is, none, c
  <2>2. \A t : t \in Targets(bs) <=> t \in Targets(blocks) \/ t \in none
    BY <2>1, OneChanged
  <2>. QED  BY <2>2 DEF none
<1>. QED  BY <1>4 DEF bs

LEMMA NewBlocksTargets ==
  ASSUME NEW bs \in Seq(Blocks), NEW n \in Nat, NEW new \in [1 .. n -> {<<>>}]
  PROVE  Targets(bs \o new) = Targets(bs) /\ Len(bs \o new) = Len(bs) + n
<1>. DEFINE cat == bs \o new
<1>1. /\ Len(cat) = Len(bs) + n /\ Len(bs) \in Nat
      /\ \A b \in 1 .. Len(bs) : cat[b] = bs[b]
      /\ \A b \in Len(bs) + 1 .. Len(bs) + n : cat[b] = <<>>
  BY NewBlocksClean
<1>2. DOMAIN cat = 1 .. Len(cat) /\ DOMAIN bs = 1 .. Len(bs)
  <2>1. new \in Seq({<<>>})
    BY SeqDef
  <2>. QED  BY <2>1
<1>. HIDE DEF cat
<1>3. BranchesOf(<<>>) = {}
  BY BranchesAre
<1>4. /\ \A b \in 1 .. Len(bs) + n : b \in 1 .. Len(bs) \/ b \in Len(bs) + 1 .. Len(bs) + n
      /\ \A b \in 1 .. Len(bs) : b \in 1 .. Len(bs) + n
  BY <1>1
<1>5. \A t : t \in Targets(cat) <=> t \in Targets(bs)
  BY <1>1, <1>2, <1>3, <1>4, BranchesAre
<1>. QED  BY <1>1, <1>5 DEF cat

LEMMA InsideTargets ==
  ASSUME NEW bs, NEW n
  PROVE  Inside(bs, n) <=> Targets(bs) \subseteq 2 .. n
  BY BranchesAre DEF Inside, Aimed

LEMMA SomeBranches ==
  /\ \A to \in Nat : BranchesOf(<<Jump("br", <<>>, <<to>>)>>) = {to}
  /\ \A instrs : Straight(instrs) => BranchesOf(instrs) = {}
  /\ \A t, e \in Nat : BranchesOf(CondBranch(<<t, e>>)) = {t, e}
<1>1. ASSUME NEW to \in Nat PROVE BranchesOf(<<Jump("br", <<>>, <<to>>)>>) = {to}
  <2>. DEFINE i == Jump("br", <<>>, <<to>>)  br == <<i>>
  <2>1. i.to = <<to>> /\ DOMAIN i.to = {1} /\ i.to[1] = to
    BY DEF Jump, Instr
  <2>. HIDE DEF i
  <2>2. DOMAIN br = {1} /\ br[1] = i
    OBVIOUS
  <2>. HIDE DEF br
  <2>3. BranchesOf(br) = {to}
    BY <2>1, <2>2, BranchesAre
  <2>. QED  BY <2>3 DEF br, i
<1>2. ASSUME NEW instrs, Straight(instrs) PROVE BranchesOf(instrs) = {}
  BY <1>2, BranchesAre DEF Straight
<1>3. ASSUME NEW t \in Nat, NEW e \in Nat PROVE BranchesOf(CondBranch(<<t, e>>)) = {t, e}
  <2>. DEFINE to  == <<t, e>>
              cmp == Instr("icmp", <<values[1], "i32">>)
              br1 == Jump("condbr", <<values[1]>>, to)  br2 == Jump("condbr", <<"i1">>, to)
              cond == CondBranch(to)
  <2>1. cond = <<br1>> \/ cond = <<cmp, br2>>
    BY DEF CondBranch
  <2>2. br1.to = to /\ br2.to = to /\ cmp.to = <<>>
    BY DEF Jump, Instr
  <2>3. DOMAIN to = {1, 2} /\ to[1] = t /\ to[2] = e
    OBVIOUS
  <2>. HIDE DEF br1, br2, cmp, to, cond
  <2>4. \/ DOMAIN cond = {1} /\ cond[1].to = to
        \/ DOMAIN cond = {1, 2} /\ cond[1].to = <<>> /\ cond[2].to = to
    BY <2>1, <2>2
  <2>5. BranchesOf(cond) = {t, e}
    BY <2>3, <2>4, BranchesAre
  <2>. QED  BY <2>5 DEF cond, to
<1>. QED  BY <1>1, <1>2, <1>3

-----------------------------------------------------------------------------
(* What the steps do to the active Visit functions                         *)

\* No branch to a block that these functions wait for is new.
Untouched(fs, to, more) == to \subseteq more /\ \A b \in more : b \in to \/ b \notin PendingOf(fs)

LEMMA NestedTargets ==
  ASSUME NEW prog, NEW fs \in Seq(Frames), NEW k, NEW to, Nested(prog, fs, k, to),
         NEW more, Untouched(fs, to, more)
  PROVE  Nested(prog, fs, k, more)
<1>1. ASSUME NEW t \in DOMAIN fs
      PROVE  NestOK(prog, fs[t], EndOf(fs, t, k), fs[1].node, more)
  <2>1. fs[t] \in Frames /\ NestOK(prog, fs[t], EndOf(fs, t, k), fs[1].node, to)
    BY DEF Nested
  <2>2. Pending(fs[t]) \subseteq PendingOf(fs)
    BY DEF PendingOf
  <2>3. to \subseteq more /\ \A b \in more : b \in to \/ b \notin Pending(fs[t])
    BY <2>2 DEF Untouched
  <2>. QED  BY <2>1, <2>3, NestTargets
<1>. QED  BY <1>1 DEF Nested

LEMMA UntouchedFront ==
  ASSUME NEW fs \in Seq(Frames), fs # <<>>, NEW to, NEW more, Untouched(fs, to, more)
  PROVE  Untouched(Front(fs), to, more)
  BY PendingSplit DEF Untouched

(* The innermost one goes on.                                              *)
LEMMA NestedReplaced ==
  ASSUME NEW prog, NEW fs \in Seq(Frames), fs # <<>>, NEW k, NEW to, Nested(prog, fs, k, to),
         NEW more, Untouched(Front(fs), to, more),
         NEW fr \in Frames, fr.node = Last(fs).node, NEW n, NestOK(prog, fr, n - 1, fs[1].node, more)
  PROVE  Nested(prog, [fs EXCEPT ![Len(fs)] = fr], n, more)
<1>. DEFINE front == Front(fs)  new == Append(front, fr)
<1>1. /\ front \in Seq(Frames) /\ Len(front) = Len(fs) - 1
      /\ \A i \in 1 .. Len(fs) - 1 : front[i] = fs[i]
  BY FrontFrames
<1>2. Len(fs) \in Nat \ {0} /\ DOMAIN fs = 1 .. Len(fs) /\ Last(fs) = fs[Len(fs)]
  BY LastFrame
<1>3. Nested(prog, front, fr.node, more)
  <2>1. Nested(prog, front, fr.node, to)
    BY NestedSplit
  <2>. QED  BY <1>1, <2>1, NestedTargets
<1>4. NestOK(prog, fr, n - 1, IF front = <<>> THEN fr.node ELSE front[1].node, more)
  <2>1. front = <<>> => fs[1] = Last(fs)
    BY <1>1, <1>2
  <2>2. front # <<>> => front[1] = fs[1]
    <3>1. front # <<>> => Len(front) >= 1
      BY <1>1
    <3>2. front # <<>> => 1 \in 1 .. Len(fs) - 1
      BY <1>1, <1>2, <3>1
    <3>. QED  BY <1>1, <3>2
  <2>. QED  BY <2>1, <2>2
<1>5. Nested(prog, new, n, more)
  <2>. HIDE DEF front
  <2>. QED  BY <1>1, <1>3, <1>4, NestedJoined
<1>6. new = [fs EXCEPT ![Len(fs)] = fr]
  <2>. DEFINE re == [fs EXCEPT ![Len(fs)] = fr]
  <2>1. /\ re \in Seq(Frames) /\ Len(re) = Len(fs) /\ re[Len(fs)] = fr
        /\ \A i \in 1 .. Len(fs) - 1 : re[i] = fs[i]
    BY ReplacedFrames
  <2>. HIDE DEF front
  <2>2. /\ Len(new) = Len(fs) /\ new[Len(fs)] = fr /\ new \in Seq(Frames)
        /\ \A i \in 1 .. Len(fs) - 1 : new[i] = fs[i]
    BY <1>1, <1>2
  <2>. HIDE DEF new, re
  <2>3. \A i \in 1 .. Len(fs) : new[i] = re[i]
    <3>1. \A i \in 1 .. Len(fs) : i \in 1 .. Len(fs) - 1 \/ i = Len(fs)
      BY <1>2, Positions
    <3>. QED  BY <2>1, <2>2, <3>1
  <2>4. new = re
    BY <2>1, <2>2, <2>3
  <2>. QED  BY <2>4 DEF re
<1>. QED  BY <1>5, <1>6

LEMMA NestedMore ==
  ASSUME NEW prog, NEW fs \in Seq(Frames), fs # <<>>, NEW k \in Nat \ {0}, NEW to,
         Nested(prog, fs, k, to), prog[k].n \notin {"If", "Else", "EndIf"}
  PROVE  Nested(prog, fs, k + 1, to)
<1>1. /\ Last(fs) \in Frames /\ [fs EXCEPT ![Len(fs)] = Last(fs)] = fs
      /\ NestOK(prog, Last(fs), k - 1, fs[1].node, to)
  BY LastFrame, NestedSplit
<1>2. NestOK(prog, Last(fs), k, fs[1].node, to)
  <2>. DEFINE e == k - 1
  <2>1. e \in Nat /\ e + 1 = k
    OBVIOUS
  <2>. HIDE DEF e
  <2>2. NestOK(prog, Last(fs), e + 1, fs[1].node, to)
    BY <1>1, <2>1, NestMore DEF e
  <2>. QED  BY <2>1, <2>2
<1>3. Untouched(Front(fs), to, to) /\ (k + 1) - 1 = k
  BY DEF Untouched
<1>. QED  BY <1>1, <1>2, <1>3, NestedReplaced

(* A statement is started.                                                 *)
LEMMA NestedResumed ==
  ASSUME NEW prog, NEW fs \in Seq(Frames), At(fs, StmtPoints), NEW k, NEW to, Nested(prog, fs, k, to)
  PROVE  Nested(prog, Resume(fs), k, to) /\ Resume(fs) \in Seq(Frames) /\ Resume(fs) # <<>>
<1>. DEFINE pc == After[Last(fs).pc]  fr == [Last(fs) EXCEPT !.pc = pc]
<1>1. Resume(fs) = SetPc(fs, pc) /\ pc \in ControlPoints /\ fs # <<>>
  BY ResumeFrames DEF ControlPoints, StmtPoints
<1>2. Last(fs) \in Frames /\ fr \in Frames /\ fr.node = Last(fs).node
  <2>1. Last(fs) \in Frames
    BY <1>1, LastFrame
  <2>. HIDE DEF pc
  <2>. QED  BY <1>1, <2>1 DEF Frames
<1>3. SetPc(fs, pc) = [fs EXCEPT ![Len(fs)] = fr]
  BY <1>1, LastFrame DEF SetPc
<1>4. NestOK(prog, fr, k - 1, fs[1].node, to)
  <2>1. SameKind(Last(fs).pc, pc)
    BY ResumedKind DEF At
  <2>2. NestOK(prog, Last(fs), k - 1, fs[1].node, to)
    BY <1>1, NestedSplit
  <2>. HIDE DEF pc
  <2>. QED  BY <1>2, <2>1, <2>2, NestMoved
<1>5. Untouched(Front(fs), to, to)
  BY DEF Untouched
<1>. HIDE DEF fr, pc
<1>6. Nested(prog, [fs EXCEPT ![Len(fs)] = fr], k, to)
  BY <1>1, <1>2, <1>4, <1>5, NestedReplaced
<1>7. Resume(fs) \in Seq(Frames)
  BY <1>1, SetPcFrames
<1>8. Nested(prog, Resume(fs), k, to)
  BY <1>1, <1>3, <1>6
<1>. QED  BY <1>7, <1>8, EnteredOutermost

LEMMA NestedEntered ==
  ASSUME NEW prog, NEW fs \in Seq(Frames), At(fs, StmtPoints), NEW k \in Nat, NEW to, Nested(prog, fs, k, to),
         NEW more, Untouched(fs, to, more),
         NEW fr \in Frames, fr.node = k, NestOK(prog, fr, k, fs[1].node, more)
  PROVE  Nested(prog, Enter(fs, fr), k + 1, more)
<1>1. /\ Nested(prog, Resume(fs), k, to) /\ Resume(fs) \in Seq(Frames) /\ Resume(fs) # <<>>
      /\ Resume(fs)[1].node = fs[1].node
  BY NestedResumed, EnteredOutermost
<1>2. Untouched(Resume(fs), to, more)
  BY PendingResumed DEF Untouched
<1>3. Nested(prog, Resume(fs), fr.node, more)
  BY <1>1, <1>2, NestedTargets
<1>4. (k + 1) - 1 = k
  OBVIOUS
<1>. QED  BY <1>1, <1>3, <1>4, NestedJoined DEF Enter

(* A Visit function returns behind the end of its statement.               *)
LEMMA NestedPopped ==
  ASSUME NEW prog, NEW fs \in Seq(Frames), fs # <<>>, NEW k \in Nat, NEW to, Nested(prog, fs, k, to),
         NEW more, Untouched(Front(fs), to, more), ClosedIf(prog, Last(fs).node, k),
         Last(fs).node \in 1 .. k
  PROVE  Nested(prog, Front(fs), k + 1, more)
<1>. DEFINE g == Front(fs)  s == Last(fs).node
<1>1. g \in Seq(Frames) /\ Nested(prog, g, s, to) /\ s \in Nat /\ s > 0 /\ s <= k
  BY FrontFrames, NestedSplit
<1>. HIDE DEF g
<1>2. CASE g = <<>>
  BY <1>2 DEF Nested, g
<1>3. CASE g # <<>>
  <2>1. /\ Last(g) \in Frames /\ [g EXCEPT ![Len(g)] = Last(g)] = g
        /\ NestOK(prog, Last(g), s - 1, g[1].node, to)
    BY <1>1, <1>3, LastFrame, NestedSplit
  <2>2. NestOK(prog, Last(g), k, g[1].node, to)
    BY <1>1, <2>1, NestThrough
  <2>3. Nested(prog, g, k + 1, to)
    <3>. DEFINE fr == Last(g)
    <3>1. Untouched(Front(g), to, to) /\ (k + 1) - 1 = k
      BY DEF Untouched
    <3>2. fr \in Frames /\ fr.node = Last(g).node /\ [g EXCEPT ![Len(g)] = fr] = g
          /\ NestOK(prog, fr, (k + 1) - 1, g[1].node, to)
      BY <2>1, <2>2, <3>1
    <3>. HIDE DEF fr
    <3>3. Nested(prog, [g EXCEPT ![Len(g)] = fr], k + 1, to)
      BY <1>1, <1>3, <3>1, <3>2, NestedReplaced
    <3>. QED  BY <3>2, <3>3
  <2>. QED  BY <1>1, <2>3, NestedTargets DEF g
<1>. QED  BY <1>2, <1>3

-----------------------------------------------------------------------------
(* The end of a statement                                                  *)

(* The nodes of a statement that is no if.                                 *)
LEMMA SegmentOther ==
  ASSUME NEW prog, NEW fr \in Frames, NEW k \in Nat \ {0}, NEW f, NEW to,
         NestOK(prog, fr, k - 1, f, to), fr.pc \notin {"IfCond"} \cup BodyPoints,
         prog[k].n \notin {"If", "Else", "EndIf"}
  PROVE  ClosedIf(prog, fr.node, k) /\ fr.node \in 1 .. k
<1>. DEFINE s == fr.node  e == k - 1
<1>1. /\ s \in Nat \ {0} /\ e \in Nat /\ e + 1 = k /\ s <= e /\ s + 1 <= e + 1 /\ s \in 1 .. k
      /\ prog[s].n \notin {"If", "Else", "EndIf"} /\ ClosedIf(prog, s + 1, e)
  BY DEF NestOK, Frames, Openers, BodyPoints
<1>. HIDE DEF s, e
<1>2. ClosedIf(prog, s + 1, e + 1)
  <2>. DEFINE a == s + 1
  <2>1. a \in Nat /\ a <= e + 1 /\ ClosedIf(prog, a, e) /\ prog[e + 1].n \notin {"If", "Else", "EndIf"}
    BY <1>1
  <2>. HIDE DEF a
  <2>2. ClosedIf(prog, a, e + 1)
    BY <1>1, <2>1, ClosedMore DEF ClosedIf
  <2>. QED  BY <2>2 DEF a
<1>3. ClosedIf(prog, s, s)
  <2>. DEFINE r == s - 1
  <2>1. r \in Nat /\ r + 1 = s /\ s <= r + 1 /\ s > r
    BY <1>1
  <2>. HIDE DEF r
  <2>2. ClosedIf(prog, s, r)
    BY <1>1, <2>1, ClosedEmpty DEF ClosedIf
  <2>. QED  BY <1>1, <2>1, <2>2, ClosedMore DEF ClosedIf
<1>4. ClosedIf(prog, s, k)
  <2>1. s <= s + 1 /\ s <= k /\ s \in Nat /\ k \in Nat
    BY <1>1
  <2>. QED  BY <1>1, <1>2, <1>3, <2>1, ClosedBoth DEF ClosedIf
<1>. QED  BY <1>1, <1>4 DEF s

(* The nodes between an if and its end.                                    *)
LEMMA SegmentIf ==
  ASSUME NEW prog, NEW fr \in Frames, NEW k \in Nat \ {0}, NEW f, NEW to,
         NestOK(prog, fr, k - 1, f, to), fr.pc \in BodyPoints, prog[k].n = "EndIf"
  PROVE  ClosedIf(prog, fr.node, k) /\ fr.node \in 1 .. k
<1>. DEFINE s == fr.node  e == k - 1
<1>1. /\ s \in Nat \ {0} /\ e \in Nat /\ e = k - 1 /\ s <= e /\ s < k /\ s \in 1 .. k
      /\ prog[s].n = "If"
  BY DEF NestOK, Frames
<1>2. Matched(prog, "If", "EndIf", s + 1, e)
  <2>1. CASE fr.pc \in ElsePoints
    <3>1. PICK j \in s + 1 .. e :
            /\ prog[j].n = "Else"
            /\ ClosedIf(prog, s + 1, j - 1) /\ ClosedIf(prog, j + 1, e)
      BY <2>1 DEF NestOK
    <3>2. s + 1 \in Nat /\ s + 1 > 0
      BY <1>1
    <3>. HIDE DEF s, e
    <3>. QED  BY <1>1, <3>1, <3>2, MatchedDivided DEF ClosedIf, Closed
  <2>2. CASE fr.pc \notin ElsePoints
    BY <2>2 DEF NestOK, ClosedIf, Closed
  <2>. QED  BY <2>1, <2>2
<1>. HIDE DEF s
<1>. QED  BY <1>1, <1>2, ClosedAround DEF ClosedIf, s

(* The else of an if is found from its end: it is that of the innermost if *)
(* that is being visited.                                                  *)
LEMMA ElseOfIf ==
  ASSUME NEW prog, NEW fr \in Frames, NEW k \in Nat \ {0}, NEW f, NEW to,
         NestOK(prog, fr, k - 1, f, to), fr.pc \in BodyPoints, prog[k].n = "EndIf"
  PROVE  /\ fr.pc \in ElsePoints => \E j \in fr.node + 1 .. k - 1 : ElseIn(prog, j, k)
         /\ \A x \in 1 .. k - 1 : ElseIn(prog, x, k) =>
              fr.pc \in ElsePoints /\ (fr.join \notin to <=> Dead(prog, f, x))
<1>. DEFINE s == fr.node  e == k - 1
<1>1. /\ s \in Nat \ {0} /\ e \in Nat /\ e + 1 = k /\ s <= e /\ s < k /\ s \in 1 .. k /\ e < k
      /\ prog[s].n = "If"
  BY DEF NestOK, Frames
<1>2. ASSUME NEW i \in Nat, i <= k
      PROVE  /\ Count(prog, "If", i, k) = Count(prog, "If", i, e) /\ Count(prog, "If", i, e) \in Nat
             /\ Count(prog, "EndIf", i, k) = Count(prog, "EndIf", i, e) + 1
             /\ Count(prog, "EndIf", i, e) \in Nat
  <2>. HIDE DEF e
  <2>1. \A n : /\ Count(prog, n, i, e) \in Nat
               /\ Count(prog, n, i, e + 1) = Count(prog, n, i, e) + IF prog[e + 1].n = n THEN 1 ELSE 0
    BY <1>1, <1>2, CountNext
  <2>. QED  BY <1>1, <2>1
<1>3. Count(prog, "If", s, k) = Count(prog, "EndIf", s, k)
  BY SegmentIf DEF ClosedIf, Closed, Matched
<1>4. ASSUME NEW x \in 1 .. e, ElseIn(prog, x, k)
      PROVE  /\ x \in s + 1 .. e /\ x \in Nat /\ prog[x].n = "Else"
             /\ Count(prog, "If", x, e) = Count(prog, "EndIf", x, e)
  <2>1. /\ prog[x].n = "Else" /\ Count(prog, "EndIf", x, k) = Count(prog, "If", x, k) + 1
        /\ \A i \in x .. k : Count(prog, "EndIf", i, k) > Count(prog, "If", i, k)
    BY <1>4 DEF ElseIn
  <2>2. x \in Nat /\ x <= k
    BY <1>1
  <2>3. x # s
    BY <1>1, <2>1
  <2>4. ~ (x < s)
    <3>1. SUFFICES ASSUME x < s PROVE FALSE
      OBVIOUS
    <3>2. s \in x .. k
      BY <1>1, <3>1
    <3>3. Count(prog, "If", s, k) \in Nat
      BY <1>1, <1>2
    <3>. HIDE DEF s
    <3>. QED  BY <1>3, <2>1, <3>2, <3>3
  <2>. QED  BY <1>1, <1>2, <2>1, <2>2, <2>3, <2>4
<1>5. CASE fr.pc \notin ElsePoints
  <2>1. ClosedIf(prog, s + 1, e)
    BY <1>5 DEF NestOK
  <2>2. ASSUME NEW x \in 1 .. e, ElseIn(prog, x, k) PROVE FALSE
    <3>1. /\ x \in s + 1 .. e /\ x \in Nat /\ prog[x].n = "Else"
          /\ Count(prog, "If", x, e) = Count(prog, "EndIf", x, e)
      BY <1>4, <2>2
    <3>2. Count(prog, "If", x, e) < Count(prog, "EndIf", x, e)
      BY <2>1, <3>1 DEF ClosedIf, Closed
    <3>3. x <= k
      BY <1>1
    <3>4. Count(prog, "If", x, e) \in Nat
      BY <1>2, <3>1, <3>3
    <3>. HIDE DEF e
    <3>. QED  BY <3>1, <3>2, <3>4
  <2>. QED  BY <1>5, <2>2
<1>6. CASE fr.pc \in ElsePoints
  <2>1. PICK j \in s + 1 .. e :
          /\ prog[j].n = "Else"
          /\ ClosedIf(prog, s + 1, j - 1) /\ ClosedIf(prog, j + 1, e)
          /\ fr.join \notin to <=> Dead(prog, f, j)
    BY <1>6 DEF NestOK
  <2>2. /\ j \in Nat \ {0} /\ j <= k /\ j <= e /\ j < k /\ j + 1 \in Nat /\ j <= j + 1 /\ j - 1 \in Nat
        /\ (j - 1) + 1 = j /\ j - 1 <= e
    BY <1>1, <2>1
  <2>. HIDE DEF s, e
  <2>3. Matched(prog, "If", "EndIf", j, e)
    <3>1. Matched(prog, "If", "EndIf", j, j)
      BY <2>1, <2>2, MatchedOne
    <3>2. Matched(prog, "If", "EndIf", j + 1, e)
      BY <2>1 DEF ClosedIf, Closed
    <3>. QED  BY <1>1, <2>2, <3>1, <3>2, MatchedBoth
  <2>4. ElseIn(prog, j, k)
    <3>1. Count(prog, "EndIf", j, k) = Count(prog, "If", j, k) + 1
      BY <1>2, <2>2, <2>3 DEF Matched
    <3>2. ASSUME NEW i \in j .. k PROVE Count(prog, "EndIf", i, k) > Count(prog, "If", i, k)
      <4>1. i \in Nat /\ i <= k /\ (i \in j .. e \/ i = k)
        BY <1>1, <2>2
      <4>2. CASE i \in j .. e
        <5>1. Count(prog, "If", i, e) <= Count(prog, "EndIf", i, e)
          BY <2>3, <4>2 DEF Matched
        <5>. QED  BY <1>2, <4>1, <5>1
      <4>3. CASE i = k
        <5>1. Count(prog, "If", k, e) = 0 /\ Count(prog, "EndIf", k, e) = 0
          BY <1>1, CountNat
        <5>. QED  BY <1>2, <4>1, <4>3, <5>1
      <4>. QED  BY <4>1, <4>2, <4>3
    <3>. QED  BY <2>1, <2>2, <3>1, <3>2 DEF ElseIn
  <2>5. ASSUME NEW x \in 1 .. e, ElseIn(prog, x, k) PROVE x = j
    <3>1. /\ x \in s + 1 .. e /\ x \in Nat /\ prog[x].n = "Else"
          /\ Count(prog, "If", x, e) = Count(prog, "EndIf", x, e)
      BY <1>4, <2>5
    <3>2. x <= k
      BY <1>1, <3>1
    <3>3. Count(prog, "If", x, e) \in Nat
      BY <1>2, <3>1, <3>2
    <3>4. ~ (x > j)
      <4>1. SUFFICES ASSUME x > j PROVE FALSE
        OBVIOUS
      <4>2. x \in j + 1 .. e
        BY <2>2, <3>1, <4>1
      <4>3. Count(prog, "If", x, e) < Count(prog, "EndIf", x, e)
        BY <2>1, <3>1, <4>2 DEF ClosedIf, Closed
      <4>. QED  BY <3>1, <3>3, <4>3
    <3>5. ~ (x < j)
      <4>1. SUFFICES ASSUME x < j PROVE FALSE
        OBVIOUS
      <4>2. x \in s + 1 .. j - 1 /\ x <= (j - 1) + 1
        BY <2>2, <3>1, <4>1
      <4>3. Count(prog, "If", x, j - 1) < Count(prog, "EndIf", x, j - 1)
        BY <2>1, <3>1, <4>2 DEF ClosedIf, Closed
      <4>4. Count(prog, "If", x, e) < Count(prog, "EndIf", x, e)
        <5>. DEFINE r == j - 1
        <5>1. /\ r \in Nat /\ x <= r + 1 /\ r <= e /\ Matched(prog, "If", "EndIf", r + 1, e)
              /\ Count(prog, "If", x, r) < Count(prog, "EndIf", x, r)
          BY <2>2, <2>3, <4>2, <4>3
        <5>. HIDE DEF r
        <5>. QED  BY <1>1, <3>1, <5>1, CountBoth
      <4>. QED  BY <3>1, <3>3, <4>4
    <3>. QED  BY <2>2, <3>1, <3>4, <3>5
  <2>. QED  BY <1>1, <1>6, <2>1, <2>4, <2>5 DEF s, e
<1>. QED  BY <1>5, <1>6

-----------------------------------------------------------------------------
(* Ifs both of whose branches return                                       *)

LEMMA ReturningSame ==
  ASSUME NEW prog, NEW f \in Nat, NEW k \in Nat, prog[k].n # "EndIf"
  PROVE  Returning(prog, f, k + 1) = Returning(prog, f, k)
<1>1. \A e \in f .. (k + 1) - 1 : e = k \/ e \in f .. k - 1
  OBVIOUS
<1>2. \A e \in f .. k - 1 : e \in f .. (k + 1) - 1
  OBVIOUS
<1>. QED  BY <1>1, <1>2 DEF Returning

LEMMA ReturningFinite ==
  ASSUME NEW prog, NEW f \in Nat, NEW k \in Nat
  PROVE  IsFiniteSet(Returning(prog, f, k)) /\ Cardinality(Returning(prog, f, k)) \in Nat
<1>1. Returning(prog, f, k) \in SUBSET (f .. k - 1) /\ IsFiniteSet(f .. k - 1)
  BY FS_Interval DEF Returning
<1>. QED  BY <1>1, FS_Subset, FS_CardinalityType

(* An if ends.                                                             *)
LEMMA ReturningMore ==
  ASSUME NEW prog, NEW f \in Nat, NEW k \in Nat, f <= k, prog[k].n = "EndIf"
  PROVE  LET both == Dead(prog, f, k) /\ \E j \in f .. k - 1 : ElseIn(prog, j, k) /\ Dead(prog, f, j)
         IN  Cardinality(Returning(prog, f, k + 1))
               = Cardinality(Returning(prog, f, k)) + IF both THEN 1 ELSE 0
<1>. DEFINE both == Dead(prog, f, k) /\ \E j \in f .. k - 1 : ElseIn(prog, j, k) /\ Dead(prog, f, j)
            old  == Returning(prog, f, k)
            new  == Returning(prog, f, k + 1)
<1>1. \A e \in f .. (k + 1) - 1 : e = k \/ e \in f .. k - 1
  OBVIOUS
<1>2. k \in f .. (k + 1) - 1 /\ \A e \in f .. k - 1 : e \in f .. (k + 1) - 1 /\ e # k
  OBVIOUS
<1>3. both => new = old \cup {k} /\ k \notin old
  BY <1>1, <1>2 DEF Returning
<1>4. ~both => new = old
  BY <1>1, <1>2 DEF Returning
<1>5. IsFiniteSet(old) /\ Cardinality(old) \in Nat
  BY ReturningFinite
<1>. HIDE DEF both, old, new
<1>6. Cardinality(new) = Cardinality(old) + IF both THEN 1 ELSE 0
  BY <1>3, <1>4, <1>5, FS_AddElement
<1>. QED  BY <1>6 DEF both, old, new

(* What the property says of a function depends on the program alone.      *)
LEMMA SameReturning ==
  ASSUME syntax' = syntax
  PROVE  \A d : ReturningIfs(d)' = ReturningIfs(d)
<1>1. \A k : FunctionEnd(k)' = FunctionEnd(k) /\ Follower(k)' = Follower(k)
  BY DEF FunctionEnd, Follower, Following, SelectInSubSeq, Inert
<1>2. \A k : Followers(k)' = Followers(k)
  BY <1>1 DEF Followers, ReturnsIn
<1>3. \A j, e : ElseOf(j, e)' <=> ElseOf(j, e)
  BY DEF ElseOf, Ifs
<1>. QED  BY <1>2, <1>3 DEF ReturningIfs

(* At the end of a function they are those of the property.                *)
LEMMA ReturningAtEnd ==
  ASSUME syntax \in Seq(Nodes), NEW k \in 1 .. Len(syntax), syntax[k].n = "EndFunc",
         NEW f \in 1 .. k - 1, \A i \in f .. k - 1 : syntax[i].n # "EndFunc",
         ReturnsEnded(syntax, f, k)
  PROVE  ReturningIfs(f) = Returning(syntax, f, k)
<1>1. \A g \in Followers(f) : g \in f .. k /\ ~Inert(syntax[g])
  BY FollowersDead
<1>2. \A g \in f .. k : ~Inert(syntax[g]) => (g \in Followers(f) <=> Dead(syntax, f, g))
  BY FollowersDead
<1>3. \A j, e : ElseOf(j, e) <=> ElseIn(syntax, j, e)
  BY DEF ElseOf, ElseIn, Ifs, Count
<1>4. \A g : syntax[g].n \in {"EndIf", "Else"} => ~Inert(syntax[g])
  BY DEF Inert
<1>5. \A e \in f .. k : e = k \/ e \in f .. k - 1
  OBVIOUS
<1>6. \A e \in f .. k - 1 : e \in f .. k /\ \A j \in f .. e - 1 : j \in f .. k
  OBVIOUS
<1>7. ASSUME NEW e \in ReturningIfs(f) PROVE e \in Returning(syntax, f, k)
  <2>1. e \in Followers(f) /\ syntax[e].n = "EndIf"
    BY <1>7 DEF ReturningIfs
  <2>2. PICK j \in Followers(f) : ElseOf(j, e)
    BY <1>7 DEF ReturningIfs
  <2>3. e \in f .. k - 1 /\ Dead(syntax, f, e)
    BY <1>1, <1>2, <1>5, <2>1
  <2>4. ElseIn(syntax, j, e) /\ Dead(syntax, f, j) /\ j \in f .. k /\ j < e
    BY <1>1, <1>2, <1>3, <2>2 DEF ElseIn
  <2>5. j \in f .. e - 1
    BY <2>3, <2>4
  <2>. QED  BY <2>1, <2>3, <2>4, <2>5 DEF Returning
<1>8. ASSUME NEW e \in Returning(syntax, f, k) PROVE e \in ReturningIfs(f)
  <2>1. e \in f .. k - 1 /\ syntax[e].n = "EndIf" /\ Dead(syntax, f, e)
    BY <1>8 DEF Returning
  <2>2. PICK j \in f .. e - 1 : ElseIn(syntax, j, e) /\ Dead(syntax, f, j)
    BY <1>8 DEF Returning
  <2>3. e \in Followers(f)
    BY <1>2, <1>4, <1>6, <2>1
  <2>4. j \in Followers(f)
    BY <1>2, <1>4, <1>6, <2>1, <2>2 DEF ElseIn
  <2>. QED  BY <1>3, <2>1, <2>2, <2>3, <2>4 DEF ReturningIfs
<1>. QED  BY <1>7, <1>8

LEMMA SameConnected ==
  ASSUME syntax' = syntax, module' = module, BlocksAreConnected
  PROVE  BlocksAreConnected'
<1>1. \A d : ReturningIfs(d)' = ReturningIfs(d)
  BY SameReturning
<1>2. \A m : ReturningIfs(module[m].def)' = ReturningIfs(module[m].def)
  BY <1>1
<1>. QED  BY <1>2 DEF BlocksAreConnected

-----------------------------------------------------------------------------
(* The steps                                                               *)

\* What the other proofs know of every step.
FlowInv == TypeInv /\ InsertOK /\ TablesOK /\ OperandInv /\ JumpInv /\ CleanInv

(* The current function.                                                   *)
LEMMA Nesting ==
  ASSUME FlowInv, NestingInv, frames # <<>>
  PROVE  /\ frames \in Seq(Frames) /\ blocks \in Seq(Blocks) /\ insert \in DOMAIN blocks
         /\ Len(blocks) \in Nat \ {0} /\ cursor \in Nat \ {0}
         /\ frames[1].node \in Nat /\ frames[1].node \in 1 .. cursor - 1
         /\ Targets(blocks) \subseteq 2 .. Len(blocks)
         /\ PendingOf(frames) \subseteq 2 .. Len(blocks)
         /\ \A b \in Pending(Last(frames)) : b \notin PendingOf(Front(frames))
         /\ Nested(syntax, frames, cursor, Targets(blocks))
         /\ Last(frames) \in Frames
         /\ NestOK(syntax, Last(frames), cursor - 1, frames[1].node, Targets(blocks))
<1>1. /\ frames \in Seq(Frames) /\ blocks \in Seq(Blocks) /\ insert \in DOMAIN blocks
      /\ Len(blocks) \in Nat \ {0} /\ cursor \in Nat \ {0}
      /\ frames[1].node \in Nat /\ frames[1].node \in 1 .. cursor - 1
      /\ PendingOK(frames, blocks, insert) /\ Inside(blocks, Len(blocks))
  BY Within DEF FlowInv
<1>2. Targets(blocks) \subseteq 2 .. Len(blocks)
  BY <1>1, InsideTargets
<1>3. PendingOf(frames) \subseteq 2 .. Len(blocks)
  BY <1>1 DEF PendingOf, PendingOK
<1>4. ASSUME NEW b \in Pending(Last(frames)) PROVE b \notin PendingOf(Front(frames))
  <2>1. Last(frames) = frames[Len(frames)] /\ Len(frames) \in DOMAIN frames /\ Len(frames) \in Nat
        /\ DOMAIN frames = 1 .. Len(frames)
    BY <1>1, LastFrame
  <2>2. DOMAIN Front(frames) = 1 .. Len(frames) - 1
        /\ \A i \in 1 .. Len(frames) - 1 : Front(frames)[i] = frames[i]
    <3>. DEFINE front == Front(frames)
    <3>1. /\ front \in Seq(Frames) /\ Len(front) = Len(frames) - 1
          /\ \A i \in 1 .. Len(frames) - 1 : front[i] = frames[i]
      BY <1>1, FrontFrames
    <3>. HIDE DEF front
    <3>2. DOMAIN front = 1 .. Len(frames) - 1 /\ \A i \in 1 .. Len(frames) - 1 : front[i] = frames[i]
      BY <3>1
    <3>. QED  BY <3>2 DEF front
  <2>3. \A i \in 1 .. Len(frames) - 1 : i \in DOMAIN frames /\ i # Len(frames)
    BY <2>1, Positions
  <2>. QED  BY <1>1, <1>4, <2>1, <2>2, <2>3 DEF PendingOf, PendingOK
<1>5. Nested(syntax, frames, cursor, Targets(blocks))
  BY DEF NestingInv
<1>6. Last(frames) \in Frames /\ NestOK(syntax, Last(frames), cursor - 1, frames[1].node, Targets(blocks))
  BY <1>1, <1>5, LastFrame, NestedSplit
<1>. QED  BY <1>1, <1>2, <1>3, <1>4, <1>5, <1>6

(* New blocks have a way in, or wait.                                      *)
LEMMA SameUnreached ==
  ASSUME NEW n \in Nat, NEW m \in Nat, n <= m, NEW to, NEW more, NEW fs, NEW gs,
         \A t \in n + 1 .. m : t \in more \/ t \in PendingOf(gs),
         \A t \in 2 .. n : t \in more \/ t \in PendingOf(gs) <=> t \in to \/ t \in PendingOf(fs)
  PROVE  Unreached(m, more, gs) = Unreached(n, to, fs)
<1>1. \A t \in 2 .. m : t \in 2 .. n \/ t \in n + 1 .. m
  OBVIOUS
<1>2. \A t \in 2 .. n : t \in 2 .. m
  OBVIOUS
<1>. QED  BY <1>1, <1>2 DEF Unreached

(* A step that ends no if and no function.                                 *)
LEMMA NestingKept ==
  ASSUME FlowInv, NestingInv, frames # <<>>, syntax[cursor].n # "EndIf",
         cursor' = cursor + 1, UNCHANGED <<syntax, module>>,
         frames' # <<>> => frames'[1].node = frames[1].node,
         NEW more, more = Targets(blocks'), NEW m, m = Len(blocks'),
         Nested(syntax, frames', cursor + 1, more),
         Unreached(m, more, frames') = Unreached(Len(blocks), Targets(blocks), frames)
  PROVE  NestingInv'
<1>. DEFINE f == frames[1].node
<1>1. f \in Nat /\ cursor \in Nat
  BY Nesting
<1>2. Returning(syntax, f, cursor + 1) = Returning(syntax, f, cursor)
  BY <1>1, ReturningSame
<1>3. Cardinality(Unreached(m, more, frames')) = Cardinality(Returning(syntax, f, cursor + 1))
  BY <1>2 DEF NestingInv
<1>4. BlocksAreConnected'
  BY SameConnected DEF NestingInv
<1>5. frames' # <<>> =>
        /\ Nested(syntax', frames', cursor', more)
        /\ Cardinality(Unreached(m, more, frames'))
             = Cardinality(Returning(syntax', frames'[1].node, cursor'))
  BY <1>3
<1>. QED  BY <1>4, <1>5 DEF NestingInv

(* A statement is started.                                                 *)
LEMMA NestingEntered ==
  ASSUME FlowInv, NestingInv, At(frames, StmtPoints), syntax[cursor].n \in Openers,
         cursor' = cursor + 1, UNCHANGED <<syntax, module>>,
         NEW fr \in Frames, fr.node = cursor, fr.els = 0, fr.pc \in PlainPoints,
         fr.pc = "IfCond" <=> syntax[cursor].n = "If",
         frames' = Enter(frames, fr),
         NEW more, more = Targets(blocks'), NEW m \in Nat, m = Len(blocks'), Len(blocks) <= m,
         fr.pc = "WhileCond" => fr.loop \in more,
         Targets(blocks) \subseteq more,
         \A t \in 2 .. Len(blocks) : t \in more => t \in Targets(blocks),
         \A t \in Len(blocks) + 1 .. m : t \in more
  PROVE  NestingInv'
<1>. DEFINE to == Targets(blocks)  len == Len(blocks)  f == frames[1].node
<1>1. /\ frames # <<>> /\ frames \in Seq(Frames) /\ len \in Nat /\ cursor \in Nat \ {0}
      /\ PendingOf(frames) \subseteq 2 .. len
      /\ Nested(syntax, frames, cursor, to)
  BY Nesting DEF At
<1>2. Untouched(frames, to, more)
  BY <1>1 DEF Untouched
<1>3. NestOK(syntax, fr, cursor, f, more)
  <2>1. ClosedIf(syntax, cursor + 1, cursor)
    <3>. DEFINE a == cursor + 1
    <3>1. a \in Nat /\ a > cursor /\ cursor \in Nat
      BY <1>1
    <3>. HIDE DEF a
    <3>2. ClosedIf(syntax, a, cursor)
      BY <3>1, ClosedEmpty DEF ClosedIf
    <3>. QED  BY <3>2 DEF a
  <2>2. /\ fr.pc \notin BodyPoints \cup ThenPoints \cup ElsePoints \cup {"WhileBody", "BodyEnd"}
        /\ fr.pc \in LoopPoints => fr.pc = "WhileCond"
    BY DEF PlainPoints, ExpPoints, BodyPoints, ThenPoints, ElsePoints, LoopPoints
  <2>3. cursor \in 1 .. cursor
    BY <1>1
  <2>. QED  BY <2>1, <2>2, <2>3 DEF NestOK
<1>4. Nested(syntax, frames', cursor + 1, more)
  BY <1>1, <1>2, <1>3, NestedEntered
<1>5. frames' # <<>> => frames'[1].node = f
  BY <1>1, EnteredOutermost
<1>6. PendingOf(frames') = PendingOf(frames)
  BY <1>1, PendingEntered
<1>7. Unreached(m, more, frames') = Unreached(len, to, frames)
  BY <1>1, <1>6, SameUnreached
<1>8. syntax[cursor].n # "EndIf"
  BY DEF Openers
<1>. QED  BY <1>1, <1>4, <1>5, <1>7, <1>8, NestingKept

(* A statement ends that is no if.                                         *)
LEMMA NestingPopped ==
  ASSUME FlowInv, NestingInv, frames # <<>>, Last(frames).pc \notin {"IfCond"} \cup BodyPoints,
         syntax[cursor].n \notin {"If", "Else", "EndIf"},
         cursor' = cursor + 1, UNCHANGED <<syntax, module>>, frames' = Front(frames),
         Targets(blocks') = Targets(blocks), Len(blocks') = Len(blocks)
  PROVE  NestingInv'
<1>. DEFINE to == Targets(blocks)  len == Len(blocks)  f == frames[1].node  fr == Last(frames)
<1>1. /\ frames \in Seq(Frames) /\ len \in Nat /\ cursor \in Nat \ {0}
      /\ Nested(syntax, frames, cursor, to)
      /\ fr \in Frames /\ NestOK(syntax, fr, cursor - 1, f, to)
  BY Nesting
<1>2. Untouched(Front(frames), to, to)
  BY DEF Untouched
<1>3. ClosedIf(syntax, fr.node, cursor) /\ fr.node \in 1 .. cursor
  BY <1>1, SegmentOther
<1>4. Nested(syntax, frames', cursor + 1, to)
  BY <1>1, <1>2, <1>3, NestedPopped
<1>5. frames' # <<>> => frames'[1].node = f
  BY <1>1, PoppedOutermost
<1>6. \A t \in Pending(fr) : t \in to
  BY <1>1 DEF Pending, NestOK, BodyPoints, ThenPoints, ElsePoints
<1>7. Unreached(len, to, frames') = Unreached(len, to, frames)
  BY <1>1, <1>6, PendingSplit DEF Unreached
<1>. HIDE DEF to, len
<1>8. to = Targets(blocks') /\ len = Len(blocks') /\ to = Targets(blocks) /\ len = Len(blocks)
  BY DEF to, len
<1>. QED  BY <1>4, <1>5, <1>7, <1>8, NestingKept

(* Statements with an expression, and blocks of statements.                *)
LEMMA NestingVisit ==
  ASSUME FlowInv, NestingInv,
         NEW kind \in {"Return", "CallStmt", "If", "Seq", "Assign"},
         NEW pc \in PlainPoints, pc = "IfCond" <=> kind = "If", pc # "WhileCond",
         VisitExpOf(kind, pc)
  PROVE  NestingInv'
<1>. DEFINE fr == NewFrame(pc, 0)
<1>1. /\ At(frames, StmtPoints) /\ frames # <<>> /\ syntax[cursor].n = kind
      /\ cursor' = cursor + 1 /\ UNCHANGED <<syntax, blocks, module>>
      /\ frames' = Enter(frames, fr)
  BY DEF VisitExpOf, VisitStmt, At, Reading
<1>2. fr \in Frames /\ fr.pc = pc /\ fr.node = cursor /\ fr.els = 0
  <2>1. PlainPoints \subseteq ControlPoints
    BY DEF PlainPoints, ControlPoints, StmtPoints
  <2>2. fr \in Frames /\ fr.pc = pc /\ fr.node = cursor
    BY <1>1, <2>1, Nesting, NewFrameType
  <2>. QED  BY <2>2 DEF NewFrame
<1>. HIDE DEF fr
<1>3. /\ Len(blocks) \in Nat /\ Len(blocks') = Len(blocks) /\ Targets(blocks') = Targets(blocks)
      /\ \A t \in Len(blocks) + 1 .. Len(blocks) : FALSE
  BY <1>1, Nesting
<1>4. kind \in Openers
  BY DEF Openers
<1>. DEFINE more == Targets(blocks')  m == Len(blocks')
<1>5. /\ more = Targets(blocks') /\ m \in Nat /\ m = Len(blocks') /\ Len(blocks) <= m
      /\ Targets(blocks) \subseteq more
      /\ \A t \in 2 .. Len(blocks) : t \in more => t \in Targets(blocks)
      /\ \A t \in Len(blocks) + 1 .. m : t \in more
  BY <1>3
<1>. HIDE DEF more, m
<1>. QED  BY <1>1, <1>2, <1>4, <1>5, NestingEntered

LEMMA NestingSame ==
  ASSUME NestingInv, UNCHANGED <<syntax, cursor, frames, blocks, module>>
  PROVE  NestingInv'
<1>1. BlocksAreConnected'
  BY SameConnected DEF NestingInv
<1>. QED  BY <1>1 DEF NestingInv

(* A node is visited that is no statement with others in it.               *)
LEMMA NestingMore ==
  ASSUME FlowInv, NestingInv, frames # <<>>, syntax[cursor].n \notin {"If", "Else", "EndIf"},
         cursor' = cursor + 1, UNCHANGED <<syntax, module>>,
         frames' = frames \/ (At(frames, StmtPoints) /\ frames' = Resume(frames)),
         Targets(blocks') = Targets(blocks), Len(blocks') = Len(blocks)
  PROVE  NestingInv'
<1>. DEFINE to == Targets(blocks)  len == Len(blocks)  f == frames[1].node
<1>1. frames \in Seq(Frames) /\ cursor \in Nat \ {0} /\ Nested(syntax, frames, cursor, to)
  BY Nesting
<1>2. /\ frames' \in Seq(Frames) /\ frames' # <<>> /\ frames'[1].node = f
      /\ Nested(syntax, frames', cursor, to) /\ PendingOf(frames') = PendingOf(frames)
  BY <1>1, NestedResumed, EnteredOutermost, PendingResumed
<1>3. Nested(syntax, frames', cursor + 1, to)
  BY <1>1, <1>2, NestedMore
<1>4. Unreached(len, to, frames') = Unreached(len, to, frames)
  BY <1>2 DEF Unreached
<1>. HIDE DEF to, len
<1>5. to = Targets(blocks') /\ len = Len(blocks') /\ to = Targets(blocks) /\ len = Len(blocks)
  BY DEF to, len
<1>. QED  BY <1>2, <1>3, <1>4, <1>5, NestingKept

(* A declaration.                                                          *)
LEMMA NestingVisitDecl ==
  ASSUME FlowInv, NestingInv, VisitDecl
  PROVE  NestingInv'
<1>. DEFINE node == syntax[cursor]
            decl == LocalDecl(cursor, node.name, node.type)
            i    == Access("alloca", <<>>, decl)
            fr   == NewFrame("DeclInit", 0)
<1>1. /\ At(frames, StmtPoints) /\ frames # <<>> /\ node \in Nodes /\ node.n = "Decl"
      /\ cursor' = cursor + 1 /\ UNCHANGED <<syntax, module>>
      /\ blocks' = [blocks EXCEPT ![1] = <<i>> \o @]
      /\ frames' = IF node.init THEN Enter(frames, fr) ELSE Resume(frames)
  BY ReadingNode DEF VisitDecl, VisitStmt, FlowInv, TypeInv, TypeOK, At
<1>2. i \in Instrs /\ i.to = <<>>
  <2>1. cursor \in Nat
    BY <1>1, Nesting
  <2>2. decl \in VarDecls
    BY <1>1, <2>1, NodeKinds, LocalDeclType
  <2>3. i.to = <<>>
    BY DEF Access, Instr
  <2>. HIDE DEF i
  <2>. QED  BY <2>2, <2>3, SomeInstrs DEF i
<1>3. /\ fr \in Frames /\ fr.pc = "DeclInit" /\ fr.node = cursor /\ fr.els = 0
      /\ "DeclInit" \in PlainPoints /\ "DeclInit" # "IfCond" /\ "DeclInit" # "WhileCond"
  <2>1. "DeclInit" \in ControlPoints
    BY DEF ControlPoints, ExpPoints
  <2>2. fr \in Frames /\ fr.pc = "DeclInit" /\ fr.node = cursor
    BY <1>1, <2>1, Nesting, NewFrameType
  <2>. QED  BY <2>2 DEF NewFrame, PlainPoints, ExpPoints
<1>. HIDE DEF fr, i, decl
<1>4. Targets(blocks') = Targets(blocks) /\ Len(blocks') = Len(blocks) /\ Len(blocks) \in Nat
  <2>1. blocks \in Seq(Blocks) /\ blocks # <<>> /\ Len(blocks) \in Nat
    BY <1>1, Nesting
  <2>2. Len([blocks EXCEPT ![1] = <<i>> \o @]) = Len(blocks)
    BY <2>1
  <2>. QED  BY <1>1, <1>2, <2>1, <2>2, AllocaTargets
<1>5. CASE node.init
  <2>. DEFINE more == Targets(blocks')  m == Len(blocks')
  <2>1. /\ more = Targets(blocks') /\ m \in Nat /\ m = Len(blocks') /\ Len(blocks) <= m
        /\ Targets(blocks) \subseteq more
        /\ \A t \in 2 .. Len(blocks) : t \in more => t \in Targets(blocks)
        /\ \A t \in Len(blocks) + 1 .. m : t \in more
    BY <1>4
  <2>. HIDE DEF more, m
  <2>2. "Decl" \in Openers /\ frames' = Enter(frames, fr)
    BY <1>1, <1>5 DEF Openers
  <2>. QED  BY <1>1, <1>3, <2>1, <2>2, NestingEntered
<1>6. CASE ~node.init
  BY <1>1, <1>4, <1>6, NestingMore
<1>. QED  BY <1>5, <1>6

(* The head of a loop.                                                     *)
LEMMA NestingVisitWhile ==
  ASSUME FlowInv, NestingInv, VisitWhile
  PROVE  NestingInv'
<1>. DEFINE len  == Len(blocks)
            loop == len + 1
            fr   == NewFrame("WhileCond", loop)
            put  == Put(<<Jump("br", <<>>, <<loop>>)>>)
            to   == Targets(blocks)
<1>1. /\ At(frames, StmtPoints) /\ frames # <<>> /\ syntax[cursor].n = "While"
      /\ cursor' = cursor + 1 /\ UNCHANGED <<syntax, module>>
      /\ blocks' = Append(put, <<>>) /\ frames' = Enter(frames, fr)
  BY DEF VisitWhile, VisitStmt, At, Reading
<1>2. /\ len \in Nat \ {0} /\ loop \in Nat /\ loop > len /\ cursor \in Nat
      /\ blocks \in Seq(Blocks) /\ insert \in DOMAIN blocks /\ to \subseteq 2 .. len
      /\ loop = len + 1 /\ len = Len(blocks) /\ to = Targets(blocks)
  BY <1>1, Nesting
<1>. HIDE DEF len, loop
<1>3. /\ fr \in Frames /\ fr.pc = "WhileCond" /\ fr.node = cursor /\ fr.els = 0 /\ fr.loop = loop
      /\ "WhileCond" \in PlainPoints /\ "WhileCond" # "IfCond"
  <2>1. "WhileCond" \in ControlPoints
    BY DEF ControlPoints, ExpPoints
  <2>2. fr \in Frames /\ fr.pc = "WhileCond" /\ fr.node = cursor
    BY <1>2, <2>1, NewFrameType
  <2>. QED  BY <2>2 DEF NewFrame, PlainPoints, ExpPoints
<1>. HIDE DEF fr
<1>4. Targets(put) = to \cup {loop} /\ Len(put) = len /\ put \in Seq(Blocks)
  <2>. DEFINE br == <<Jump("br", <<>>, <<loop>>)>>
  <2>1. br \in Seq(Instrs) /\ BranchesOf(br) = {loop}
    BY <1>2, BranchFacts, SomeBranches
  <2>. HIDE DEF br
  <2>. QED  BY <1>2, <2>1, PutTargets, PutType DEF br
<1>. HIDE DEF put, to
<1>5. Targets(blocks') = to \cup {loop} /\ Len(blocks') = loop
  <2>. DEFINE new == << <<>> >>  one == 1
  <2>1. new \in [1 .. one -> {<<>>}] /\ one \in Nat /\ blocks' = put \o new /\ len + one = loop
    BY <1>1, <1>2, <1>4
  <2>. HIDE DEF new, one
  <2>2. Targets(put \o new) = Targets(put) /\ Len(put \o new) = Len(put) + one
    BY <1>4, <2>1, NewBlocksTargets
  <2>. QED  BY <1>4, <2>1, <2>2
<1>. DEFINE more == to \cup {loop}
<1>6. /\ more = Targets(blocks') /\ loop \in Nat /\ loop = Len(blocks') /\ Len(blocks) <= loop
      /\ fr.pc = "WhileCond" => fr.loop \in more
      /\ Targets(blocks) \subseteq more
      /\ \A t \in 2 .. Len(blocks) : t \in more => t \in Targets(blocks)
      /\ \A t \in Len(blocks) + 1 .. loop : t \in more
  BY <1>2, <1>3, <1>5
<1>. HIDE DEF more
<1>7. "While" \in Openers
  BY DEF Openers
<1>. QED  BY <1>1, <1>3, <1>6, <1>7, NestingEntered

(* A node of an expression.                                                *)
LEMMA NestingExp ==
  ASSUME FlowInv, NestingInv, NextExp
  PROVE  NestingInv'
<1>1. /\ At(frames, ExpPoints) /\ syntax[cursor].n \in ExpNodes
      /\ \/ Abort
         \/ \E vals, instrs : Generate(vals, instrs) /\ Straight(instrs)
  BY StraightNextExp DEF FlowInv
<1>2. CASE Abort
  BY <1>2, NestingSame DEF Abort
<1>3. CASE ~Abort
  <2>1. PICK vals, instrs : Generate(vals, instrs) /\ Straight(instrs)
    BY <1>1, <1>3
  <2>2. /\ cursor' = cursor + 1 /\ UNCHANGED <<syntax, module>> /\ frames' = frames
        /\ blocks' = Put(instrs) /\ frames # <<>>
    BY <1>1, <2>1 DEF Generate, At
  <2>3. instrs \in Seq(Instrs) /\ BranchesOf(instrs) = {}
    BY <2>1, StraightFacts, SomeBranches
  <2>4. Targets(blocks') = Targets(blocks) /\ Len(blocks') = Len(blocks)
    BY <2>2, <2>3, Nesting, PutTargets, PutType
  <2>5. syntax[cursor].n \notin {"If", "Else", "EndIf"}
    BY <1>1 DEF ExpNodes
  <2>. QED  BY <2>2, <2>4, <2>5, NestingMore
<1>. QED  BY <1>2, <1>3

(* The ends of statements that are no ifs.                                 *)
LEMMA NestingEndStmt ==
  ASSUME FlowInv, NestingInv, EndCallStmt \/ EndReturn \/ EndAssign \/ EndDeclInit
  PROVE  NestingInv'
<1>1. PICK pc \in ExpPoints, instrs \in Seq(Instrs) : EndStmtExp(pc, instrs) /\ NoBranches(instrs)
  BY StmtExpInstrs DEF FlowInv
<1>2. /\ frames # <<>> /\ Last(frames).pc = pc /\ syntax[cursor].n = "EndExp"
      /\ cursor' = cursor + 1 /\ UNCHANGED <<syntax, module>>
      /\ blocks' = Put(instrs) /\ frames' = Front(frames)
  BY <1>1 DEF EndStmtExp, EndExp, At, Reading
<1>3. BranchesOf(instrs) = {}
  BY <1>1, BranchesAre DEF NoBranches
<1>4. Targets(blocks') = Targets(blocks) /\ Len(blocks') = Len(blocks)
  BY <1>2, <1>3, Nesting, PutTargets, PutType
<1>5. pc \notin {"IfCond"} \cup BodyPoints
  <2>1. pc \in {"CallExp", "ReturnExp", "AssignExp", "DeclInit"}
    BY <1>2 DEF EndCallStmt, EndReturn, EndAssign, EndDeclInit, EndStmtExp, EndExp, At
  <2>. QED  BY <2>1 DEF BodyPoints, ThenPoints, ElsePoints
<1>. QED  BY <1>2, <1>4, <1>5, NestingPopped

LEMMA NestingEndSeq ==
  ASSUME FlowInv, NestingInv, EndSeq
  PROVE  NestingInv'
<1>1. /\ frames # <<>> /\ Last(frames).pc = "Seq" /\ syntax[cursor].n = "EndSeq"
      /\ cursor' = cursor + 1 /\ UNCHANGED <<syntax, module, blocks>> /\ frames' = Front(frames)
  BY DEF EndSeq, EndVisit, At, Reading
<1>2. "Seq" \notin {"IfCond"} \cup BodyPoints
  BY DEF BodyPoints, ThenPoints, ElsePoints
<1>. QED  BY <1>1, <1>2, NestingPopped

LEMMA NestingEndWhile ==
  ASSUME FlowInv, NestingInv, EndWhile
  PROVE  NestingInv'
<1>. DEFINE fr == Last(frames)  br == <<Jump("br", <<>>, <<fr.loop>>)>>
<1>1. /\ frames # <<>> /\ fr.pc = "BodyEnd" /\ syntax[cursor].n = "EndWhile"
      /\ cursor' = cursor + 1 /\ UNCHANGED <<syntax, module>> /\ frames' = Front(frames)
      /\ blocks' = Put(br)
  BY DEF EndWhile, EndVisit, At, Reading
<1>2. fr.loop \in Targets(blocks) /\ fr.loop \in Nat
  BY <1>1, Nesting DEF NestOK, LoopPoints, Frames
<1>3. br \in Seq(Instrs) /\ BranchesOf(br) = {fr.loop}
  BY <1>2, BranchFacts, SomeBranches
<1>. HIDE DEF br
<1>4. Targets(blocks') = Targets(blocks) /\ Len(blocks') = Len(blocks)
  BY <1>1, <1>2, <1>3, Nesting, PutTargets, PutType
<1>5. "BodyEnd" \notin {"IfCond"} \cup BodyPoints
  BY DEF BodyPoints, ThenPoints, ElsePoints
<1>. QED  BY <1>1, <1>4, <1>5, NestingPopped

(* A condition ends: the blocks after it are new.  The branch goes to the  *)
(* first two of them; the statement itself will go to all but the first.   *)
Branched(fr, n) ==
  /\ n \in {2, 3} /\ fr \in Frames
  /\ fr.node = Last(frames).node /\ Pending(Last(frames)) = {}
  /\ Pending(fr) = Len(blocks) + 2 .. Len(blocks) + n
  /\ frames' = [frames EXCEPT ![Len(frames)] = fr]
  /\ blocks' = Put(CondBranch(<<Len(blocks) + 1, Len(blocks) + 2>>)) \o [b \in 1 .. n |-> <<>>]

AndBranch == Targets(blocks) \cup {Len(blocks) + 1, Len(blocks) + 2}

LEMMA BranchedPending ==
  ASSUME FlowInv, NestingInv, frames # <<>>, NEW fr, NEW n, Branched(fr, n)
  PROVE  PendingOf(frames') = PendingOf(frames) \cup Pending(fr)
<1>1. frames \in Seq(Frames) /\ fr \in Frames /\ Pending(Last(frames)) = {}
  BY Nesting DEF Branched
<1>2. PendingOf(frames') = PendingOf(Front(frames)) \cup Pending(fr)
  BY <1>1, PendingReplaced DEF Branched
<1>3. PendingOf(frames) = PendingOf(Front(frames))
  BY <1>1, PendingSplit
<1>. QED  BY <1>2, <1>3

LEMMA BranchedUnreached ==
  ASSUME FlowInv, NestingInv, frames # <<>>, NEW fr, NEW n, Branched(fr, n)
  PROVE  Unreached(Len(blocks) + n, AndBranch, frames') = Unreached(Len(blocks), Targets(blocks), frames)
<1>. DEFINE len == Len(blocks)  to == Targets(blocks)  gone == PendingOf(frames)  pending == Pending(fr)
            left == PendingOf(frames')  branch == {len + 1, len + 2}  more == to \cup branch
            small == 2 .. len  large == 2 .. (len + n)  rest == len + 1 .. len + n
<1>1. len \in Nat /\ left = gone \cup pending
  BY Nesting, BranchedPending
<1>2. n \in {2, 3} /\ pending = len + 2 .. len + n
  BY DEF Branched
<1>3. \A b \in small : b \notin branch /\ b \notin pending
  BY <1>1, <1>2
<1>4. \A b \in large : b \in small \/ b \in rest
  BY <1>1, <1>2
<1>5. \A b \in small : b \in large
  BY <1>1, <1>2
<1>6. \A b \in rest : b \in branch \/ b \in pending
  BY <1>1, <1>2
<1>7. AndBranch = more
  BY DEF AndBranch
<1>. HIDE DEF len, to, gone, pending, left, branch, small, large, rest
<1>8. (large \ more) \ left = (small \ to) \ gone
  BY <1>1, <1>3, <1>4, <1>5, <1>6, Zenon
<1>. HIDE DEF more
<1>. QED  BY <1>7, <1>8 DEF Unreached, len, to, gone, left, small, large

LEMMA BranchedTargets ==
  ASSUME FlowInv, NestingInv, frames # <<>>, values # <<>>, NEW fr, NEW n, Branched(fr, n)
  PROVE  Targets(blocks') = AndBranch /\ Len(blocks') = Len(blocks) + n
<1>. DEFINE len == Len(blocks)  t == len + 1  e == len + 2  goes == <<t, e>>
            br == CondBranch(goes)  put == Put(br)  new == [b \in 1 .. n |-> <<>>]
<1>1. /\ len \in Nat /\ blocks \in Seq(Blocks) /\ insert \in DOMAIN blocks /\ TypeOK
      /\ n \in Nat /\ blocks' = put \o new
  BY Nesting DEF Branched, FlowInv, TypeInv
<1>2. br \in Seq(Instrs)
  <2>1. goes \in Seq(Nat)
    BY <1>1
  <2>. HIDE DEF goes
  <2>. QED  BY <1>1, <2>1, CondFacts
<1>3. BranchesOf(br) = {t, e}
  <2>1. t \in Nat /\ e \in Nat
    BY <1>1
  <2>. HIDE DEF t, e
  <2>. QED  BY <2>1, SomeBranches
<1>. HIDE DEF br
<1>4. put \in Seq(Blocks) /\ Len(put) = len /\ Targets(put) = Targets(blocks) \cup BranchesOf(br)
  BY <1>1, <1>2, PutTargets, PutType
<1>5. new \in [1 .. n -> {<<>>}]
  OBVIOUS
<1>. HIDE DEF put, new
<1>6. Targets(blocks') = Targets(put) /\ Len(blocks') = Len(put) + n
  BY <1>1, <1>4, <1>5, NewBlocksTargets
<1>. QED  BY <1>3, <1>4, <1>6 DEF AndBranch

LEMMA NestingBody ==
  ASSUME FlowInv, NestingInv, frames # <<>>, syntax[cursor].n = "EndExp", values # <<>>,
         cursor' = cursor + 1, UNCHANGED <<syntax, module>>, NEW fr, NEW n, Branched(fr, n),
         NestOK(syntax, fr, cursor, frames[1].node, AndBranch)
  PROVE  NestingInv'
<1>. DEFINE to == Targets(blocks)  f == frames[1].node  more == AndBranch  m == Len(blocks) + n
<1>1. /\ frames \in Seq(Frames) /\ Len(blocks) \in Nat /\ cursor \in Nat \ {0}
      /\ Nested(syntax, frames, cursor, to) /\ PendingOf(frames) \subseteq 2 .. Len(blocks)
  BY Nesting
<1>2. /\ fr \in Frames /\ fr.node = Last(frames).node
      /\ frames' = [frames EXCEPT ![Len(frames)] = fr] /\ Pending(Last(frames)) = {}
  BY DEF Branched
<1>3. Targets(blocks') = more /\ Len(blocks') = m
  BY BranchedTargets
<1>4. Untouched(Front(frames), to, more)
  <2>1. PendingOf(Front(frames)) \subseteq 2 .. Len(blocks)
    BY <1>1, PendingSplit
  <2>2. Len(blocks) + 1 \notin 2 .. Len(blocks) /\ Len(blocks) + 2 \notin 2 .. Len(blocks)
    BY <1>1
  <2>. QED  BY <2>1, <2>2 DEF Untouched, AndBranch
<1>5. Nested(syntax, frames', cursor + 1, more)
  <2>1. (cursor + 1) - 1 = cursor
    BY <1>1
  <2>. HIDE DEF more, to
  <2>2. NestOK(syntax, fr, (cursor + 1) - 1, f, more)
    BY <2>1 DEF more
  <2>. QED  BY <1>1, <1>2, <1>4, <2>2, NestedReplaced
<1>6. frames' # <<>> /\ frames'[1].node = f
  <2>1. Len(frames) \in Nat \ {0} /\ frames[Len(frames)].node = fr.node
    BY <1>1, <1>2, LastFrame
  <2>. QED  BY <1>1, <1>2, <2>1
<1>7. Unreached(m, more, frames') = Unreached(Len(blocks), to, frames)
  BY BranchedUnreached
<1>. HIDE DEF more, m
<1>. QED  BY <1>3, <1>5, <1>6, <1>7, NestingKept

LEMMA NestingEndWhileCond ==
  ASSUME FlowInv, NestingInv, EndWhileCond
  PROVE  NestingInv'
<1>. DEFINE len  == Len(blocks)  join == len + 2  n == 2
            last == Last(frames)
            fr   == [last EXCEPT !.pc = "WhileBody", !.join = join]
            to == Targets(blocks)  f == frames[1].node
<1>1. /\ At(frames, {"WhileCond"}) /\ frames # <<>> /\ last.pc = "WhileCond"
      /\ syntax[cursor].n = "EndExp" /\ values # <<>>
      /\ cursor' = cursor + 1 /\ UNCHANGED <<syntax, module>>
      /\ frames' = [frames EXCEPT ![Len(frames)] = fr]
  BY DEF EndWhileCond, EndExp, At, Reading, Last
<1>2. /\ len \in Nat /\ cursor \in Nat \ {0} /\ last \in Frames
      /\ NestOK(syntax, last, cursor - 1, f, to)
  BY <1>1, Nesting
<1>3. /\ fr \in Frames /\ fr.pc = "WhileBody" /\ fr.node = last.node /\ fr.join = join
      /\ fr.loop = last.loop /\ fr.els = last.els
  <2>1. join \in Nat
    BY <1>2
  <2>2. fr \in Frames
    <3>. HIDE DEF join, last
    <3>. QED  BY <1>2, <2>1, BodyFrame
  <2>. QED  BY <1>2, <2>2 DEF Frames
<1>4. Branched(fr, n)
  <2>1. Pending(last) = {} /\ Pending(fr) = {join}
    BY <1>1, <1>3 DEF Pending
  <2>2. {join} = len + 2 .. len + n
    BY <1>2
  <2>3. blocks' = Put(CondBranch(<<len + 1, len + 2>>)) \o [b \in 1 .. n |-> <<>>]
    <3>1. << <<>>, <<>> >> = [b \in 1 .. n |-> <<>>]
      OBVIOUS
    <3>. QED  BY <3>1 DEF EndWhileCond
  <2>4. n \in {2, 3}
    OBVIOUS
  <2>. HIDE DEF fr, n
  <2>. QED  BY <1>1, <1>3, <2>1, <2>2, <2>3, <2>4 DEF Branched
<1>5. NestOK(syntax, fr, cursor, f, AndBranch)
  <2>1. NestOK(syntax, last, cursor, f, to)
    <3>. DEFINE c == cursor - 1
    <3>1. c \in Nat /\ c + 1 = cursor
      BY <1>2
    <3>. HIDE DEF c, last
    <3>2. NestOK(syntax, last, c + 1, f, to)
      BY <1>1, <1>2, <3>1, NestMore DEF c
    <3>. QED  BY <3>1, <3>2
  <2>2. last.loop \in AndBranch /\ join \in AndBranch
    BY <1>1, <2>1 DEF NestOK, LoopPoints, AndBranch
  <2>. HIDE DEF last, fr, join
  <2>. QED  BY <1>1, <1>3, <2>1, <2>2 DEF NestOK, LoopPoints, BodyPoints, ThenPoints, ElsePoints
<1>. HIDE DEF fr, n, last
<1>. QED  BY <1>1, <1>4, <1>5, NestingBody

LEMMA NestingEndIfCond ==
  ASSUME FlowInv, NestingInv, EndIfCond
  PROVE  NestingInv'
<1>. DEFINE len  == Len(blocks)  last == Last(frames)
            else == syntax[last.node].else
            els  == IF else THEN (len + 1) + 1 ELSE 0
            join == IF else THEN (len + 1) + 2 ELSE (len + 1) + 1
            n    == IF else THEN 3 ELSE 2
            fr   == [last EXCEPT !.pc = "IfThen", !.els = els, !.join = join]
            to == Targets(blocks)  f == frames[1].node
<1>1. /\ At(frames, {"IfCond"}) /\ frames # <<>> /\ last.pc = "IfCond"
      /\ syntax[cursor].n = "EndExp" /\ values # <<>>
      /\ cursor' = cursor + 1 /\ UNCHANGED <<syntax, module>>
      /\ frames' = [frames EXCEPT ![Len(frames)] = fr]
  BY DEF EndIfCond, EndExp, At, Reading, Last
<1>2. /\ len \in Nat /\ cursor \in Nat \ {0} /\ last \in Frames /\ to \subseteq 2 .. len
      /\ NestOK(syntax, last, cursor - 1, f, to)
  BY <1>1, Nesting
<1>3. /\ els \in Nat /\ join \in Nat
      /\ else => els = len + 2 /\ join = len + 3 /\ n = 3
      /\ ~else => els = 0 /\ join = len + 2 /\ n = 2
  BY <1>2
<1>4. /\ fr \in Frames /\ fr.pc = "IfThen" /\ fr.node = last.node /\ fr.join = join /\ fr.els = els
  <2>. HIDE DEF join, els, last
  <2>1. fr \in Frames
    BY <1>2, <1>3, BodyFrame
  <2>. QED  BY <1>2, <2>1 DEF Frames
<1>5. Branched(fr, n)
  <2>1. Pending(last) = {} /\ Pending(fr) = {join} \cup ({els} \ {0})
    BY <1>1, <1>4 DEF Pending
  <2>2. Pending(fr) = len + 2 .. len + n
    <3>1. CASE else
      <4>1. {len + 3} \cup ({len + 2} \ {0}) = len + 2 .. len + 3
        BY <1>2
      <4>. HIDE DEF els, join, n, fr
      <4>. QED  BY <1>3, <2>1, <3>1, <4>1
    <3>2. CASE ~else
      <4>1. {len + 2} \cup ({0} \ {0}) = len + 2 .. len + 2
        BY <1>2
      <4>. HIDE DEF els, join, n, fr
      <4>. QED  BY <1>3, <2>1, <3>2, <4>1
    <3>. QED  BY <3>1, <3>2
  <2>3. blocks' = Put(CondBranch(<<len + 1, len + 2>>)) \o [b \in 1 .. n |-> <<>>]
    <3>1. (IF else THEN els ELSE join) = len + 2
      BY <1>2
    <3>2. blocks' = Put(CondBranch(<<len + 1, IF else THEN els ELSE join>>)) \o [b \in 1 .. n |-> <<>>]
      BY DEF EndIfCond
    <3>. QED  BY <3>1, <3>2
  <2>4. n \in {2, 3}
    OBVIOUS
  <2>. HIDE DEF fr, n
  <2>. QED  BY <1>1, <1>4, <2>1, <2>2, <2>3, <2>4 DEF Branched
<1>6. NestOK(syntax, fr, cursor, f, AndBranch)
  <2>1. NestOK(syntax, last, cursor, f, to)
    <3>. DEFINE c == cursor - 1
    <3>1. c \in Nat /\ c + 1 = cursor
      BY <1>2
    <3>. HIDE DEF c, last
    <3>2. NestOK(syntax, last, c + 1, f, to)
      BY <1>1, <1>2, <3>1, NestMore DEF c
    <3>. QED  BY <3>1, <3>2
  <2>2. /\ els = 0 => join \in AndBranch
        /\ els # 0 => els \in AndBranch /\ join \notin AndBranch
    <3>1. len + 2 \in AndBranch /\ len + 3 \notin AndBranch
      BY <1>2 DEF AndBranch
    <3>. QED  BY <1>2, <1>3, <3>1
  <2>. HIDE DEF last, fr, join, els
  <2>. QED  BY <1>1, <1>4, <2>1, <2>2 DEF NestOK, LoopPoints, BodyPoints, ThenPoints, ElsePoints
<1>. HIDE DEF fr, n, last
<1>. QED  BY <1>1, <1>5, <1>6, NestingBody

(* Starts of statements.                                                   *)
LEMMA NestingVisitStmt ==
  ASSUME FlowInv, NestingInv, VisitReturn \/ VisitCallStmt \/ VisitIf \/ VisitSeq \/ VisitAssign
  PROVE  NestingInv'
<1>1. {"ReturnExp", "CallExp", "IfCond", "Seq", "AssignExp"} \subseteq PlainPoints
  BY DEF PlainPoints, ExpPoints
<1>2. CASE VisitReturn
  <2>. DEFINE kind == "Return"  pc == "ReturnExp"
  <2>1. VisitExpOf(kind, pc) /\ (pc = "IfCond" <=> kind = "If") /\ pc # "WhileCond" /\ pc \in PlainPoints
        /\ kind \in {"Return", "CallStmt", "If", "Seq", "Assign"}
    BY <1>1, <1>2 DEF VisitReturn
  <2>. HIDE DEF kind, pc
  <2>. QED  BY <2>1, NestingVisit
<1>3. CASE VisitCallStmt
  <2>. DEFINE kind == "CallStmt"  pc == "CallExp"
  <2>1. VisitExpOf(kind, pc) /\ (pc = "IfCond" <=> kind = "If") /\ pc # "WhileCond" /\ pc \in PlainPoints
        /\ kind \in {"Return", "CallStmt", "If", "Seq", "Assign"}
    BY <1>1, <1>3 DEF VisitCallStmt
  <2>. HIDE DEF kind, pc
  <2>. QED  BY <2>1, NestingVisit
<1>4. CASE VisitIf
  <2>. DEFINE kind == "If"  pc == "IfCond"
  <2>1. VisitExpOf(kind, pc) /\ (pc = "IfCond" <=> kind = "If") /\ pc # "WhileCond" /\ pc \in PlainPoints
        /\ kind \in {"Return", "CallStmt", "If", "Seq", "Assign"}
    BY <1>1, <1>4 DEF VisitIf
  <2>. HIDE DEF kind, pc
  <2>. QED  BY <2>1, NestingVisit
<1>5. CASE VisitSeq
  <2>. DEFINE kind == "Seq"  pc == "Seq"
  <2>1. VisitExpOf(kind, pc) /\ (pc = "IfCond" <=> kind = "If") /\ pc # "WhileCond" /\ pc \in PlainPoints
        /\ kind \in {"Return", "CallStmt", "If", "Seq", "Assign"}
    BY <1>1, <1>5 DEF VisitSeq
  <2>. HIDE DEF kind, pc
  <2>. QED  BY <2>1, NestingVisit
<1>6. CASE VisitAssign
  <2>. DEFINE kind == "Assign"  pc == "AssignExp"
  <2>1. CASE Abort
    BY <2>1, NestingSame DEF Abort
  <2>2. CASE ~Abort
    <3>1. VisitExpOf(kind, pc) /\ (pc = "IfCond" <=> kind = "If") /\ pc # "WhileCond" /\ pc \in PlainPoints
          /\ kind \in {"Return", "CallStmt", "If", "Seq", "Assign"}
      BY <1>1, <1>6, <2>2 DEF VisitAssign
    <3>. HIDE DEF kind, pc
    <3>. QED  BY <3>1, NestingVisit
  <2>. QED  BY <2>1, <2>2
<1>. QED  BY <1>2, <1>3, <1>4, <1>5, <1>6

(* A branch ends: a block that its code has left open branches to the join *)
(* of the if.                                                              *)
JoinTargets == Targets(blocks)
  \cup IF Dead(syntax, frames[1].node, cursor) THEN {} ELSE {Last(frames).join}

LEMMA JoinReached ==
  ASSUME FlowInv, NestingInv, At(frames, {"ThenEnd", "ElseEnd"}),
         blocks' = BranchUnlessTerminated(Last(frames).join)
  PROVE  /\ Targets(blocks') = JoinTargets /\ Len(blocks') = Len(blocks)
         /\ Last(frames).join \in Pending(Last(frames))
         /\ Untouched(Front(frames), Targets(blocks), JoinTargets)
<1>. DEFINE join == Last(frames).join  f == frames[1].node  br == <<Jump("br", <<>>, <<join>>)>>
            to == Targets(blocks)
<1>1. /\ frames # <<>> /\ Last(frames) \in Frames /\ blocks \in Seq(Blocks) /\ insert \in DOMAIN blocks
      /\ \A b \in Pending(Last(frames)) : b \notin PendingOf(Front(frames))
  BY Nesting DEF At
<1>2. join \in Nat /\ join \in Pending(Last(frames)) /\ ~At(frames, ExpPoints)
  BY <1>1 DEF At, Pending, Frames, ExpPoints
<1>3. HasTerminator(blocks[insert]) <=> Dead(syntax, f, cursor)
  BY <1>1, <1>2 DEF FlowInv, CleanInv, Matches
<1>4. Untouched(Front(frames), to, JoinTargets)
  BY <1>1, <1>2 DEF Untouched, JoinTargets
<1>5. CASE Dead(syntax, f, cursor)
  <2>1. blocks' = blocks
    BY <1>3, <1>5 DEF BranchUnlessTerminated
  <2>2. JoinTargets = to
    BY <1>5 DEF JoinTargets
  <2>. QED  BY <1>2, <1>4, <2>1, <2>2
<1>6. CASE ~Dead(syntax, f, cursor)
  <2>1. blocks' = Put(br)
    BY <1>3, <1>6 DEF BranchUnlessTerminated
  <2>2. br \in Seq(Instrs) /\ BranchesOf(br) = {join}
    <3>. HIDE DEF join
    <3>. QED  BY <1>2, BranchFacts, SomeBranches
  <2>3. JoinTargets = to \cup {join}
    BY <1>6 DEF JoinTargets
  <2>. HIDE DEF br
  <2>. QED  BY <1>1, <1>2, <1>4, <2>1, <2>2, <2>3, PutTargets, PutType
<1>. QED  BY <1>5, <1>6

LEMMA NestingElse ==
  ASSUME FlowInv, NestingInv, VisitElse
  PROVE  NestingInv'
<1>. DEFINE last == Last(frames)  fr == [last EXCEPT !.pc = "IfElse"]  len == Len(blocks)
            to == Targets(blocks)  more == JoinTargets  f == frames[1].node
<1>1. /\ At(frames, {"ThenEnd"}) /\ frames # <<>> /\ last.pc = "ThenEnd" /\ last.els # 0
      /\ syntax[cursor].n = "Else" /\ cursor' = cursor + 1 /\ UNCHANGED <<syntax, module>>
      /\ blocks' = BranchUnlessTerminated(last.join)
      /\ frames' = SetPc(frames, "IfElse")
  BY DEF VisitElse, EndVisit, At, Reading
<1>2. /\ frames \in Seq(Frames) /\ len \in Nat /\ cursor \in Nat \ {0} /\ last \in Frames
      /\ Nested(syntax, frames, cursor, to) /\ NestOK(syntax, last, cursor - 1, f, to)
      /\ PendingOf(frames) = PendingOf(Front(frames)) \cup Pending(last)
  BY <1>1, Nesting, PendingSplit
<1>3. /\ Targets(blocks') = more /\ Len(blocks') = len
      /\ Untouched(Front(frames), to, more)
  <2>1. At(frames, {"ThenEnd", "ElseEnd"})
    BY <1>1 DEF At
  <2>. QED  BY <1>1, <2>1, JoinReached
<1>4. /\ fr \in Frames /\ fr.pc = "IfElse" /\ fr.node = last.node /\ fr.join = last.join
      /\ fr.loop = last.loop /\ fr.els = last.els
      /\ frames' = [frames EXCEPT ![Len(frames)] = fr]
  <2>1. "IfElse" \in ControlPoints
    BY DEF ControlPoints, StmtPoints
  <2>2. frames' = [frames EXCEPT ![Len(frames)] = fr]
    BY <1>1, <1>2, LastFrame DEF SetPc
  <2>. QED  BY <1>2, <2>1, <2>2 DEF Frames
<1>5. Pending(last) = {last.join, last.els} /\ Pending(fr) = {last.join}
  BY <1>1, <1>4 DEF Pending
<1>6. /\ last.els \in to /\ last.join \notin to /\ ClosedIf(syntax, last.node + 1, cursor - 1)
      /\ last.node \in 1 .. cursor - 1 /\ syntax[last.node].n = "If"
  BY <1>1, <1>2 DEF NestOK, ThenPoints, ElsePoints, BodyPoints
<1>7. NestOK(syntax, fr, cursor, f, more)
  <2>1. ClosedIf(syntax, cursor + 1, cursor)
    <3>. DEFINE a == cursor + 1
    <3>1. a \in Nat /\ a > cursor /\ cursor \in Nat
      BY <1>2
    <3>. HIDE DEF a
    <3>2. ClosedIf(syntax, a, cursor)
      BY <3>1, ClosedEmpty DEF ClosedIf
    <3>. QED  BY <3>2 DEF a
  <2>2. last.join \notin more <=> Dead(syntax, f, cursor)
    BY <1>6 DEF JoinTargets
  <2>3. cursor \in last.node + 1 .. cursor /\ last.node \in 1 .. cursor
    BY <1>2, <1>6
  <2>4. fr.pc \in ElsePoints /\ fr.pc \in BodyPoints /\ fr.pc \notin ThenPoints /\ fr.pc \notin LoopPoints
    BY <1>4 DEF ElsePoints, BodyPoints, ThenPoints, LoopPoints
  <2>5. "If" \in Openers
    BY DEF Openers
  <2>6. \E j \in fr.node + 1 .. cursor :
               /\ syntax[j].n = "Else"
               /\ ClosedIf(syntax, fr.node + 1, j - 1) /\ ClosedIf(syntax, j + 1, cursor)
               /\ fr.join \notin more <=> Dead(syntax, f, j)
    BY <1>1, <1>4, <1>6, <2>1, <2>2, <2>3
  <2>. HIDE DEF fr, last, more
  <2>. QED  BY <1>1, <1>4, <1>6, <2>3, <2>4, <2>5, <2>6 DEF NestOK, LoopPoints
<1>8. Nested(syntax, frames', cursor + 1, more)
  <2>1. (cursor + 1) - 1 = cursor
    BY <1>2
  <2>. HIDE DEF more, to, fr
  <2>2. NestOK(syntax, fr, (cursor + 1) - 1, f, more)
    BY <1>7, <2>1
  <2>. QED  BY <1>1, <1>2, <1>3, <1>4, <2>2, NestedReplaced
<1>9. Unreached(len, more, frames') = Unreached(len, to, frames)
  <2>1. PendingOf(frames') = PendingOf(Front(frames)) \cup Pending(fr)
    <3>. HIDE DEF fr
    <3>. QED  BY <1>1, <1>2, <1>4, PendingReplaced
  <2>2. \A b : b \in more \/ b \in PendingOf(frames') <=> b \in to \/ b \in PendingOf(frames)
    <3>1. \A b \in more : b \in to \/ b = last.join
      BY DEF JoinTargets
    <3>2. to \subseteq more
      BY DEF JoinTargets
    <3>. QED  BY <1>2, <1>5, <1>6, <2>1, <3>1, <3>2
  <2>. HIDE DEF more, to
  <2>. QED  BY <2>2 DEF Unreached
<1>10. frames' # <<>> /\ frames'[1].node = f
  <2>1. Len(frames) \in Nat \ {0} /\ frames[Len(frames)].node = fr.node
    BY <1>1, <1>2, <1>4, LastFrame
  <2>. QED  BY <1>2, <1>4, <2>1
<1>. HIDE DEF more, len
<1>. QED  BY <1>1, <1>3, <1>8, <1>9, <1>10, NestingKept DEF len

(* An if has a join without a way in just if both of its branches return.  *)
BothReturn ==
  /\ Dead(syntax, frames[1].node, cursor)
  /\ \E j \in frames[1].node .. cursor - 1 : ElseIn(syntax, j, cursor) /\ Dead(syntax, frames[1].node, j)

LEMMA JoinLost ==
  ASSUME FlowInv, NestingInv, EndIf
  PROVE  Last(frames).join \notin JoinTargets <=> BothReturn
<1>. DEFINE last == Last(frames)  to == Targets(blocks)  f == frames[1].node  k == cursor
<1>1. /\ frames # <<>> /\ syntax[k].n = "EndIf" /\ last.pc \in BodyPoints
      /\ last.pc \in ElsePoints \/ last.els = 0
  BY DEF EndIf, EndVisit, At, Reading, BodyPoints, ThenPoints, ElsePoints
<1>2. /\ last \in Frames /\ k \in Nat \ {0} /\ NestOK(syntax, last, k - 1, f, to) /\ f \in 1 .. k - 1
  BY <1>1, Nesting
<1>3. /\ last.pc \in ElsePoints => \E j \in last.node + 1 .. k - 1 : ElseIn(syntax, j, k)
      /\ \A x \in 1 .. k - 1 : ElseIn(syntax, x, k) =>
           last.pc \in ElsePoints /\ (last.join \notin to <=> Dead(syntax, f, x))
  <2>. HIDE DEF last, to, f, k
  <2>. QED  BY <1>1, <1>2, ElseOfIf
<1>4. last.join \notin JoinTargets <=> last.join \notin to /\ Dead(syntax, f, k)
  BY DEF JoinTargets
<1>5. ASSUME last.join \notin to, Dead(syntax, f, k)
      PROVE  BothReturn
  <2>1. last.pc \in ElsePoints
    BY <1>1, <1>2, <1>5 DEF NestOK
  <2>2. PICK j \in last.node + 1 .. k - 1 : ElseIn(syntax, j, k)
    BY <1>3, <2>1
  <2>3. last.node \in Nat
    BY <1>2 DEF Frames
  <2>4. j \in 1 .. k - 1 /\ j \in Nat
    BY <1>2, <2>3
  <2>5. Dead(syntax, f, j)
    BY <1>3, <1>5, <2>2, <2>4
  <2>6. \E r \in f .. j - 1 : TRUE
    BY <2>5 DEF Dead
  <2>7. j \in f .. k - 1
    BY <1>2, <2>4, <2>6
  <2>. QED  BY <1>5, <2>2, <2>5, <2>7 DEF BothReturn
<1>6. ASSUME BothReturn
      PROVE  last.join \notin to /\ Dead(syntax, f, k)
  <2>1. PICK j \in f .. k - 1 : ElseIn(syntax, j, k) /\ Dead(syntax, f, j)
    BY <1>6 DEF BothReturn
  <2>2. j \in 1 .. k - 1
    BY <1>2
  <2>. QED  BY <1>3, <1>6, <2>1, <2>2 DEF BothReturn
<1>. QED  BY <1>4, <1>5, <1>6

LEMMA NestingEndIf ==
  ASSUME FlowInv, NestingInv, EndIf
  PROVE  NestingInv'
<1>. DEFINE last == Last(frames)  len == Len(blocks)  join == last.join
            to == Targets(blocks)  more == JoinTargets  f == frames[1].node
            old == Unreached(len, to, frames)  new == Unreached(len, more, frames')
<1>1. /\ At(frames, {"ThenEnd", "ElseEnd"}) /\ frames # <<>>
      /\ last.pc = "ElseEnd" \/ (last.pc = "ThenEnd" /\ last.els = 0)
      /\ syntax[cursor].n = "EndIf" /\ cursor' = cursor + 1 /\ UNCHANGED <<syntax, module>>
      /\ blocks' = BranchUnlessTerminated(join)
      /\ frames' = Front(frames)
  BY DEF EndIf, EndVisit, At, Reading
<1>2. /\ frames \in Seq(Frames) /\ len \in Nat /\ cursor \in Nat \ {0} /\ last \in Frames
      /\ Nested(syntax, frames, cursor, to) /\ NestOK(syntax, last, cursor - 1, f, to)
      /\ PendingOf(frames) = PendingOf(frames') \cup Pending(last)
      /\ PendingOf(frames) \subseteq 2 .. len
      /\ \A b \in Pending(last) : b \notin PendingOf(frames')
      /\ f \in 1 .. cursor - 1
  BY <1>1, Nesting, PendingSplit
<1>3. /\ Targets(blocks') = more /\ Len(blocks') = len
      /\ Untouched(frames', to, more)
  BY <1>1, JoinReached
<1>4. Pending(last) = {join}
  BY <1>1 DEF Pending
<1>5. Nested(syntax, frames', cursor + 1, more)
  <2>1. last.pc \in BodyPoints
    BY <1>1 DEF BodyPoints, ThenPoints, ElsePoints
  <2>. HIDE DEF more, to, last, f
  <2>2. ClosedIf(syntax, last.node, cursor) /\ last.node \in 1 .. cursor
    BY <1>1, <1>2, <2>1, SegmentIf
  <2>. QED  BY <1>1, <1>2, <1>3, <2>2, NestedPopped DEF last
<1>6. frames' # <<>> => frames'[1].node = f
  BY <1>1, <1>2, PoppedOutermost
<1>7. new = old \cup IF BothReturn THEN {join} ELSE {}
  <2>1. BothReturn <=> join \notin more
    BY JoinLost
  <2>2. \A b : b \in more <=> b \in to \/ (b = join /\ ~BothReturn)
    BY <2>1 DEF JoinTargets
  <2>3. join \in 2 .. len /\ join \notin PendingOf(frames')
    BY <1>2, <1>4
  <2>4. BothReturn => join \notin to
    BY <2>1 DEF JoinTargets
  <2>. HIDE DEF more, to
  <2>. QED  BY <1>2, <1>4, <2>2, <2>3, <2>4 DEF Unreached
<1>8. join \notin old
  BY <1>2, <1>4 DEF Unreached
<1>9. IsFiniteSet(old) /\ Cardinality(old) \in Nat
  <2>1. old \in SUBSET (2 .. len) /\ IsFiniteSet(2 .. len)
    BY <1>2, FS_Interval DEF Unreached
  <2>. HIDE DEF old, len
  <2>. QED  BY <2>1, FS_Subset, FS_CardinalityType
<1>10. Cardinality(new) = Cardinality(old) + IF BothReturn THEN 1 ELSE 0
  <2>. HIDE DEF new, old
  <2>. QED  BY <1>7, <1>8, <1>9, FS_AddElement
<1>11. Cardinality(Returning(syntax, f, cursor + 1))
         = Cardinality(Returning(syntax, f, cursor)) + IF BothReturn THEN 1 ELSE 0
  <2>. DEFINE k == cursor
  <2>1. f \in Nat /\ k \in Nat /\ f <= k /\ syntax[k].n = "EndIf"
    BY <1>1, <1>2
  <2>2. BothReturn <=> Dead(syntax, f, k) /\ \E j \in f .. k - 1 : ElseIn(syntax, j, k) /\ Dead(syntax, f, j)
    BY DEF BothReturn
  <2>. HIDE DEF k, f
  <2>3. Cardinality(Returning(syntax, f, k + 1))
          = Cardinality(Returning(syntax, f, k)) + IF BothReturn THEN 1 ELSE 0
    BY <2>1, <2>2, ReturningMore
  <2>. QED  BY <2>3 DEF k
<1>12. Cardinality(new) = Cardinality(Returning(syntax, f, cursor + 1))
  <2>1. Cardinality(old) = Cardinality(Returning(syntax, f, cursor))
    BY <1>1 DEF NestingInv
  <2>. HIDE DEF new, old
  <2>. QED  BY <1>10, <1>11, <2>1
<1>13. BlocksAreConnected'
  BY <1>1, SameConnected DEF NestingInv
<1>14. frames' # <<>> =>
        /\ Nested(syntax', frames', cursor', more)
        /\ Cardinality(new) = Cardinality(Returning(syntax', frames'[1].node, cursor'))
  BY <1>1, <1>5, <1>6, <1>12
<1>. HIDE DEF more
<1>. QED  BY <1>3, <1>13, <1>14 DEF NestingInv

-----------------------------------------------------------------------------
(* Functions                                                               *)

(* A function begins with one block, which no branch will ever go to.      *)
LEMMA NestingBegin ==
  ASSUME FlowInv, NestingInv, BeginFunction
  PROVE  NestingInv'
<1>. DEFINE fr == NewFrame("FuncBody", 0)  fs == <<fr>>  bs == << <<>> >>  k == cursor  none == {}
<1>1. /\ syntax[k].n = "Func" /\ k \in Nat \ {0} /\ k' = k + 1 /\ UNCHANGED <<syntax, module>>
  BY ReadingNode DEF BeginFunction, FlowInv, TypeInv, TypeOK, Reading
<1>2. frames' = <<>> \/ (frames' = fs /\ blocks' = bs)
  BY DEF BeginFunction
<1>3. BlocksAreConnected'
  BY <1>1, SameConnected DEF NestingInv
<1>4. CASE frames' = fs /\ blocks' = bs
  <2>1. fr.pc = "FuncBody" /\ fr.node = k /\ fr.els = 0
    BY DEF NewFrame
  <2>2. DOMAIN fs = {1} /\ Len(fs) = 1 /\ fs[1] = fr /\ Len(bs) = 1 /\ fs # <<>>
    OBVIOUS
  <2>3. Targets(bs) = none
    <3>1. \A b \in DOMAIN bs : DOMAIN bs[b] = {}
      OBVIOUS
    <3>. HIDE DEF bs
    <3>. QED  BY <3>1, BranchesAre
  <2>4. ClosedIf(syntax, k + 1, k)
    <3>. DEFINE a == k + 1
    <3>1. a \in Nat /\ a > k /\ k \in Nat
      BY <1>1
    <3>. HIDE DEF a, k
    <3>2. ClosedIf(syntax, a, k)
      BY <3>1, ClosedEmpty DEF ClosedIf
    <3>. QED  BY <3>2 DEF a
  <2>5. NestOK(syntax, fr, k, k, none)
    <3>1. "FuncBody" \notin {"IfCond"} \cup BodyPoints \cup LoopPoints \cup ElsePoints \cup ThenPoints
      BY DEF BodyPoints, LoopPoints, ElsePoints, ThenPoints
    <3>2. k \in 1 .. k /\ "Func" \in Openers /\ "Func" # "If"
      BY <1>1 DEF Openers
    <3>. HIDE DEF fr, none
    <3>. QED  BY <1>1, <2>1, <2>4, <3>1, <3>2 DEF NestOK
  <2>6. Nested(syntax, fs, k + 1, none)
    <3>1. (k + 1) - 1 = k
      BY <1>1
    <3>2. EndOf(fs, 1, k + 1) = k
      BY <2>2, <3>1 DEF EndOf
    <3>. HIDE DEF fr, fs, none
    <3>. QED  BY <2>1, <2>2, <2>5, <3>2 DEF Nested
  <2>7. Unreached(1, none, fs) = {}
    <3>1. 2 .. 1 = {}
      OBVIOUS
    <3>. QED  BY <3>1 DEF Unreached
  <2>8. Returning(syntax, k, k + 1) = {}
    <3>1. \A e \in k .. (k + 1) - 1 : e = k
      BY <1>1
    <3>. QED  BY <1>1, <3>1 DEF Returning
  <2>. HIDE DEF fs, bs, none, fr
  <2>9. frames' # <<>> =>
          /\ Nested(syntax', frames', cursor', Targets(blocks'))
          /\ Cardinality(Unreached(Len(blocks'), Targets(blocks'), frames'))
               = Cardinality(Returning(syntax', frames'[1].node, cursor'))
    BY <1>1, <1>4, <2>1, <2>2, <2>3, <2>6, <2>7, <2>8
  <2>. QED  BY <1>3, <2>9 DEF NestingInv
<1>5. CASE frames' = <<>>
  BY <1>3, <1>5 DEF NestingInv
<1>. QED  BY <1>2, <1>4, <1>5

(* What the property says of a function.                                   *)
Connected(bs, d) ==
  /\ Targets(bs) \subseteq 2 .. Len(bs)
  /\ Len(bs) - Cardinality(Targets(bs)) = 1 + Cardinality(ReturningIfs(d))

LEMMA AllConnected ==
  /\ BlocksAreConnected <=> \A m \in DOMAIN module : Connected(module[m].blocks, module[m].def)
  /\ syntax' = syntax =>
       (BlocksAreConnected' <=> \A m \in DOMAIN module' : Connected(module'[m].blocks, module'[m].def))
<1>1. BlocksAreConnected <=> \A m \in DOMAIN module : Connected(module[m].blocks, module[m].def)
  BY DEF BlocksAreConnected, Connected, Targets, BranchesOf
<1>2. ASSUME syntax' = syntax
      PROVE  BlocksAreConnected' <=> \A m \in DOMAIN module' : Connected(module'[m].blocks, module'[m].def)
  <2>1. \A d : ReturningIfs(d)' = ReturningIfs(d)
    BY <1>2, SameReturning
  <2>2. \A m : ReturningIfs(module[m].def)' = ReturningIfs(module'[m].def)
    BY <2>1
  <2>. QED  BY <2>2 DEF BlocksAreConnected, Connected, Targets, BranchesOf
<1>. QED  BY <1>1, <1>2

(* A function ends: no statement is left that will go to a block.          *)
LEMMA EndIsConnected ==
  ASSUME FlowInv, NestingInv, FunctionOutside(frames), frames # <<>>, Last(frames).pc = "FuncEnd",
         cursor \in DOMAIN syntax, syntax[cursor].n = "EndFunc"
  PROVE  Connected(blocks, frames[1].node)
<1>. DEFINE f == frames[1].node  to == Targets(blocks)  len == Len(blocks)  k == cursor
            fresh == 2 .. len
<1>1. /\ frames \in Seq(Frames) /\ len \in Nat \ {0} /\ k \in Nat \ {0} /\ f \in 1 .. k - 1
      /\ to \subseteq 2 .. len
  BY Nesting
<1>2. PendingOf(frames) = {}
  <2>1. /\ DOMAIN frames = 1 .. Len(frames) /\ Len(frames) \in DOMAIN frames
        /\ Last(frames) = frames[Len(frames)]
    BY <1>1, LastFrame
  <2>2. Len(frames) = 1
    BY <2>1 DEF FunctionOutside
  <2>3. \A i \in DOMAIN frames : Pending(frames[i]) = {}
    BY <2>1, <2>2 DEF Pending
  <2>. QED  BY <2>3 DEF PendingOf
<1>3. Cardinality(fresh \ to) = Cardinality(Returning(syntax, f, k))
  BY <1>2 DEF NestingInv, Unreached
<1>4. ReturningIfs(f) = Returning(syntax, f, k)
  <2>1. "FuncEnd" \notin ExpPoints
    BY DEF ExpPoints
  <2>2. ReturnsEnded(syntax, f, k)
    BY <2>1, Matching DEF Matches, FlowInv
  <2>3. \A i \in f .. k - 1 : syntax[i].n # "EndFunc"
    BY Within DEF FlowInv
  <2>4. syntax \in Seq(Nodes) /\ k \in 1 .. Len(syntax)
    BY DEF FlowInv, TypeInv, TypeOK
  <2>. HIDE DEF f, k
  <2>. QED  BY <1>1, <2>2, <2>3, <2>4, ReturningAtEnd DEF k
<1>5. IsFiniteSet(fresh) /\ Cardinality(fresh) = len - 1
  <2>. DEFINE two == 2
  <2>1. two \in Int /\ len \in Int
    BY <1>1
  <2>2. IsFiniteSet(two .. len) /\ Cardinality(two .. len) = IF two > len THEN 0 ELSE len - two + 1
    <3>. HIDE DEF two, len
    <3>. QED  BY <2>1, FS_Interval
  <2>. QED  BY <1>1, <2>2
<1>6. IsFiniteSet(to) /\ Cardinality(to) \in Nat
  <2>. HIDE DEF fresh, to
  <2>1. to \in SUBSET fresh
    BY <1>1 DEF fresh
  <2>. QED  BY <1>5, <2>1, FS_Subset, FS_CardinalityType
<1>7. Cardinality(fresh \ to) = Cardinality(fresh) - Cardinality(to)
  <2>1. fresh \cap to = to
    BY <1>1
  <2>. HIDE DEF fresh, to
  <2>2. Cardinality(fresh \ to) = Cardinality(fresh) - Cardinality(fresh \cap to)
    BY <1>5, FS_Difference
  <2>. QED  BY <2>1, <2>2
<1>8. Cardinality(Returning(syntax, f, k)) \in Nat
  <2>1. f \in Nat /\ k \in Nat
    BY <1>1
  <2>. HIDE DEF f, k
  <2>. QED  BY <2>1, ReturningFinite
<1>9. len - Cardinality(to) = 1 + Cardinality(ReturningIfs(f))
  <2>. HIDE DEF fresh, to, len, f, k
  <2>. QED  BY <1>1, <1>3, <1>4, <1>5, <1>6, <1>7, <1>8
<1>. QED  BY <1>1, <1>9 DEF Connected

(* The return that is supplied leaves it so.                               *)
LEMMA NestingEnd ==
  ASSUME FlowInv, NestingInv, FunctionOutside(frames), EndFunction
  PROVE  NestingInv'
<1>. DEFINE ret  == <<Instr("ret", <<"i32">>)>>
            body == IF HasTerminator(blocks[insert]) THEN blocks ELSE Put(ret)
            f    == frames[1].node
            done == [def |-> f, blocks |-> body]
<1>1. /\ cursor \in DOMAIN syntax /\ syntax[cursor].n = "EndFunc"
      /\ frames # <<>> /\ Last(frames).pc = "FuncEnd" /\ syntax' = syntax
      /\ module \in Seq([def : Nat, blocks : Seq(Blocks)])
      /\ frames' = <<>> /\ module' = Append(module, done)
  BY ReadingNode DEF EndFunction, FlowInv, TypeInv, TypeOK, At
<1>2. Targets(body) = Targets(blocks) /\ Len(body) = Len(blocks)
  <2>1. ret \in Seq(Instrs) /\ BranchesOf(ret) = {}
    <3>1. ret \in Seq(Instrs) /\ DOMAIN ret = {1} /\ ret[1].to = <<>>
      BY SomeInstrs DEF IRTypes, Instr
    <3>2. \A i \in DOMAIN ret : DOMAIN ret[i].to = {}
      BY <3>1
    <3>. HIDE DEF ret
    <3>. QED  BY <3>1, <3>2, BranchesAre
  <2>. HIDE DEF ret
  <2>2. Targets(Put(ret)) = Targets(blocks) /\ Len(Put(ret)) = Len(blocks)
    BY <1>1, <2>1, Nesting, PutTargets, PutType
  <2>. QED  BY <2>2
<1>3. done.def = f /\ done.blocks = body
  OBVIOUS
<1>. HIDE DEF body, done, f
<1>4. Connected(done.blocks, done.def)
  <2>1. Connected(blocks, f)
    BY <1>1, EndIsConnected DEF f
  <2>. QED  BY <1>2, <1>3, <2>1 DEF Connected
<1>5. \A m \in DOMAIN module' : module'[m] = done \/ (m \in DOMAIN module /\ module'[m] = module[m])
  BY <1>1
<1>6. \A m \in DOMAIN module : Connected(module[m].blocks, module[m].def)
  BY AllConnected DEF NestingInv
<1>7. \A m \in DOMAIN module' : Connected(module'[m].blocks, module'[m].def)
  BY <1>4, <1>5, <1>6
<1>8. BlocksAreConnected'
  BY <1>1, <1>7, AllConnected
<1>. QED  BY <1>1, <1>8 DEF NestingInv

-----------------------------------------------------------------------------
(* Every step                                                              *)

LEMMA NestingNext ==
  ASSUME IInv, LookupInv, OperandInv, JumpInv, CleanInv, NestingInv, [Next \/ Returned]_vars
  PROVE  NestingInv'
<1>1. FlowInv /\ FunctionOutside(frames)
  BY DEF FlowInv, IInv, OpenInv, OthersEnd, InsertOK, LookupInv
<1>2. CASE BeginFunction
  BY <1>1, <1>2, NestingBegin
<1>3. CASE EndFunction
  BY <1>1, <1>3, NestingEnd
<1>4. CASE NextExp
  BY <1>1, <1>4, NestingExp
<1>5. CASE NextStmt
  <2>1. ASSUME VisitReturn \/ VisitCallStmt \/ VisitIf \/ VisitSeq \/ VisitAssign PROVE NestingInv'
    BY <1>1, <2>1, NestingVisitStmt
  <2>2. ASSUME VisitDecl \/ VisitWhile PROVE NestingInv'
    BY <1>1, <2>2, NestingVisitDecl, NestingVisitWhile
  <2>3. ASSUME EndSeq \/ VisitElse \/ EndIf \/ EndWhile PROVE NestingInv'
    BY <1>1, <2>3, NestingEndSeq, NestingElse, NestingEndIf, NestingEndWhile
  <2>4. ASSUME EndCallStmt \/ EndReturn \/ EndAssign \/ EndDeclInit PROVE NestingInv'
    BY <1>1, <2>4, NestingEndStmt
  <2>5. ASSUME EndIfCond \/ EndWhileCond PROVE NestingInv'
    BY <1>1, <2>5, NestingEndIfCond, NestingEndWhileCond
  <2>. QED  BY <1>5, <2>1, <2>2, <2>3, <2>4, <2>5 DEF NextStmt
<1>6. CASE Finish \/ UNCHANGED vars
  BY <1>6, NestingSame DEF Finish, vars, genVars
<1>. QED  BY <1>2, <1>3, <1>4, <1>5, <1>6 DEF Next, Returned

NestedCode == Typable => NestingInv

(* Code generation starts with no function.                                *)
LEMMA StartNesting == ASSUME Start PROVE NestedCode
  BY DEF Start, NestedCode, NestingInv, BlocksAreConnected

(* Every step keeps the invariant, if the program has a typing.            *)
LEMMA NextNesting ==
  ASSUME IInv, LookupInv, OperandInv, VerifierInv, NestedCode, [Next \/ Returned]_vars
  PROVE  NestedCode'
<1>1. Typable' => Typable
  BY SameProgram DEF Typable
<1>. QED  BY <1>1, NestingNext DEF VerifierInv, NestedCode

(* Whatever the program: if it has a typing, then in every function that   *)
(* has been generated, branches go to blocks of that function, never to    *)
(* its entry; and the blocks to which none goes are the entry and as many  *)
(* more as there are ifs both of whose branches end in a return, each of   *)
(* which has left its join without a way in, however ifs and loops are     *)
(* nested (Codegen.cpp:290-347).                                           *)
THEOREM BlocksOfTypedPrograms == Spec => [](Typable => BlocksAreConnected)
<1>1. Init => LookupInv /\ OperandInv /\ VerifierInv /\ NestedCode
  BY StartLookup, StartOperand, StartVerifier, StartNesting, CodegenAssumption DEF Init
<1>2. IInv => TypeInv
  BY DEF IInv
<1>3. NestedCode => (Typable => BlocksAreConnected)
  BY DEF NestingInv, NestedCode
<1>. QED  BY <1>1, <1>2, <1>3, NextLookup, NextOperand, NextVerifier, NextNesting, Inductive, PTL DEF Spec
=============================================================================
