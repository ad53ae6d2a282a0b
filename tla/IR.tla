--------------------------------- MODULE IR ---------------------------------
(***************************************************************************)
(* The intermediate representation: what the code generator uses of LLVM   *)
(* instructions, and what llvm::verifyModule checks of them (main.cpp).    *)
(* LLVM is external; it is modelled from the calls Codegen.cpp makes.      *)
(***************************************************************************)
EXTENDS Syntax

IRTypes == {"i1", "i32"}
ConvertType(t) == IF t = "bool" THEN "i1" ELSE "i32"

ConvertTypes(ts) == [i \in DOMAIN ts |-> ConvertType(ts[i])]

Terminators == {"ret", "br", "condbr"}
Opcodes == Terminators \cup {"alloca", "load", "store", "call", "binary",
                             "icmp", "zext", "select"}

\* An instruction: its operation, the types of its operands, the blocks it
\* may branch to (the first, if its condition holds), the variable that it
\* allocates or accesses, and the definition of the function that it calls.
Instrs == [op : Opcodes, ops : Seq(IRTypes), to : Seq(Nat),
           ref : VarDecls \cup {Null}, callee : Nat]

Instr(op, ops) == [op |-> op, ops |-> ops, to |-> <<>>, ref |-> Null, callee |-> 0]

Jump(op, ops, to)   == [Instr(op, ops) EXCEPT !.to = to]
Access(op, ops, of) == [Instr(op, ops) EXCEPT !.ref = of]
Call(ops, def)      == [Instr("call", ops) EXCEPT !.callee = def]

Blocks == Seq(Instrs)

HasTerminator(b) == b # <<>> /\ b[Len(b)].op \in Terminators

-----------------------------------------------------------------------------
(* The verifier, on the blocks of a function of the given program whose    *)
(* return type is ret.                                                     *)

TerminatorsEnd(b) ==
  /\ HasTerminator(b)
  /\ \A i \in 1 .. Len(b) - 1 : b[i].op \notin Terminators

WellTyped(i, ret, program) ==
  CASE i.op = "ret"               -> i.ops = <<ConvertType(ret)>>
    [] i.op \in {"binary", "icmp"} -> i.ops[1] = i.ops[2]
    [] i.op = "zext"              -> i.ops[1] = "i1"
    [] i.op = "select"            -> i.ops[1] = "i1" /\ i.ops[2] = i.ops[3]
    [] i.op = "condbr"            -> i.ops[1] = "i1"
    [] i.op = "store"             -> i.ops[1] = ConvertType(i.ref.type)
    [] i.op = "call"              -> i.ops = ConvertTypes(ParamTypes(program[i.callee].def))
    [] OTHER                      -> TRUE

Verified(blocks, ret, program) ==
  \A b \in DOMAIN blocks :
    /\ TerminatorsEnd(blocks[b])
    /\ \A i \in DOMAIN blocks[b] : /\ WellTyped(blocks[b][i], ret, program)
                                   /\ \A t \in DOMAIN blocks[b][i].to : blocks[b][i].to[t] # 1
=============================================================================
