--------------------------- MODULE CodegenProofs ----------------------------
(***************************************************************************)
(* Proofs about Codegen, for every set of programs: its type invariant,    *)
(* that every block of a finished function ends in a terminator, that the  *)
(* storage of every variable that is accessed is allocated once, at the    *)
(* start of the entry block, and what becomes of the links of the          *)
(* typechecker.                                                            *)
(***************************************************************************)
EXTENDS Codegen, SequenceTheorems, FiniteSetTheorems, FunctionTheorems, TLAPS

\* The Visit functions of declarations and assignments stand at such nodes.
NodeOK(program, fr) ==
  /\ fr.pc = "DeclInit"  => fr.node \in DOMAIN program /\ program[fr.node].n = "Decl"
  /\ fr.pc = "AssignExp" => fr.node \in DOMAIN program /\ program[fr.node].n = "Assign"

NodesOK(program, fs) == \A i \in DOMAIN fs : NodeOK(program, fs[i])

\* The builder inserts into a block of the current function.
InsertOK == frames # <<>> => insert \in DOMAIN blocks

TypeInv == TypeOK /\ NodesOK(syntax, frames)

\* Instructions that call nothing.
NoCalls(instrs) == \A j \in DOMAIN instrs : instrs[j].callee = 0

\* Instructions that branch nowhere.
NoBranches(instrs) == \A j \in DOMAIN instrs : instrs[j].to = <<>>

-----------------------------------------------------------------------------
(* The fields that a node of each kind has.                                *)
LEMMA NodeKinds ==
  ASSUME NEW node \in Nodes
  PROVE  /\ node.n = "Func" => node.def \in FuncDefs
         /\ node.n = "Decl" => node.name \in VarNames /\ node.type \in Types
         /\ node.n = "Assign" => node.decl \in VarDecls \cup {Null}
         /\ node.n = "Const" => node.type \in Types
         /\ node.n = "Var" => node.decl \in VarDecls
         /\ node.n = "Call" => node.args \in Nat /\ node.def \in Nat
  BY DEF Nodes, Marks

(* The declaration of a local variable.                                    *)
LEMMA LocalDeclType ==
  ASSUME NEW owner \in Nat, NEW x \in VarNames, NEW t \in Types
  PROVE  LocalDecl(owner, x, t) \in VarDecls
  BY DEF LocalDecl, VarDecls

(* The declarations of the parameters of a function.                       *)
LEMMA ParamDeclsType ==
  ASSUME NEW owner \in Nat, NEW def \in FuncDefs
  PROVE  ParamDecls(owner, def) \subseteq VarDecls
<1>1. def.params \in Seq(Params)
  BY DEF FuncDefs
<1>2. ASSUME NEW i \in DOMAIN def.params
      PROVE  i \in Nat /\ def.params[i].name \in VarNames /\ def.params[i].type \in Types
  <2>1. i \in 1 .. Len(def.params) /\ def.params[i] \in Params
    BY <1>1, <1>2
  <2>. QED  BY <2>1 DEF Params
<1>. QED  BY <1>2 DEF ParamDecls, VarDecls

(* Source types become IR types.                                           *)
LEMMA ConvertTypeType == \A t : ConvertType(t) \in IRTypes
  BY DEF ConvertType, IRTypes

(* The constructors of instructions.                                       *)
LEMMA InstrType ==
  ASSUME NEW op \in Opcodes, NEW ops \in Seq(IRTypes)
  PROVE  /\ Instr(op, ops) \in Instrs /\ Instr(op, ops).op = op
         /\ \A to \in Seq(Nat) : Jump(op, ops, to) \in Instrs /\ Jump(op, ops, to).op = op
         /\ \A of \in VarDecls \cup {Null} : Access(op, ops, of) \in Instrs
         /\ op = "call" => \A def \in Nat : Call(ops, def) \in Instrs
<1>. DEFINE i == Instr(op, ops)
<1>1. i \in Instrs /\ i.op = op
  <2>1. <<>> \in Seq(Nat)
    OBVIOUS
  <2>. QED  BY <2>1 DEF Instr, Instrs
<1>. HIDE DEF i
<1>2. ASSUME NEW to \in Seq(Nat) PROVE Jump(op, ops, to) \in Instrs /\ Jump(op, ops, to).op = op
  BY <1>1 DEF Jump, Instrs, i
<1>3. ASSUME NEW of \in VarDecls \cup {Null} PROVE Access(op, ops, of) \in Instrs
  BY <1>1 DEF Access, Instrs, i
<1>4. ASSUME NEW def \in Nat, op = "call" PROVE Call(ops, def) \in Instrs
  BY <1>1, <1>4 DEF Call, Instrs, i
<1>. QED  BY <1>1, <1>2, <1>3, <1>4 DEF i

(* Only calls have a callee.                                               *)
LEMMA InstrCallee ==
  /\ \A op, ops : Instr(op, ops).callee = 0
  /\ \A op, ops, to : Jump(op, ops, to).callee = 0
  /\ \A op, ops, of : Access(op, ops, of).callee = 0
  /\ \A ops, def : Call(ops, def).callee = def
  BY DEF Instr, Jump, Access, Call

(* The instructions that every statement may append.                       *)
LEMMA SomeInstrs ==
  /\ \A t \in IRTypes : <<Instr("ret", <<t>>)>> \in Seq(Instrs)
  /\ \A to \in Nat : <<Jump("br", <<>>, <<to>>)>> \in Seq(Instrs)
  /\ \A d \in VarDecls : /\ Access("alloca", <<>>, d) \in Instrs
                         /\ Access("load", <<>>, d) \in Instrs
  /\ \A t \in IRTypes, d \in VarDecls \cup {Null} : <<Access("store", <<t>>, d)>> \in Seq(Instrs)
<1>1. {"ret", "br", "alloca", "load", "store"} \subseteq Opcodes
  BY DEF Opcodes, Terminators
<1>2. <<>> \in Seq(IRTypes) /\ \A t \in IRTypes : <<t>> \in Seq(IRTypes)
  OBVIOUS
<1>3. ASSUME NEW t \in IRTypes PROVE Instr("ret", <<t>>) \in Instrs
  BY <1>1, <1>2, InstrType
<1>4. ASSUME NEW to \in Nat PROVE Jump("br", <<>>, <<to>>) \in Instrs
  <2>1. <<to>> \in Seq(Nat)
    OBVIOUS
  <2>. QED  BY <1>1, <1>2, <2>1, InstrType
<1>5. ASSUME NEW d \in VarDecls
      PROVE  Access("alloca", <<>>, d) \in Instrs /\ Access("load", <<>>, d) \in Instrs
  <2>1. d \in VarDecls \cup {Null}
    OBVIOUS
  <2>. QED  BY <1>1, <1>2, <2>1, InstrType
<1>6. ASSUME NEW t \in IRTypes, NEW d \in VarDecls \cup {Null}
      PROVE  Access("store", <<t>>, d) \in Instrs
  BY <1>1, <1>2, InstrType
<1>7. \A i \in Instrs : <<i>> \in Seq(Instrs)
  OBVIOUS
<1>. QED  BY <1>3, <1>4, <1>5, <1>6, <1>7

(* Appending to the block at the insertion point.                          *)
LEMMA PutType ==
  ASSUME blocks \in Seq(Blocks), insert \in DOMAIN blocks, NEW new \in Seq(Instrs)
  PROVE  /\ Put(new) \in Seq(Blocks)
         /\ Len(Put(new)) = Len(blocks)
         /\ DOMAIN Put(new) = DOMAIN blocks
         /\ \A b \in DOMAIN blocks : b # insert => Put(new)[b] = blocks[b]
         /\ Put(new)[insert] = blocks[insert] \o new
<1>1. blocks[insert] \o new \in Blocks
  BY DEF Blocks
<1>. QED  BY <1>1 DEF Put

(* The innermost frame, and the sequences of frames made from others.      *)
LEMMA LastFrame ==
  ASSUME NEW fs \in Seq(Frames), fs # <<>>
  PROVE  /\ Len(fs) \in Nat /\ Len(fs) \in DOMAIN fs
         /\ Last(fs) = fs[Len(fs)] /\ Last(fs) \in Frames
  BY DEF Last

(* The frames without the innermost.                                       *)
LEMMA FrontFrames ==
  ASSUME NEW fs \in Seq(Frames), fs # <<>>
  PROVE  /\ Front(fs) \in Seq(Frames)
         /\ Len(Front(fs)) = Len(fs) - 1
         /\ \A i \in 1 .. Len(fs) - 1 : Front(fs)[i] = fs[i]
<1>. DEFINE n == Len(fs) - 1
<1>1. n \in Nat /\ \A i \in 1 .. n : fs[i] \in Frames
  BY LastFrame
<1>. HIDE DEF n
<1>2. /\ SubSeq(fs, 1, n) \in Seq(Frames)
      /\ Len(SubSeq(fs, 1, n)) = n
      /\ \A i \in 1 .. n : SubSeq(fs, 1, n)[i] = fs[i]
  BY <1>1
<1>. QED  BY <1>2 DEF Front, n

(* The innermost frame at another control point.                           *)
LEMMA SetPcFrames ==
  ASSUME NEW fs \in Seq(Frames), fs # <<>>, NEW pc \in ControlPoints
  PROVE  /\ SetPc(fs, pc) \in Seq(Frames)
         /\ Len(SetPc(fs, pc)) = Len(fs)
         /\ \A i \in 1 .. Len(fs) - 1 : SetPc(fs, pc)[i] = fs[i]
         /\ SetPc(fs, pc)[Len(fs)] = [Last(fs) EXCEPT !.pc = pc]
<1>1. fs[Len(fs)] \in Frames /\ Len(fs) \in DOMAIN fs
  BY LastFrame
<1>2. [fs[Len(fs)] EXCEPT !.pc = pc] \in Frames
  BY <1>1 DEF Frames
<1>3. SetPc(fs, pc) = [fs EXCEPT ![Len(fs)] = [fs[Len(fs)] EXCEPT !.pc = pc]]
  BY DEF SetPc
<1>. QED  BY <1>1, <1>2, <1>3 DEF Last

(* The innermost frame after a statement that needs no frame.              *)
LEMMA ResumeFrames ==
  ASSUME NEW fs \in Seq(Frames), At(fs, StmtPoints)
  PROVE  /\ Resume(fs) = SetPc(fs, After[Last(fs).pc])
         /\ After[Last(fs).pc] \in EndPoints \cup {"Seq"}
         /\ fs # <<>>
<1>1. fs # <<>> /\ Last(fs).pc \in StmtPoints
  BY DEF At
<1>2. After[Last(fs).pc] \in EndPoints \cup {"Seq"}
  BY <1>1 DEF After, StmtPoints, EndPoints
<1>3. Resume(fs) = SetPc(fs, After[Last(fs).pc])
  BY <1>1, LastFrame DEF Resume, SetPc
<1>. QED  BY <1>1, <1>2, <1>3

(* The frames with a new innermost one.                                    *)
LEMMA EnterFrames ==
  ASSUME NEW fs \in Seq(Frames), At(fs, StmtPoints), NEW fr \in Frames
  PROVE  /\ Enter(fs, fr) \in Seq(Frames)
         /\ Len(Enter(fs, fr)) = Len(fs) + 1
         /\ \A i \in 1 .. Len(fs) : Enter(fs, fr)[i] = Resume(fs)[i]
         /\ Enter(fs, fr)[Len(fs) + 1] = fr
         /\ Resume(fs) \in Seq(Frames) /\ Len(Resume(fs)) = Len(fs)
<1>1. After[Last(fs).pc] \in ControlPoints
  BY ResumeFrames DEF ControlPoints, StmtPoints
<1>2. Resume(fs) \in Seq(Frames) /\ Len(Resume(fs)) = Len(fs)
  <2>1. fs # <<>> /\ Resume(fs) = SetPc(fs, After[Last(fs).pc])
    BY ResumeFrames
  <2>. QED  BY <1>1, <2>1, SetPcFrames
<1>. QED  BY <1>2 DEF Enter

-----------------------------------------------------------------------------
(* The frames that the actions leave stand at the right nodes.             *)
LEMMA MovedNodes ==
  ASSUME NEW prog, NEW fs \in Seq(Frames), fs # <<>>, NodesOK(prog, fs),
         NEW pc \in ControlPoints \ {"DeclInit", "AssignExp"}
  PROVE  NodesOK(prog, SetPc(fs, pc))
<1>1. [Last(fs) EXCEPT !.pc = pc].pc = pc
  BY LastFrame DEF Frames
<1>2. NodeOK(prog, [Last(fs) EXCEPT !.pc = pc])
  BY <1>1 DEF NodeOK
<1>. QED  BY <1>2, SetPcFrames, LastFrame DEF NodesOK

(* A Visit function that returns.                                          *)
LEMMA PoppedNodes ==
  ASSUME NEW prog, NEW fs \in Seq(Frames), fs # <<>>, NodesOK(prog, fs)
  PROVE  NodesOK(prog, Front(fs))
<1>1. Front(fs) \in Seq(Frames) /\ Len(Front(fs)) = Len(fs) - 1 /\ Len(fs) \in Nat
  BY FrontFrames, LastFrame
<1>2. \A i \in DOMAIN Front(fs) : Front(fs)[i] = fs[i] /\ i \in DOMAIN fs
  BY <1>1, FrontFrames
<1>. QED  BY <1>2 DEF NodesOK

(* A statement that needs no frame.                                        *)
LEMMA ResumedNodes ==
  ASSUME NEW prog, NEW fs \in Seq(Frames), At(fs, StmtPoints), NodesOK(prog, fs)
  PROVE  NodesOK(prog, Resume(fs))
  BY ResumeFrames, MovedNodes DEF ControlPoints, EndPoints, StmtPoints

(* A new frame that stands at the right node.                              *)
LEMMA EnteredNodes ==
  ASSUME NEW prog, NEW fs \in Seq(Frames), At(fs, StmtPoints), NodesOK(prog, fs),
         NEW fr \in Frames, NodeOK(prog, fr)
  PROVE  NodesOK(prog, Enter(fs, fr))
  BY EnterFrames, ResumedNodes DEF NodesOK
-----------------------------------------------------------------------------
(* The type invariant, one lemma for each group of actions.                *)
LEMMA NewFrameType ==
  ASSUME cursor \in Nat, NEW pc \in ControlPoints, NEW loop \in Nat
  PROVE  /\ NewFrame(pc, loop) \in Frames
         /\ NewFrame(pc, loop).pc = pc /\ NewFrame(pc, loop).node = cursor
  BY DEF NewFrame, Frames

(* The node that is about to be visited.                                   *)
LEMMA ReadingNode ==
  ASSUME TypeOK, NEW kind, Reading(kind)
  PROVE  /\ cursor \in Nat \ {0} /\ cursor \in DOMAIN syntax
         /\ syntax[cursor] \in Nodes /\ syntax[cursor].n = kind
<1>1. cursor \in DOMAIN syntax
  BY DEF TypeOK, Reading
<1>. QED  BY <1>1 DEF TypeOK, Reading

(* The start and the end of functions, and of the program.                 *)
LEMMA TypeFunctions ==
  ASSUME TypeInv, InsertOK, BeginFunction \/ EndFunction \/ Finish
  PROVE  TypeInv'
<1>1. CASE BeginFunction
  <2>1. syntax[cursor].def \in FuncDefs /\ cursor \in Nat
    BY <1>1, ReadingNode, NodeKinds DEF BeginFunction, TypeInv
  <2>2. ParamDecls(cursor, syntax[cursor].def) \subseteq VarDecls
    BY <2>1, ParamDeclsType
  <2>3. NewFrame("FuncBody", 0) \in Frames /\ NodeOK(syntax, NewFrame("FuncBody", 0))
    BY <2>1, NewFrameType DEF NodeOK, ControlPoints, StmtPoints
  <2>4. CASE syntax[cursor].def.body
    <3>1. blocks' = << <<>> >> /\ insert' = 1 /\ frames' = <<NewFrame("FuncBody", 0)>>
      BY <1>1, <2>4 DEF BeginFunction
    <3>2. blocks' \in Seq(Blocks) /\ insert' \in DOMAIN blocks'
      BY <3>1 DEF Blocks
    <3>3. frames' \in Seq(Frames) /\ NodesOK(syntax, frames')
      BY <2>3, <3>1 DEF NodesOK
    <3>4. functions' \subseteq Nat /\ symbols' \subseteq VarDecls
      BY <1>1, <2>1, <2>2, <2>4 DEF BeginFunction, TypeInv, TypeOK
    <3>5. UNCHANGED <<syntax, values, module, status>> /\ cursor' \in Nat \ {0}
      BY <1>1, <2>1 DEF BeginFunction
    <3>. QED  BY <3>1, <3>2, <3>3, <3>4, <3>5 DEF TypeInv, TypeOK, InsertOK
  <2>5. CASE ~syntax[cursor].def.body
    <3>1. UNCHANGED <<functions, symbols, blocks, insert, frames>>
      BY <1>1, <2>5 DEF BeginFunction
    <3>2. UNCHANGED <<syntax, values, module, status>> /\ cursor' \in Nat \ {0}
      BY <1>1, <2>1 DEF BeginFunction
    <3>. QED  BY <3>1, <3>2 DEF TypeInv, TypeOK, InsertOK
  <2>. QED  BY <2>4, <2>5
<1>2. CASE EndFunction
  <2>1. insert \in DOMAIN blocks /\ frames[1] \in Frames
    BY <1>2 DEF EndFunction, At, TypeInv, TypeOK, InsertOK
  <2>2. <<Instr("ret", <<"i32">>)>> \in Seq(Instrs)
    BY SomeInstrs DEF IRTypes
  <2>3. Put(<<Instr("ret", <<"i32">>)>>) \in Seq(Blocks)
    BY <2>1, <2>2, PutType DEF TypeInv, TypeOK
  <2>4. module' \in Seq([def : Nat, blocks : Seq(Blocks)])
    BY <1>2, <2>1, <2>3 DEF EndFunction, TypeInv, TypeOK, Frames
  <2>. QED  BY <1>2, <2>4 DEF EndFunction, TypeInv, TypeOK, NodesOK, InsertOK
<1>3. CASE Finish
  BY <1>3 DEF Finish, TypeInv, TypeOK, InsertOK
<1>. QED  BY <1>1, <1>2, <1>3

(* A failed assertion.                                                     *)
LEMMA TypeAbort == ASSUME TypeInv, Abort PROVE TypeInv'
  BY DEF TypeInv, TypeOK, Abort, InsertOK

(* Statements that first visit an expression.                              *)
LEMMA TypeVisitExpOf ==
  ASSUME TypeInv, NEW kind, NEW pc \in {"ReturnExp", "CallExp", "IfCond", "Seq", "AssignExp"},
         pc = "AssignExp" => kind = "Assign", VisitExpOf(kind, pc)
  PROVE  TypeInv'
<1>1. /\ At(frames, StmtPoints) /\ frames # <<>> /\ cursor \in Nat
      /\ cursor \in DOMAIN syntax /\ syntax[cursor].n = kind
  BY ReadingNode DEF VisitExpOf, VisitStmt, TypeInv, At
<1>2. NewFrame(pc, 0) \in Frames /\ NodeOK(syntax, NewFrame(pc, 0))
  BY <1>1, NewFrameType DEF NodeOK, ControlPoints, StmtPoints, ExpPoints
<1>3. frames' \in Seq(Frames) /\ NodesOK(syntax, frames')
  BY <1>1, <1>2, EnterFrames, EnteredNodes DEF VisitExpOf, TypeInv, TypeOK
<1>. QED  BY <1>1, <1>3 DEF VisitExpOf, VisitStmt, TypeInv, TypeOK, InsertOK

(* Declarations of variables.                                              *)
LEMMA TypeVisitDecl == ASSUME TypeInv, InsertOK, VisitDecl PROVE TypeInv'
<1>. DEFINE node == syntax[cursor]
            decl == LocalDecl(cursor, node.name, node.type)
<1>1. /\ At(frames, StmtPoints) /\ frames # <<>> /\ cursor \in Nat
      /\ cursor \in DOMAIN syntax /\ node \in Nodes /\ node.n = "Decl"
  BY ReadingNode DEF VisitDecl, VisitStmt, TypeInv, At
<1>2. decl \in VarDecls
  BY <1>1, NodeKinds, LocalDeclType
<1>3. Access("alloca", <<>>, decl) \in Instrs
  BY <1>2, SomeInstrs
<1>4. NewFrame("DeclInit", 0) \in Frames /\ NodeOK(syntax, NewFrame("DeclInit", 0))
  BY <1>1, NewFrameType DEF NodeOK, ControlPoints, ExpPoints
<1>5. frames' \in Seq(Frames) /\ NodesOK(syntax, frames')
  BY <1>1, <1>4, EnterFrames, EnteredNodes, ResumedNodes DEF VisitDecl, TypeInv, TypeOK
<1>6. blocks' \in Seq(Blocks) /\ DOMAIN blocks' = DOMAIN blocks
  <2>1. 1 \in DOMAIN blocks
    BY <1>1 DEF TypeInv, TypeOK, InsertOK
  <2>2. <<Access("alloca", <<>>, decl)>> \o blocks[1] \in Blocks
    BY <1>3, <2>1 DEF Blocks, TypeInv, TypeOK
  <2>3. blocks' = [blocks EXCEPT ![1] = <<Access("alloca", <<>>, decl)>> \o blocks[1]]
    BY DEF VisitDecl
  <2>4. blocks \in Seq(Blocks)
    BY DEF TypeInv, TypeOK
  <2>. QED  BY <2>1, <2>2, <2>3, <2>4
<1>. QED  BY <1>1, <1>2, <1>5, <1>6 DEF VisitDecl, VisitStmt, TypeInv, TypeOK, InsertOK

(* The head of a loop.                                                     *)
LEMMA TypeVisitWhile == ASSUME TypeInv, InsertOK, VisitWhile PROVE TypeInv'
<1>. DEFINE loop == Len(blocks) + 1
<1>1. /\ At(frames, StmtPoints) /\ frames # <<>> /\ cursor \in Nat
      /\ loop \in Nat /\ insert \in DOMAIN blocks
  BY ReadingNode DEF VisitWhile, VisitStmt, TypeInv, At, TypeOK, InsertOK
<1>2. NewFrame("WhileCond", loop) \in Frames /\ NodeOK(syntax, NewFrame("WhileCond", loop))
  BY <1>1, NewFrameType DEF NodeOK, ControlPoints, ExpPoints
<1>3. frames' \in Seq(Frames) /\ NodesOK(syntax, frames')
  BY <1>1, <1>2, EnterFrames, EnteredNodes DEF VisitWhile, TypeInv, TypeOK
<1>4. <<Jump("br", <<>>, <<loop>>)>> \in Seq(Instrs)
  BY <1>1, SomeInstrs
<1>5. blocks' \in Seq(Blocks) /\ insert' \in DOMAIN blocks'
  <2>1. Put(<<Jump("br", <<>>, <<loop>>)>>) \in Seq(Blocks)
        /\ Len(Put(<<Jump("br", <<>>, <<loop>>)>>)) = Len(blocks)
    BY <1>1, <1>4, PutType DEF TypeInv, TypeOK
  <2>2. <<>> \in Blocks
    BY DEF Blocks
  <2>3. blocks' = Append(Put(<<Jump("br", <<>>, <<loop>>)>>), <<>>) /\ insert' = loop
    BY DEF VisitWhile
  <2>. QED  BY <1>1, <2>1, <2>2, <2>3
<1>. QED  BY <1>1, <1>3, <1>5 DEF VisitWhile, VisitStmt, TypeInv, TypeOK, InsertOK

(* The blocks after a conditional or unconditional branch out of the       *)
(* current one.                                                            *)
LEMMA BranchType ==
  ASSUME blocks \in Seq(Blocks), insert \in DOMAIN blocks, NEW to \in Nat
  PROVE  /\ Put(<<Jump("br", <<>>, <<to>>)>>) \in Seq(Blocks)
         /\ BranchUnlessTerminated(to) \in Seq(Blocks)
  BY SomeInstrs, PutType DEF BranchUnlessTerminated

(* The ends of the statements that contain statements.                     *)
LEMMA TypeEndVisit ==
  ASSUME TypeInv, InsertOK, EndSeq \/ VisitElse \/ EndIf \/ EndWhile
  PROVE  TypeInv'
<1>1. /\ frames # <<>> /\ insert \in DOMAIN blocks
      /\ cursor' \in Nat \ {0}
      /\ UNCHANGED <<syntax, values, symbols, functions, module, status>>
  <2>1. \E points, mark : EndVisit(points, mark)
    BY DEF EndSeq, VisitElse, EndIf, EndWhile
  <2>. QED  BY <2>1 DEF EndVisit, At, TypeInv, TypeOK, InsertOK
<1>2. /\ Last(frames).loop \in Nat /\ Last(frames).join \in Nat /\ Last(frames).els \in Nat
  BY <1>1, LastFrame DEF Frames, TypeInv, TypeOK
<1>3. blocks' \in Seq(Blocks) /\ insert' \in Nat
  BY <1>1, <1>2, BranchType DEF EndSeq, VisitElse, EndIf, EndWhile, TypeInv, TypeOK
<1>4. frames' \in Seq(Frames) /\ NodesOK(syntax, frames')
  <2>1. CASE VisitElse
    BY <1>1, <2>1, SetPcFrames, MovedNodes
       DEF VisitElse, ControlPoints, StmtPoints, TypeInv, TypeOK
  <2>2. CASE EndSeq \/ EndIf \/ EndWhile
    BY <1>1, <2>2, FrontFrames, PoppedNodes DEF EndSeq, EndIf, EndWhile, TypeInv, TypeOK
  <2>. QED  BY <2>1, <2>2
<1>. QED  BY <1>1, <1>3, <1>4 DEF TypeInv, TypeOK

(* The instructions of a statement that ends with its expression.          *)
LEMMA StmtExpInstrs ==
  ASSUME TypeInv, InsertOK, EndCallStmt \/ EndReturn \/ EndAssign \/ EndDeclInit
  PROVE  \E pc \in ExpPoints, instrs \in Seq(Instrs) :
           EndStmtExp(pc, instrs) /\ NoCalls(instrs) /\ NoBranches(instrs)
<1>0. \A t, d : NoBranches(<<Instr("ret", <<t>>)>>) /\ NoBranches(<<Access("store", <<t>>, d)>>)
  BY DEF NoBranches, Access, Instr
<1>1. frames # <<>> /\ values[1] \in IRTypes
  <2>1. \E pc : EndExp(pc)
    BY DEF EndCallStmt, EndReturn, EndAssign, EndDeclInit, EndStmtExp
  <2>. QED  BY <2>1 DEF EndExp, At, TypeInv, TypeOK
<1>2. CASE EndCallStmt
  <2>1. <<>> \in Seq(Instrs) /\ NoCalls(<<>>) /\ NoBranches(<<>>) /\ "CallExp" \in ExpPoints
    BY DEF NoCalls, NoBranches, ExpPoints
  <2>. QED  BY <1>2, <2>1 DEF EndCallStmt
<1>3. CASE EndReturn
  <2>1. <<Instr("ret", <<values[1]>>)>> \in Seq(Instrs) /\ "ReturnExp" \in ExpPoints
        /\ NoCalls(<<Instr("ret", <<values[1]>>)>>)
    BY <1>1, SomeInstrs, InstrCallee DEF ExpPoints, NoCalls
  <2>. QED  BY <1>0, <1>3, <2>1 DEF EndReturn
<1>4. CASE EndAssign
  <2>1. Last(frames).node \in DOMAIN syntax /\ syntax[Last(frames).node].n = "Assign"
    <3>1. Last(frames).pc = "AssignExp"
      BY <1>4 DEF EndAssign, EndStmtExp, EndExp, At
    <3>2. NodeOK(syntax, Last(frames))
      BY <1>1, LastFrame DEF TypeInv, TypeOK, NodesOK
    <3>. QED  BY <3>1, <3>2 DEF NodeOK
  <2>2. syntax[Last(frames).node].decl \in VarDecls \cup {Null}
    BY <2>1, NodeKinds DEF TypeInv, TypeOK
  <2>3. /\ <<Access("store", <<values[1]>>, syntax[Last(frames).node].decl)>> \in Seq(Instrs)
        /\ NoCalls(<<Access("store", <<values[1]>>, syntax[Last(frames).node].decl)>>)
        /\ "AssignExp" \in ExpPoints
    BY <1>1, <2>2, SomeInstrs, InstrCallee DEF ExpPoints, NoCalls
  <2>. QED  BY <1>0, <1>4, <2>3 DEF EndAssign
<1>5. CASE EndDeclInit
  <2>. DEFINE k == Last(frames).node
              decl == LocalDecl(k, syntax[k].name, syntax[k].type)
  <2>1. k \in Nat /\ k \in DOMAIN syntax /\ syntax[k].n = "Decl"
    BY <1>1, <1>5, LastFrame
       DEF EndDeclInit, EndStmtExp, EndExp, At, TypeInv, TypeOK, NodesOK, NodeOK, Frames
  <2>2. decl \in VarDecls
    BY <2>1, NodeKinds, LocalDeclType DEF TypeInv, TypeOK
  <2>3. <<Access("store", <<values[1]>>, decl)>> \in Seq(Instrs) /\ "DeclInit" \in ExpPoints
        /\ NoCalls(<<Access("store", <<values[1]>>, decl)>>)
    BY <1>1, <2>2, SomeInstrs, InstrCallee DEF ExpPoints, NoCalls
  <2>. QED  BY <1>0, <1>5, <2>3 DEF EndDeclInit
<1>. QED  BY <1>2, <1>3, <1>4, <1>5

(* The ends of the statements that contain an expression.                  *)
LEMMA TypeEndStmtExp ==
  ASSUME TypeInv, InsertOK, NEW pc \in ExpPoints, NEW instrs \in Seq(Instrs), EndStmtExp(pc, instrs)
  PROVE  TypeInv'
<1>1. /\ frames # <<>> /\ insert \in DOMAIN blocks
      /\ cursor' \in Nat \ {0} /\ values' = <<>> /\ insert' = insert
      /\ UNCHANGED <<syntax, symbols, functions, module, status>>
  BY DEF EndStmtExp, EndExp, At, TypeInv, TypeOK, InsertOK
<1>2. blocks' \in Seq(Blocks)
  BY <1>1, PutType DEF EndStmtExp, TypeInv, TypeOK
<1>3. frames' \in Seq(Frames) /\ NodesOK(syntax, frames')
  BY <1>1, FrontFrames, PoppedNodes DEF EndStmtExp, TypeInv, TypeOK
<1>. QED  BY <1>1, <1>2, <1>3 DEF TypeInv, TypeOK

(* What a call of a builtin function generates.                            *)
LEMMA BuiltinInstrType ==
  ASSUME NEW name \in OperatorNames, NEW args \in Seq(IRTypes), Len(args) >= MinArgs(name)
  PROVE  /\ <<BuiltinInstr(name, args)>> \in Seq(Instrs)
         /\ BuiltinType(name, args) \in IRTypes
<1>1. /\ Len(args) \in Nat /\ Len(args) >= 1 /\ args[1] \in IRTypes /\ args[Len(args)] \in IRTypes
      /\ name \in InfixOps \ {"-"} => args[2] \in IRTypes
  BY DEF MinArgs
<1>2. \A x \in IRTypes, y \in IRTypes, z \in IRTypes :
        <<x>> \in Seq(IRTypes) /\ <<x, y>> \in Seq(IRTypes) /\ <<x, y, z>> \in Seq(IRTypes)
  OBVIOUS
<1>3. "i1" \in IRTypes /\ "i32" \in IRTypes
  BY DEF IRTypes
<1>4. {"binary", "icmp", "select", "zext"} \subseteq Opcodes
  BY DEF Opcodes
<1>5. \A op \in Opcodes, ops \in Seq(IRTypes) : Instr(op, ops) \in Instrs
  BY InstrType
<1>6. BuiltinInstr(name, args) \in Instrs
  <2>1. CASE name \in Arith
    BY <1>1, <1>2, <1>4, <1>5, <2>1 DEF BuiltinInstr, Arith, Compare
  <2>2. CASE name \in Compare
    BY <1>1, <1>2, <1>4, <1>5, <2>2 DEF BuiltinInstr, Compare, Arith, InfixOps
  <2>3. CASE name \in {"!", "bool", "int"}
    BY <1>1, <1>2, <1>3, <1>4, <1>5, <2>3 DEF BuiltinInstr, Compare, Arith
  <2>4. CASE name \in {"&&", "||"}
    BY <1>1, <1>2, <1>3, <1>4, <1>5, <2>4 DEF BuiltinInstr, Compare, Arith, InfixOps
  <2>. QED  BY <2>1, <2>2, <2>3, <2>4 DEF OperatorNames, InfixOps, Arith, Compare
<1>7. BuiltinType(name, args) \in IRTypes
  <2>1. CASE name \in Arith
    BY <1>1, <2>1 DEF BuiltinType, Arith
  <2>2. CASE name = "int"
    BY <1>3, <2>2 DEF BuiltinType, Arith
  <2>3. CASE name = "&&"
    BY <1>1, <2>3 DEF BuiltinType, Arith, InfixOps
  <2>4. CASE name \notin Arith \cup {"int", "&&"}
    BY <1>3, <2>4 DEF BuiltinType
  <2>. QED  BY <2>1, <2>2, <2>3, <2>4
<1>. QED  BY <1>6, <1>7

(* An expression appends values and instructions.                          *)
LEMMA TypeGenerate ==
  ASSUME TypeInv, InsertOK, frames # <<>>,
         NEW vals \in Seq(IRTypes), NEW instrs \in Seq(Instrs), Generate(vals, instrs)
  PROVE  TypeInv'
<1>1. blocks' \in Seq(Blocks)
  BY PutType DEF Generate, TypeInv, TypeOK, InsertOK
<1>. QED  BY <1>1 DEF Generate, TypeInv, TypeOK

(* A visit of an expression appends typed instructions, or aborts.         *)
LEMMA NextExpGenerates ==
  ASSUME TypeInv, InsertOK, NextExp
  PROVE  /\ frames # <<>>
         /\ \/ Abort
            \/ \E vals \in Seq(IRTypes), instrs \in Seq(Instrs) : Generate(vals, instrs)
<1>1. frames # <<>>
  BY DEF NextExp, VisitConst, VisitVarExp, VisitCallExp, VisitExp, At
<1>2. CASE VisitConst
  <2>1. Append(values, ConvertType(syntax[cursor].type)) \in Seq(IRTypes)
    BY ConvertTypeType DEF TypeInv, TypeOK
  <2>2. <<>> \in Seq(Instrs)
    OBVIOUS
  <2>. QED  BY <1>1, <1>2, <2>1, <2>2 DEF VisitConst
<1>3. CASE VisitVarExp
  <2>. DEFINE decl == syntax[cursor].decl
  <2>1. decl \in VarDecls
    BY <1>3, ReadingNode, NodeKinds DEF VisitVarExp, VisitExp, TypeInv
  <2>2. Append(values, ConvertType(decl.type)) \in Seq(IRTypes)
    BY ConvertTypeType DEF TypeInv, TypeOK
  <2>3. <<>> \in Seq(Instrs) /\ <<Access("load", <<>>, decl)>> \in Seq(Instrs)
    BY <2>1, SomeInstrs
  <2>4. \/ Abort
        \/ Generate(Append(values, ConvertType(decl.type)), <<Access("load", <<>>, decl)>>)
        \/ Generate(Append(values, ConvertType(decl.type)), <<>>)
    BY <1>3 DEF VisitVarExp
  <2>. QED  BY <1>1, <2>2, <2>3, <2>4
<1>4. CASE VisitCallExp
  <2>. DEFINE node  == syntax[cursor]
              first == Len(values) - node.args
              args  == SubSeq(values, first + 1, Len(values))
              rest  == SubSeq(values, 1, first)
              emit  == IF node.name = "int" /\ args[1] = "i32"
                       THEN <<>> ELSE <<BuiltinInstr(node.name, args)>>
  <2>1. /\ node \in Nodes /\ node.n = "Call" /\ node.args <= Len(values)
        /\ node.args \in Nat /\ node.def \in Nat /\ values \in Seq(IRTypes)
    BY <1>4, ReadingNode, NodeKinds DEF VisitCallExp, VisitExp, TypeInv, TypeOK
  <2>2. first \in Nat /\ first <= Len(values) /\ Len(values) \in Nat
    BY <2>1
  <2>3. args \in Seq(IRTypes) /\ Len(args) = node.args /\ rest \in Seq(IRTypes)
    BY <2>1, <2>2
  <2>4. \/ Abort
        \/ /\ node.name \in OperatorNames /\ node.args >= MinArgs(node.name)
           /\ Generate(Append(rest, BuiltinType(node.name, args)), emit)
        \/ Generate(Append(rest, ConvertType(syntax[node.def].def.ret)),
                    <<Call(args, node.def)>>)
    BY <1>4 DEF VisitCallExp
  <2>5. ASSUME node.name \in OperatorNames, node.args >= MinArgs(node.name)
        PROVE  /\ emit \in Seq(Instrs)
               /\ Append(rest, BuiltinType(node.name, args)) \in Seq(IRTypes)
    <3>1. <<BuiltinInstr(node.name, args)>> \in Seq(Instrs)
          /\ BuiltinType(node.name, args) \in IRTypes
      BY <2>3, <2>5, BuiltinInstrType
    <3>2. emit \in Seq(Instrs)
      BY <3>1
    <3>3. Append(rest, BuiltinType(node.name, args)) \in Seq(IRTypes)
      BY <2>3, <3>1
    <3>. QED  BY <3>2, <3>3
  <2>6. <<Call(args, node.def)>> \in Seq(Instrs)
    <3>. HIDE DEF args, node
    <3>1. "call" \in Opcodes
      BY DEF Opcodes
    <3>2. Call(args, node.def) \in Instrs
      BY <2>1, <2>3, <3>1, InstrType
    <3>. QED  BY <3>2
  <2>7. Append(rest, ConvertType(syntax[node.def].def.ret)) \in Seq(IRTypes)
    BY <2>3, ConvertTypeType
  <2>. QED  BY <1>1, <2>4, <2>5, <2>6, <2>7
<1>. QED  BY <1>2, <1>3, <1>4 DEF NextExp

(* The instructions of a conditional branch.                               *)
LEMMA CondBranchType ==
  ASSUME TypeOK, values # <<>>, NEW to \in Seq(Nat)
  PROVE  /\ CondBranch(to) \in Seq(Instrs) /\ CondBranch(to) # <<>>
         /\ CondBranch(to)[Len(CondBranch(to))].op = "condbr"
<1>1. {"icmp", "condbr"} \subseteq Opcodes
  BY DEF Opcodes, Terminators
<1>2. values[1] \in IRTypes /\ "i1" \in IRTypes /\ "i32" \in IRTypes
  BY DEF TypeOK, IRTypes
<1>3. <<values[1]>> \in Seq(IRTypes) /\ <<values[1], "i32">> \in Seq(IRTypes) /\ <<"i1">> \in Seq(IRTypes)
  BY <1>2
<1>4. /\ Jump("condbr", <<values[1]>>, to) \in Instrs
      /\ Jump("condbr", <<values[1]>>, to).op = "condbr"
  BY <1>1, <1>3, InstrType
<1>5. /\ Jump("condbr", <<"i1">>, to) \in Instrs
      /\ Jump("condbr", <<"i1">>, to).op = "condbr"
  BY <1>1, <1>3, InstrType
<1>6. Instr("icmp", <<values[1], "i32">>) \in Instrs
  BY <1>1, <1>3, InstrType
<1>7. CASE ExpType(syntax[cursor - 1]) = "bool"
  BY <1>4, <1>7 DEF CondBranch
<1>8. CASE ExpType(syntax[cursor - 1]) # "bool"
  BY <1>5, <1>6, <1>8 DEF CondBranch
<1>. QED  BY <1>7, <1>8

(* The frames with the innermost one replaced.                             *)
LEMMA ReplacedFrames ==
  ASSUME NEW fs \in Seq(Frames), fs # <<>>, NEW fr \in Frames
  PROVE  /\ [fs EXCEPT ![Len(fs)] = fr] \in Seq(Frames)
         /\ Len([fs EXCEPT ![Len(fs)] = fr]) = Len(fs)
         /\ \A i \in 1 .. Len(fs) - 1 : [fs EXCEPT ![Len(fs)] = fr][i] = fs[i]
         /\ [fs EXCEPT ![Len(fs)] = fr][Len(fs)] = fr
  BY LastFrame

(* A replaced frame that stands at the right node.                         *)
LEMMA ReplacedNodes ==
  ASSUME NEW prog, NEW fs \in Seq(Frames), fs # <<>>, NodesOK(prog, fs),
         NEW fr \in Frames, NodeOK(prog, fr)
  PROVE  NodesOK(prog, [fs EXCEPT ![Len(fs)] = fr])
  BY ReplacedFrames, LastFrame DEF NodesOK

(* The blocks that a condition leaves: the current one branches, the new   *)
(* ones are empty.                                                         *)
LEMMA CondBlocks ==
  ASSUME TypeOK, insert \in DOMAIN blocks, values # <<>>,
         NEW to \in Seq(Nat), NEW n \in Nat,
         NEW new \in [1 .. n -> {<<>>}],
         blocks' = Put(CondBranch(to)) \o new
  PROVE  /\ blocks' \in Seq(Blocks) /\ Len(blocks') = Len(blocks) + n
         /\ HasTerminator(blocks'[insert])
         /\ \A b \in DOMAIN blocks : b # insert => blocks'[b] = blocks[b]
<1>1. /\ Put(CondBranch(to)) \in Seq(Blocks)
      /\ Len(Put(CondBranch(to))) = Len(blocks)
      /\ \A b \in DOMAIN blocks : b # insert => Put(CondBranch(to))[b] = blocks[b]
      /\ Put(CondBranch(to))[insert] = blocks[insert] \o CondBranch(to)
  BY CondBranchType, PutType DEF TypeOK
<1>2. new \in Seq(Blocks) /\ Len(new) = n
  <2>1. <<>> \in Blocks
    BY DEF Blocks
  <2>2. new \in [1 .. n -> Blocks]
    BY <2>1
  <2>3. new \in Seq(Blocks)
    BY <2>2, SeqDef
  <2>. QED  BY <2>2, <2>3
<1>3. HasTerminator(blocks[insert] \o CondBranch(to))
  <2>1. blocks[insert] \in Seq(Instrs)
    BY DEF TypeOK, Blocks
  <2>. QED  BY <2>1, CondBranchType DEF HasTerminator, Terminators
<1>4. blocks \in Seq(Blocks)
  BY DEF TypeOK
<1>. DEFINE put == Put(CondBranch(to))
<1>. HIDE DEF put
<1>5. /\ put \in Seq(Blocks) /\ Len(put) = Len(blocks) /\ HasTerminator(put[insert])
      /\ \A b \in DOMAIN blocks : b # insert => put[b] = blocks[b]
      /\ blocks' = put \o new
  BY <1>1, <1>3 DEF put
<1>6. \A b \in DOMAIN blocks : (put \o new)[b] = put[b]
  BY <1>2, <1>4, <1>5
<1>7. blocks' \in Seq(Blocks) /\ Len(blocks') = Len(blocks) + n
  <2>1. put \o new \in Seq(Blocks) /\ Len(put \o new) = Len(put) + Len(new)
    BY <1>2, <1>5, ConcatProperties
  <2>. QED  BY <1>2, <1>5, <2>1
<1>8. \A b \in DOMAIN blocks : blocks'[b] = put[b]
  BY <1>5, <1>6
<1>9. HasTerminator(blocks'[insert])
  BY <1>5, <1>8
<1>. QED  BY <1>5, <1>7, <1>8, <1>9

(* The frame of a statement that moves on to its body.                     *)
LEMMA BodyFrame ==
  ASSUME NEW prog, NEW fr \in Frames, NEW els \in Nat, NEW join \in Nat
  PROVE  /\ [fr EXCEPT !.pc = "IfThen", !.els = els, !.join = join] \in Frames
         /\ NodeOK(prog, [fr EXCEPT !.pc = "IfThen", !.els = els, !.join = join])
         /\ [fr EXCEPT !.pc = "WhileBody", !.join = join] \in Frames
         /\ NodeOK(prog, [fr EXCEPT !.pc = "WhileBody", !.join = join])
<1>1. "IfThen" \in ControlPoints /\ "WhileBody" \in ControlPoints
  BY DEF ControlPoints, StmtPoints
<1>2. [fr EXCEPT !.pc = "IfThen", !.els = els, !.join = join] \in Frames
  BY <1>1 DEF Frames
<1>3. [fr EXCEPT !.pc = "WhileBody", !.join = join] \in Frames
  BY <1>1 DEF Frames
<1>4. [fr EXCEPT !.pc = "IfThen", !.els = els, !.join = join].pc = "IfThen"
      /\ [fr EXCEPT !.pc = "WhileBody", !.join = join].pc = "WhileBody"
  BY DEF Frames
<1>. QED  BY <1>2, <1>3, <1>4 DEF NodeOK

(* The branches on the conditions of if and while.                         *)
LEMMA TypeEndCond ==
  ASSUME TypeInv, InsertOK, EndIfCond \/ EndWhileCond
  PROVE  TypeInv'
<1>1. /\ frames # <<>> /\ insert \in DOMAIN blocks /\ values # <<>>
      /\ cursor' \in Nat \ {0} /\ values' = <<>>
      /\ UNCHANGED <<syntax, symbols, functions, module, status>>
      /\ Last(frames) \in Frames /\ Last(frames) = frames[Len(frames)]
      /\ Len(blocks) \in Nat
  <2>1. \E pc : EndExp(pc)
    BY DEF EndIfCond, EndWhileCond
  <2>. QED  BY <2>1, LastFrame DEF EndExp, At, TypeInv, TypeOK, InsertOK
<1>2. CASE EndIfCond
  <2>. DEFINE else == syntax[Last(frames).node].else
              then == Len(blocks) + 1
              els  == IF else THEN then + 1 ELSE 0
              join == IF else THEN then + 2 ELSE then + 1
              fr   == [Last(frames) EXCEPT !.pc = "IfThen", !.els = els, !.join = join]
  <2>1. frames' = [frames EXCEPT ![Len(frames)] = fr] /\ insert' = then
    BY <1>1, <1>2 DEF EndIfCond
  <2>2. fr \in Frames /\ NodeOK(syntax, fr)
    <3>1. els \in Nat /\ join \in Nat
      BY <1>1
    <3>. HIDE DEF els, join
    <3>. QED  BY <1>1, <3>1, BodyFrame
  <2>3. frames' \in Seq(Frames) /\ NodesOK(syntax, frames')
    BY <1>1, <2>1, <2>2, ReplacedFrames, ReplacedNodes DEF TypeInv, TypeOK
  <2>4. blocks' \in Seq(Blocks)
    <3>. DEFINE to  == <<then, IF else THEN els ELSE join>>
                n   == IF else THEN 3 ELSE 2
                new == [b \in 1 .. n |-> <<>>]
    <3>1. to \in Seq(Nat) /\ n \in Nat /\ new \in [1 .. n -> {<<>>}]
      BY <1>1
    <3>2. blocks' = Put(CondBranch(to)) \o new
      BY <1>2 DEF EndIfCond
    <3>. HIDE DEF to, n, new
    <3>. QED  BY <1>1, <3>1, <3>2, CondBlocks DEF TypeInv
  <2>. QED  BY <1>1, <2>1, <2>3, <2>4 DEF TypeInv, TypeOK
<1>3. CASE EndWhileCond
  <2>. DEFINE body == Len(blocks) + 1
              join == Len(blocks) + 2
              fr   == [Last(frames) EXCEPT !.pc = "WhileBody", !.join = join]
  <2>1. frames' = [frames EXCEPT ![Len(frames)] = fr] /\ insert' = body
    BY <1>1, <1>3 DEF EndWhileCond
  <2>2. fr \in Frames /\ NodeOK(syntax, fr)
    <3>1. join \in Nat
      BY <1>1
    <3>2. 0 \in Nat
      OBVIOUS
    <3>. HIDE DEF join
    <3>. QED  BY <1>1, <3>1, <3>2, BodyFrame
  <2>3. frames' \in Seq(Frames) /\ NodesOK(syntax, frames')
    BY <1>1, <2>1, <2>2, ReplacedFrames, ReplacedNodes DEF TypeInv, TypeOK
  <2>4. blocks' \in Seq(Blocks)
    <3>1. <<body, join>> \in Seq(Nat) /\ << <<>>, <<>> >> \in [1 .. 2 -> {<<>>}]
      BY <1>1
    <3>2. blocks' = Put(CondBranch(<<body, join>>)) \o << <<>>, <<>> >>
      BY <1>3 DEF EndWhileCond
    <3>. HIDE DEF body, join
    <3>. QED  BY <1>1, <3>1, <3>2, CondBlocks DEF TypeInv
  <2>. QED  BY <1>1, <2>1, <2>3, <2>4 DEF TypeInv, TypeOK
<1>. QED  BY <1>2, <1>3

(* The type invariant is kept by every step.                               *)
LEMMA TypeNext ==
  ASSUME TypeInv, InsertOK, [Next \/ Returned]_vars
  PROVE  TypeInv'
<1>1. CASE BeginFunction \/ EndFunction \/ Finish
  BY <1>1, TypeFunctions
<1>2. CASE NextExp
  BY <1>2, NextExpGenerates, TypeGenerate, TypeAbort
<1>3. CASE NextStmt
  <2>1. CASE VisitReturn \/ VisitCallStmt \/ VisitIf \/ VisitSeq
    BY <2>1, TypeVisitExpOf DEF VisitReturn, VisitCallStmt, VisitIf, VisitSeq
  <2>2. CASE VisitAssign
    BY <2>2, TypeAbort, TypeVisitExpOf DEF VisitAssign
  <2>3. CASE VisitDecl \/ VisitWhile
    BY <2>3, TypeVisitDecl, TypeVisitWhile
  <2>4. CASE EndSeq \/ VisitElse \/ EndIf \/ EndWhile
    BY <2>4, TypeEndVisit
  <2>5. CASE EndCallStmt \/ EndReturn \/ EndAssign \/ EndDeclInit
    BY <2>5, StmtExpInstrs, TypeEndStmtExp
  <2>6. CASE EndIfCond \/ EndWhileCond
    BY <2>6, TypeEndCond
  <2>. QED  BY <1>3, <2>1, <2>2, <2>3, <2>4, <2>5, <2>6 DEF NextStmt
<1>4. CASE UNCHANGED vars
  BY <1>4 DEF vars, genVars, TypeInv, TypeOK
<1>. QED  BY <1>1, <1>2, <1>3, <1>4 DEF Next, Returned

-----------------------------------------------------------------------------
(***************************************************************************)
(* Which blocks may be open.  A block with no terminator is the one at the *)
(* insertion point, or one that an active if or while will still go to.    *)
(***************************************************************************)

\* The blocks that the Visit function of a frame has created and will insert
\* into, or continue after, later.
Pending(fr) ==
  IF fr.pc \in {"IfThen", "ThenEnd"} THEN {fr.join} \cup ({fr.els} \ {0})
  ELSE IF fr.pc \in {"IfElse", "ElseEnd", "WhileBody", "BodyEnd"} THEN {fr.join}
  ELSE {}

PendingOf(fs) == UNION {Pending(fs[i]) : i \in DOMAIN fs}

OthersEnd(bs, ins, pending) ==
  /\ ins \in DOMAIN bs /\ pending \subseteq DOMAIN bs
  /\ \A b \in DOMAIN bs : b # ins /\ b \notin pending => HasTerminator(bs[b])

\* Only the outermost frame is that of a function.
FunctionOutside(fs) == \A i \in DOMAIN fs : fs[i].pc \in {"FuncBody", "FuncEnd"} => i = 1

OpenInv ==
  /\ FunctionOutside(frames)
  /\ frames # <<>> => OthersEnd(blocks, insert, PendingOf(frames))
  /\ BlocksTerminated

(* The pending blocks, frame by frame.                                     *)
LEMMA PendingSplit ==
  ASSUME NEW fs \in Seq(Frames), fs # <<>>
  PROVE  PendingOf(fs) = PendingOf(Front(fs)) \cup Pending(Last(fs))
<1>1. /\ DOMAIN Front(fs) = 1 .. Len(fs) - 1 /\ DOMAIN fs = 1 .. Len(fs) /\ Len(fs) \in Nat \ {0}
      /\ \A i \in 1 .. Len(fs) - 1 : Front(fs)[i] = fs[i]
  BY FrontFrames, LastFrame
<1>2. DOMAIN fs = DOMAIN Front(fs) \cup {Len(fs)}
  BY <1>1
<1>. QED  BY <1>1, <1>2 DEF PendingOf, Last

(* Replacing the innermost frame leaves the others.                        *)
LEMMA FrontReplaced ==
  ASSUME NEW fs \in Seq(Frames), fs # <<>>, NEW fr \in Frames
  PROVE  /\ Front([fs EXCEPT ![Len(fs)] = fr]) = Front(fs)
         /\ Last([fs EXCEPT ![Len(fs)] = fr]) = fr
  BY ReplacedFrames, FrontFrames, LastFrame DEF Front, Last

(* Appending a frame leaves the others.                                    *)
LEMMA FrontAppended ==
  ASSUME NEW fs \in Seq(Frames), NEW fr \in Frames
  PROVE  Front(Append(fs, fr)) = fs /\ Last(Append(fs, fr)) = fr
  BY DEF Front, Last

(* The pending blocks after replacing the innermost frame.                 *)
LEMMA PendingReplaced ==
  ASSUME NEW fs \in Seq(Frames), fs # <<>>, NEW fr \in Frames
  PROVE  PendingOf([fs EXCEPT ![Len(fs)] = fr]) = PendingOf(Front(fs)) \cup Pending(fr)
<1>1. [fs EXCEPT ![Len(fs)] = fr] \in Seq(Frames) /\ [fs EXCEPT ![Len(fs)] = fr] # <<>>
  BY ReplacedFrames, LastFrame
<1>. QED  BY <1>1, PendingSplit, FrontReplaced

(* The pending blocks after a new frame.                                   *)
LEMMA PendingAppended ==
  ASSUME NEW fs \in Seq(Frames), NEW fr \in Frames
  PROVE  PendingOf(Append(fs, fr)) = PendingOf(fs) \cup Pending(fr)
<1>1. Append(fs, fr) \in Seq(Frames) /\ Append(fs, fr) # <<>>
  BY AppendProperties
<1>. QED  BY <1>1, PendingSplit, FrontAppended

(* A frame that is resumed has the blocks that it had.                     *)
LEMMA PendingResumed ==
  ASSUME NEW fs \in Seq(Frames), At(fs, StmtPoints)
  PROVE  /\ PendingOf(Resume(fs)) = PendingOf(fs)
         /\ FunctionOutside(fs) => FunctionOutside(Resume(fs))
<1>. DEFINE pc == After[Last(fs).pc]
            fr == [Last(fs) EXCEPT !.pc = pc]
<1>1. /\ fs # <<>> /\ Last(fs) \in Frames /\ Last(fs) = fs[Len(fs)] /\ Len(fs) \in DOMAIN fs
      /\ Len(fs) \in Nat /\ Last(fs).pc \in StmtPoints /\ pc \in ControlPoints
  BY ResumeFrames, LastFrame DEF At, ControlPoints, StmtPoints
<1>2. Resume(fs) = [fs EXCEPT ![Len(fs)] = fr]
  BY <1>1, ResumeFrames DEF SetPc
<1>3. fr \in Frames /\ fr.pc = pc /\ fr.els = Last(fs).els /\ fr.join = Last(fs).join
  BY <1>1 DEF Frames
<1>4. Pending(fr) = Pending(Last(fs))
  BY <1>1, <1>3 DEF Pending, After, StmtPoints
<1>5. PendingOf(Resume(fs)) = PendingOf(fs)
  <2>. HIDE DEF fr
  <2>1. PendingOf([fs EXCEPT ![Len(fs)] = fr]) = PendingOf(Front(fs)) \cup Pending(fr)
    BY <1>1, <1>3, PendingReplaced
  <2>2. PendingOf(fs) = PendingOf(Front(fs)) \cup Pending(Last(fs))
    BY <1>1, PendingSplit
  <2>. QED  BY <1>2, <1>4, <2>1, <2>2
<1>6. pc \in {"FuncBody", "FuncEnd"} => Last(fs).pc = "FuncBody"
  BY <1>1 DEF After, StmtPoints
<1>7. FunctionOutside(fs) => FunctionOutside(Resume(fs))
  BY <1>1, <1>2, <1>3, <1>6, ReplacedFrames DEF FunctionOutside
<1>. QED  BY <1>5, <1>7

\* Control points of a frame that has created no blocks to come back to.
PlainPoints == ExpPoints \cup {"Seq"}

(* A new frame that has created no blocks leaves the pending ones.         *)
LEMMA PendingEntered ==
  ASSUME NEW fs \in Seq(Frames), At(fs, StmtPoints), NEW fr \in Frames, fr.pc \in PlainPoints
  PROVE  /\ PendingOf(Enter(fs, fr)) = PendingOf(fs) /\ Enter(fs, fr) # <<>>
         /\ FunctionOutside(fs) => FunctionOutside(Enter(fs, fr))
<1>1. Resume(fs) \in Seq(Frames) /\ Len(Resume(fs)) = Len(fs) /\ Len(fs) \in Nat
  BY EnterFrames
<1>2. Pending(fr) = {} /\ fr.pc \notin {"FuncBody", "FuncEnd"}
  BY DEF Pending, PlainPoints, ExpPoints
<1>3. PendingOf(Enter(fs, fr)) = PendingOf(fs)
  <2>1. PendingOf(Append(Resume(fs), fr)) = PendingOf(Resume(fs)) \cup Pending(fr)
    BY <1>1, PendingAppended
  <2>2. PendingOf(Resume(fs)) = PendingOf(fs)
    BY PendingResumed
  <2>. QED  BY <1>2, <2>1, <2>2 DEF Enter
<1>4. /\ Enter(fs, fr) \in Seq(Frames) /\ Len(Enter(fs, fr)) = Len(fs) + 1
      /\ \A i \in 1 .. Len(fs) : Enter(fs, fr)[i] = Resume(fs)[i]
      /\ Enter(fs, fr)[Len(fs) + 1] = fr
  BY EnterFrames
<1>5. /\ DOMAIN Enter(fs, fr) = 1 .. Len(fs) + 1 /\ DOMAIN Resume(fs) = 1 .. Len(fs)
      /\ Enter(fs, fr) # <<>>
  BY <1>1, <1>4
<1>6. FunctionOutside(Resume(fs)) => FunctionOutside(Enter(fs, fr))
  BY <1>1, <1>2, <1>4, <1>5 DEF FunctionOutside
<1>7. FunctionOutside(fs) => FunctionOutside(Resume(fs))
  BY PendingResumed
<1>. QED  BY <1>3, <1>5, <1>6, <1>7

(* Only the outermost frame is that of a function when one is removed ...  *)
LEMMA OutsideFront ==
  ASSUME NEW fs \in Seq(Frames), fs # <<>>, FunctionOutside(fs)
  PROVE  FunctionOutside(Front(fs))
<1>1. /\ DOMAIN Front(fs) = 1 .. Len(fs) - 1 /\ Len(fs) \in Nat /\ DOMAIN fs = 1 .. Len(fs)
      /\ \A i \in 1 .. Len(fs) - 1 : Front(fs)[i] = fs[i]
  BY FrontFrames, LastFrame
<1>. QED  BY <1>1 DEF FunctionOutside

(* ... and when the innermost one is replaced.                             *)
LEMMA OutsideReplaced ==
  ASSUME NEW fs \in Seq(Frames), fs # <<>>, FunctionOutside(fs),
         NEW fr \in Frames, fr.pc \notin {"FuncBody", "FuncEnd"}
  PROVE  FunctionOutside([fs EXCEPT ![Len(fs)] = fr])
  BY ReplacedFrames, LastFrame DEF FunctionOutside

(* Appending instructions opens no other block; a branch closes the        *)
(* current one.                                                            *)
LEMMA PutKeeps ==
  ASSUME blocks \in Seq(Blocks), NEW pending, OthersEnd(blocks, insert, pending),
         NEW new \in Seq(Instrs)
  PROVE  OthersEnd(Put(new), insert, pending)
  BY PutType DEF OthersEnd

(* A branch ends the current block and opens no other.                     *)
LEMMA BranchEnds ==
  ASSUME blocks \in Seq(Blocks), NEW pending, OthersEnd(blocks, insert, pending),
         NEW to \in Nat
  PROVE  /\ OthersEnd(Put(<<Jump("br", <<>>, <<to>>)>>), insert, pending)
         /\ HasTerminator(Put(<<Jump("br", <<>>, <<to>>)>>)[insert])
         /\ OthersEnd(BranchUnlessTerminated(to), insert, pending)
         /\ HasTerminator(BranchUnlessTerminated(to)[insert])
<1>. DEFINE br == Jump("br", <<>>, <<to>>)
<1>1. <<br>> \in Seq(Instrs) /\ insert \in DOMAIN blocks
  BY SomeInstrs DEF OthersEnd
<1>2. OthersEnd(Put(<<br>>), insert, pending)
  BY <1>1, PutKeeps
<1>3. HasTerminator(Put(<<br>>)[insert])
  <2>1. blocks[insert] \in Seq(Instrs) /\ br.op = "br"
    BY <1>1 DEF Blocks, Jump, Instr
  <2>2. Put(<<br>>)[insert] = blocks[insert] \o <<br>>
    BY <1>1, PutType
  <2>. HIDE DEF br
  <2>3. HasTerminator(blocks[insert] \o <<br>>)
    BY <2>1 DEF HasTerminator, Terminators
  <2>. QED  BY <2>2, <2>3
<1>. QED  BY <1>2, <1>3 DEF BranchUnlessTerminated
-----------------------------------------------------------------------------
(* OpenInv is kept by every step, one lemma for each group of actions.     *)
LEMMA OpenVisitExpOf ==
  ASSUME TypeInv, OpenInv, NEW kind,
         NEW pc \in {"ReturnExp", "CallExp", "IfCond", "Seq", "AssignExp"}, VisitExpOf(kind, pc)
  PROVE  OpenInv'
<1>1. At(frames, StmtPoints) /\ frames # <<>> /\ frames \in Seq(Frames) /\ cursor \in Nat
  BY DEF VisitExpOf, VisitStmt, At, TypeInv, TypeOK
<1>2. NewFrame(pc, 0) \in Frames /\ NewFrame(pc, 0).pc \in PlainPoints
  BY <1>1, NewFrameType DEF ControlPoints, StmtPoints, ExpPoints, PlainPoints
<1>3. PendingOf(frames') = PendingOf(frames) /\ FunctionOutside(frames')
  BY <1>1, <1>2, PendingEntered DEF VisitExpOf, OpenInv
<1>. QED  BY <1>1, <1>3 DEF VisitExpOf, OpenInv, BlocksTerminated

(* Declarations of variables.                                              *)
LEMMA OpenVisitDecl == ASSUME TypeInv, OpenInv, VisitDecl PROVE OpenInv'
<1>1. /\ At(frames, StmtPoints) /\ frames # <<>> /\ frames \in Seq(Frames) /\ cursor \in Nat
      /\ blocks \in Seq(Blocks) /\ OthersEnd(blocks, insert, PendingOf(frames))
  BY DEF VisitDecl, VisitStmt, At, TypeInv, TypeOK, OpenInv
<1>2. PendingOf(frames') = PendingOf(frames) /\ FunctionOutside(frames')
  <2>1. NewFrame("DeclInit", 0) \in Frames /\ NewFrame("DeclInit", 0).pc \in PlainPoints
    BY <1>1, NewFrameType DEF ControlPoints, ExpPoints, PlainPoints
  <2>. QED  BY <1>1, <2>1, PendingEntered, PendingResumed DEF VisitDecl, OpenInv
<1>3. OthersEnd(blocks', insert, PendingOf(frames))
  <2>. DEFINE alloca == Access("alloca", <<>>,
                               LocalDecl(cursor, syntax[cursor].name, syntax[cursor].type))
  <2>1. blocks' = [blocks EXCEPT ![1] = <<alloca>> \o @]
    BY DEF VisitDecl
  <2>2. 1 \in DOMAIN blocks /\ blocks[1] \in Seq(Instrs)
    BY <1>1 DEF OthersEnd, Blocks
  <2>3. HasTerminator(blocks[1]) => HasTerminator(<<alloca>> \o blocks[1])
    <3>1. alloca \in Instrs
      BY <1>1, ReadingNode, NodeKinds, LocalDeclType, SomeInstrs DEF VisitDecl, VisitStmt, TypeInv
    <3>. HIDE DEF alloca
    <3>. QED  BY <2>2, <3>1 DEF HasTerminator
  <2>. HIDE DEF alloca
  <2>. QED  BY <1>1, <2>1, <2>2, <2>3 DEF OthersEnd
<1>. QED  BY <1>1, <1>2, <1>3 DEF VisitDecl, OpenInv, BlocksTerminated

(* The head of a loop: the block before it ends.                           *)
LEMMA OpenVisitWhile == ASSUME TypeInv, OpenInv, VisitWhile PROVE OpenInv'
<1>. DEFINE loop == Len(blocks) + 1
            put  == Put(<<Jump("br", <<>>, <<loop>>)>>)
<1>1. /\ At(frames, StmtPoints) /\ frames # <<>> /\ frames \in Seq(Frames) /\ cursor \in Nat
      /\ blocks \in Seq(Blocks) /\ OthersEnd(blocks, insert, PendingOf(frames)) /\ loop \in Nat
  BY DEF VisitWhile, VisitStmt, At, TypeInv, TypeOK, OpenInv
<1>2. PendingOf(frames') = PendingOf(frames) /\ FunctionOutside(frames')
  <2>. HIDE DEF loop
  <2>1. "WhileCond" \in ControlPoints /\ "WhileCond" \in PlainPoints
    BY DEF ControlPoints, ExpPoints, PlainPoints
  <2>2. NewFrame("WhileCond", loop) \in Frames /\ NewFrame("WhileCond", loop).pc \in PlainPoints
    BY <1>1, <2>1, NewFrameType
  <2>3. frames' = Enter(frames, NewFrame("WhileCond", loop))
    BY DEF VisitWhile, loop
  <2>. QED  BY <1>1, <2>2, <2>3, PendingEntered DEF OpenInv
<1>3. /\ OthersEnd(put, insert, PendingOf(frames)) /\ HasTerminator(put[insert])
      /\ put \in Seq(Blocks) /\ Len(put) = Len(blocks)
  BY <1>1, BranchEnds, SomeInstrs, PutType DEF OthersEnd
<1>4. blocks' = Append(put, <<>>) /\ insert' = loop
  BY DEF VisitWhile
<1>5. OthersEnd(blocks', insert', PendingOf(frames))
  <2>. HIDE DEF put
  <2>1. /\ DOMAIN put = 1 .. Len(blocks) /\ DOMAIN Append(put, <<>>) = 1 .. loop
        /\ \A b \in 1 .. Len(blocks) : Append(put, <<>>)[b] = put[b]
    BY <1>1, <1>3
  <2>2. \A b \in 1 .. loop : b # loop => b \in 1 .. Len(blocks)
    BY <1>1
  <2>3. 1 .. Len(blocks) \subseteq 1 .. loop /\ loop \in 1 .. loop
    BY <1>1
  <2>. HIDE DEF loop
  <2>. QED  BY <1>3, <1>4, <2>1, <2>2, <2>3 DEF OthersEnd
<1>. QED  BY <1>1, <1>2, <1>5 DEF VisitWhile, OpenInv, BlocksTerminated

(* A statement that ends closes the current block if it goes on in another *)
(* one.                                                                    *)
LEMMA OpenEndVisit ==
  ASSUME TypeInv, OpenInv, EndSeq \/ VisitElse \/ EndIf \/ EndWhile
  PROVE  OpenInv'
<1>. DEFINE fr == Last(frames)  outer == PendingOf(Front(frames))
<1>1. /\ frames # <<>> /\ frames \in Seq(Frames) /\ fr \in Frames /\ Front(frames) \in Seq(Frames)
      /\ blocks \in Seq(Blocks) /\ OthersEnd(blocks, insert, outer \cup Pending(fr))
      /\ fr.loop \in Nat /\ fr.els \in Nat /\ fr.join \in Nat
      /\ FunctionOutside(frames) /\ BlocksTerminated /\ module' = module
  <2>1. frames # <<>> /\ module' = module
    BY DEF EndSeq, VisitElse, EndIf, EndWhile, EndVisit, At
  <2>. QED  BY <2>1, LastFrame, FrontFrames, PendingSplit DEF TypeInv, TypeOK, OpenInv, Frames
<1>2. CASE EndSeq
  <2>1. Pending(fr) = {}
    BY <1>2 DEF EndSeq, EndVisit, At, Pending
  <2>. QED  BY <1>1, <1>2, <2>1, OutsideFront DEF EndSeq, OpenInv, BlocksTerminated
<1>3. CASE VisitElse
  <2>. DEFINE new == [fr EXCEPT !.pc = "IfElse"]
  <2>1. fr.pc = "ThenEnd" /\ fr.els # 0
    BY <1>3 DEF VisitElse, EndVisit, At
  <2>2. new \in Frames /\ Pending(new) = {fr.join} /\ new.pc \notin {"FuncBody", "FuncEnd"}
    BY <1>1 DEF Frames, Pending, ControlPoints, StmtPoints
  <2>3. frames' = [frames EXCEPT ![Len(frames)] = new]
    BY <1>1, <1>3, LastFrame DEF VisitElse, SetPc
  <2>4. PendingOf(frames') = outer \cup {fr.join} /\ FunctionOutside(frames')
    BY <1>1, <2>2, <2>3, PendingReplaced, OutsideReplaced
  <2>5. Pending(fr) = {fr.join, fr.els}
    BY <2>1 DEF Pending
  <2>6. OthersEnd(blocks', insert', outer \cup {fr.join})
    <3>1. /\ OthersEnd(blocks', insert, outer \cup Pending(fr)) /\ HasTerminator(blocks'[insert])
          /\ insert' = fr.els
      BY <1>1, <1>3, BranchEnds DEF VisitElse
    <3>. QED  BY <2>5, <3>1 DEF OthersEnd
  <2>. QED  BY <1>1, <2>4, <2>6 DEF OpenInv, BlocksTerminated
<1>4. CASE EndIf \/ EndWhile
  <2>1. Pending(fr) = {fr.join}
    BY <1>4 DEF EndIf, EndWhile, EndVisit, At, Pending
  <2>2. /\ OthersEnd(blocks', insert, outer \cup Pending(fr)) /\ HasTerminator(blocks'[insert])
        /\ insert' = fr.join /\ frames' = Front(frames)
    BY <1>1, <1>4, BranchEnds DEF EndIf, EndWhile
  <2>3. OthersEnd(blocks', insert', outer)
    BY <2>1, <2>2 DEF OthersEnd
  <2>. QED  BY <1>1, <2>2, <2>3, OutsideFront DEF OpenInv, BlocksTerminated
<1>. QED  BY <1>2, <1>3, <1>4
(* An expression only appends to the current block.                        *)
LEMMA OpenGenerate ==
  ASSUME TypeInv, OpenInv, frames # <<>>,
         NEW vals \in Seq(IRTypes), NEW instrs \in Seq(Instrs), Generate(vals, instrs)
  PROVE  OpenInv'
<1>1. OthersEnd(blocks', insert, PendingOf(frames))
  BY PutKeeps DEF Generate, TypeInv, TypeOK, OpenInv
<1>. QED  BY <1>1 DEF Generate, OpenInv, BlocksTerminated

(* A failed assertion leaves the frames and the blocks as they are.        *)
LEMMA OpenAbort == ASSUME OpenInv, Abort PROVE OpenInv'
  BY DEF OpenInv, Abort, BlocksTerminated

(* The end of a statement that contains an expression.                     *)
LEMMA OpenEndStmtExp ==
  ASSUME TypeInv, OpenInv, NEW pc \in ExpPoints, NEW instrs \in Seq(Instrs), EndStmtExp(pc, instrs)
  PROVE  OpenInv'
<1>1. /\ frames # <<>> /\ frames \in Seq(Frames) /\ Last(frames).pc \in ExpPoints
      /\ blocks \in Seq(Blocks) /\ OthersEnd(blocks, insert, PendingOf(frames))
      /\ FunctionOutside(frames) /\ BlocksTerminated /\ module' = module
  BY DEF EndStmtExp, EndExp, At, TypeInv, TypeOK, OpenInv
<1>2. Pending(Last(frames)) = {}
  BY <1>1 DEF Pending, ExpPoints
<1>3. PendingOf(Front(frames)) = PendingOf(frames) /\ FunctionOutside(Front(frames))
  BY <1>1, <1>2, PendingSplit, OutsideFront
<1>4. OthersEnd(blocks', insert', PendingOf(frames)) /\ frames' = Front(frames)
  BY <1>1, PutKeeps DEF EndStmtExp
<1>. QED  BY <1>1, <1>3, <1>4 DEF OpenInv, BlocksTerminated

(* The blocks that a condition creates, apart from the one to insert into, *)
(* are those that its frame keeps.                                         *)
LEMMA OpenEndCond ==
  ASSUME TypeInv, OpenInv, EndIfCond \/ EndWhileCond
  PROVE  OpenInv'
<1>. DEFINE outer == PendingOf(Front(frames))  len == Len(blocks)
<1>1. /\ frames # <<>> /\ frames \in Seq(Frames) /\ Last(frames) \in Frames
      /\ Last(frames) = frames[Len(frames)]
      /\ blocks \in Seq(Blocks) /\ len \in Nat /\ DOMAIN blocks = 1 .. len
      /\ OthersEnd(blocks, insert, outer) /\ insert \in DOMAIN blocks
      /\ FunctionOutside(frames) /\ BlocksTerminated /\ module' = module /\ values # <<>>
  <2>1. \E pc \in {"IfCond", "WhileCond"} : EndExp(pc)
    BY DEF EndIfCond, EndWhileCond
  <2>2. frames # <<>> /\ Pending(Last(frames)) = {} /\ module' = module /\ values # <<>>
    BY <2>1 DEF EndExp, At, Pending
  <2>3. PendingOf(frames) = outer
    BY <2>2, PendingSplit DEF TypeInv, TypeOK
  <2>. QED  BY <2>2, <2>3, LastFrame DEF TypeInv, TypeOK, OpenInv, OthersEnd
<1>2. ASSUME NEW to \in Seq(Nat), NEW n \in Nat, NEW new \in [1 .. n -> {<<>>}],
             blocks' = Put(CondBranch(to)) \o new,
             NEW fr \in Frames, frames' = [frames EXCEPT ![Len(frames)] = fr],
             fr.pc \notin {"FuncBody", "FuncEnd"},
             insert' \in len + 1 .. len + n,
             Pending(fr) = (len + 1 .. len + n) \ {insert'}
      PROVE  OpenInv'
  <2>1. /\ blocks' \in Seq(Blocks) /\ Len(blocks') = len + n /\ HasTerminator(blocks'[insert])
        /\ \A b \in DOMAIN blocks : b # insert => blocks'[b] = blocks[b]
    BY <1>1, <1>2, CondBlocks DEF TypeInv
  <2>2. DOMAIN blocks' = 1 .. len + n
    BY <2>1
  <2>3. PendingOf(frames') = outer \cup Pending(fr) /\ FunctionOutside(frames')
    BY <1>1, <1>2, PendingReplaced, OutsideReplaced
  <2>4. OthersEnd(blocks', insert', outer \cup Pending(fr))
    <3>. DEFINE pending == Pending(fr)
    <3>1. pending = (len + 1 .. len + n) \ {insert'}
      BY <1>2
    <3>. HIDE DEF pending, outer
    <3>2. insert' \in DOMAIN blocks' /\ outer \cup pending \subseteq DOMAIN blocks'
      <4>1. outer \subseteq 1 .. len /\ len \in Nat
        BY <1>1 DEF OthersEnd
      <4>2. 1 .. len \subseteq DOMAIN blocks' /\ len + 1 .. len + n \subseteq DOMAIN blocks'
        <5>. HIDE DEF len
        <5>. QED  BY <1>2, <2>2, <4>1
      <4>3. insert' \in len + 1 .. len + n /\ pending \subseteq len + 1 .. len + n
        BY <1>2, <3>1
      <4>. HIDE DEF len
      <4>. QED  BY <4>1, <4>2, <4>3
    <3>3. ASSUME NEW b \in DOMAIN blocks', b # insert', b \notin outer \cup pending
          PROVE  HasTerminator(blocks'[b])
      <4>1. b \in DOMAIN blocks
        BY <1>1, <1>2, <2>2, <3>1, <3>3
      <4>2. CASE b = insert
        BY <2>1, <4>2
      <4>3. CASE b # insert
        BY <1>1, <2>1, <3>3, <4>1, <4>3 DEF OthersEnd
      <4>. QED  BY <4>2, <4>3
    <3>. QED  BY <3>2, <3>3 DEF OthersEnd, pending
  <2>. QED  BY <1>1, <2>3, <2>4 DEF OpenInv, BlocksTerminated
<1>3. CASE EndIfCond
  <2>. DEFINE else == syntax[Last(frames).node].else
              then == len + 1
              els  == IF else THEN then + 1 ELSE 0
              join == IF else THEN then + 2 ELSE then + 1
              fr   == [Last(frames) EXCEPT !.pc = "IfThen", !.els = els, !.join = join]
              to   == <<then, IF else THEN els ELSE join>>
              n    == IF else THEN 3 ELSE 2
              new  == [b \in 1 .. n |-> <<>>]
  <2>1. /\ frames' = [frames EXCEPT ![Len(frames)] = fr] /\ insert' = then
        /\ blocks' = Put(CondBranch(to)) \o new
    BY <1>1, <1>3 DEF EndIfCond
  <2>2. els \in Nat /\ join \in Nat
    BY <1>1
  <2>3. fr \in Frames
    <3>. HIDE DEF els, join
    <3>. QED  BY <1>1, <2>2, BodyFrame
  <2>4. fr.pc = "IfThen" /\ fr.els = els /\ fr.join = join
    BY <1>1 DEF Frames
  <2>5. Pending(fr) = (len + 1 .. len + n) \ {then}
    <3>1. Pending(fr) = {join} \cup ({els} \ {0})
      <4>. HIDE DEF fr, els, join
      <4>. QED  BY <2>4 DEF Pending
    <3>2. {join} \cup ({els} \ {0}) = (len + 1 .. len + n) \ {then}
      BY <1>1
    <3>. QED  BY <3>1, <3>2
  <2>6. to \in Seq(Nat) /\ n \in Nat /\ new \in [1 .. n -> {<<>>}] /\ then \in len + 1 .. len + n
    BY <1>1
  <2>. HIDE DEF fr, to, n, new, then
  <2>. QED  BY <1>2, <2>1, <2>3, <2>4, <2>5, <2>6
<1>4. CASE EndWhileCond
  <2>. DEFINE body == len + 1
              join == len + 2
              fr   == [Last(frames) EXCEPT !.pc = "WhileBody", !.join = join]
              to   == <<body, join>>
              new  == << <<>>, <<>> >>
  <2>1. /\ frames' = [frames EXCEPT ![Len(frames)] = fr] /\ insert' = body
        /\ blocks' = Put(CondBranch(to)) \o new
    BY <1>1, <1>4 DEF EndWhileCond
  <2>2. join \in Nat /\ 0 \in Nat
    BY <1>1
  <2>3. fr \in Frames
    <3>. HIDE DEF join
    <3>. QED  BY <1>1, <2>2, BodyFrame
  <2>4. fr.pc = "WhileBody" /\ fr.join = join
    BY <1>1 DEF Frames
  <2>5. Pending(fr) = (len + 1 .. len + 2) \ {body}
    <3>1. Pending(fr) = {join}
      <4>. HIDE DEF fr, join
      <4>. QED  BY <2>4 DEF Pending
    <3>2. {join} = (len + 1 .. len + 2) \ {body}
      BY <1>1
    <3>. QED  BY <3>1, <3>2
  <2>6. to \in Seq(Nat) /\ new \in [1 .. 2 -> {<<>>}] /\ body \in len + 1 .. len + 2
    BY <1>1
  <2>. HIDE DEF fr, to, new, body
  <2>. QED  BY <1>2, <2>1, <2>3, <2>4, <2>5, <2>6
<1>. QED  BY <1>3, <1>4

(* A function begins with one block, the current one, and ends when no     *)
(* statement is active, so that only the current block can still be open.  *)
LEMMA OpenFunctions ==
  ASSUME TypeInv, OpenInv, BeginFunction \/ EndFunction \/ Finish
  PROVE  OpenInv'
<1>1. CASE BeginFunction
  <2>1. CASE syntax[cursor].def.body
    <3>. DEFINE fr == NewFrame("FuncBody", 0)
    <3>1. blocks' = << <<>> >> /\ insert' = 1 /\ frames' = <<fr>> /\ module' = module
      BY <1>1, <2>1 DEF BeginFunction
    <3>2. Pending(fr) = {}
      BY DEF Pending, NewFrame
    <3>. HIDE DEF fr
    <3>3. PendingOf(<<fr>>) = {} /\ FunctionOutside(<<fr>>)
      BY <3>2 DEF PendingOf, FunctionOutside
    <3>4. OthersEnd(<< <<>> >>, 1, {})
      BY DEF OthersEnd
    <3>. QED  BY <3>1, <3>3, <3>4 DEF OpenInv, BlocksTerminated
  <2>2. CASE ~syntax[cursor].def.body
    BY <1>1, <2>2 DEF BeginFunction, OpenInv, BlocksTerminated
  <2>. QED  BY <2>1, <2>2
<1>2. CASE EndFunction
  <2>. DEFINE ret  == <<Instr("ret", <<"i32">>)>>
              body == IF HasTerminator(blocks[insert]) THEN blocks ELSE Put(ret)
  <2>1. /\ frames # <<>> /\ frames \in Seq(Frames) /\ Last(frames).pc = "FuncEnd"
        /\ blocks \in Seq(Blocks) /\ OthersEnd(blocks, insert, PendingOf(frames))
        /\ frames' = <<>> /\ module' = Append(module, [def |-> frames[1].node, blocks |-> body])
        /\ module \in Seq([def : Nat, blocks : Seq(Blocks)])
    BY <1>2 DEF EndFunction, At, TypeInv, TypeOK, OpenInv
  <2>2. Len(frames) = 1
    BY <2>1, LastFrame DEF FunctionOutside, OpenInv
  <2>3. PendingOf(frames) = {}
    <3>1. Pending(frames[1]) = {}
      BY <2>1, <2>2, LastFrame DEF Pending
    <3>. QED  BY <2>1, <2>2, <3>1 DEF PendingOf
  <2>4. \A b \in DOMAIN body : HasTerminator(body[b])
    <3>1. OthersEnd(blocks, insert, {})
      BY <2>1, <2>3
    <3>2. ret \in Seq(Instrs) /\ blocks[insert] \in Seq(Instrs)
      BY <2>1, <3>1, SomeInstrs DEF IRTypes, OthersEnd, Blocks
    <3>3. HasTerminator(blocks[insert] \o ret)
      <4>1. Instr("ret", <<"i32">>).op = "ret"
        BY DEF Instr
      <4>. QED  BY <3>2, <4>1 DEF HasTerminator, Terminators
    <3>. HIDE DEF ret
    <3>4. OthersEnd(Put(ret), insert, {}) /\ HasTerminator(Put(ret)[insert])
      BY <2>1, <3>1, <3>2, <3>3, PutKeeps, PutType DEF OthersEnd
    <3>. QED  BY <3>1, <3>4 DEF OthersEnd
  <2>. HIDE DEF body
  <2>5. BlocksTerminated'
    BY <2>1, <2>4 DEF BlocksTerminated, OpenInv
  <2>. QED  BY <2>1, <2>5 DEF OpenInv, FunctionOutside
<1>3. CASE Finish
  BY <1>3 DEF Finish, OpenInv, BlocksTerminated
<1>. QED  BY <1>1, <1>2, <1>3

(* The inductive invariant is kept by every step, ...                      *)
LEMMA OpenNext ==
  ASSUME TypeInv, InsertOK, OpenInv, [Next \/ Returned]_vars
  PROVE  OpenInv'
<1>1. CASE BeginFunction \/ EndFunction \/ Finish
  BY <1>1, OpenFunctions
<1>2. CASE NextExp
  BY <1>2, NextExpGenerates, OpenGenerate, OpenAbort
<1>3. CASE NextStmt
  <2>1. CASE VisitReturn \/ VisitCallStmt \/ VisitIf \/ VisitSeq
    BY <2>1, OpenVisitExpOf DEF VisitReturn, VisitCallStmt, VisitIf, VisitSeq
  <2>2. CASE VisitAssign
    BY <2>2, OpenAbort, OpenVisitExpOf DEF VisitAssign
  <2>3. CASE VisitDecl \/ VisitWhile
    BY <2>3, OpenVisitDecl, OpenVisitWhile
  <2>4. CASE EndSeq \/ VisitElse \/ EndIf \/ EndWhile
    BY <2>4, OpenEndVisit
  <2>5. CASE EndCallStmt \/ EndReturn \/ EndAssign \/ EndDeclInit
    BY <2>5, StmtExpInstrs, OpenEndStmtExp
  <2>6. CASE EndIfCond \/ EndWhileCond
    BY <2>6, OpenEndCond
  <2>. QED  BY <1>3, <2>1, <2>2, <2>3, <2>4, <2>5, <2>6 DEF NextStmt
<1>4. CASE UNCHANGED vars
  BY <1>4 DEF vars, genVars, OpenInv, BlocksTerminated
<1>. QED  BY <1>1, <1>2, <1>3, <1>4 DEF Next, Returned

-----------------------------------------------------------------------------
IInv == TypeInv /\ OpenInv

(* It holds when code generation starts, every step keeps it, ...          *)
LEMMA StartInv ==
  ASSUME syntax \in Seq(Nodes), Start
  PROVE  IInv
<1>1. TypeInv
  BY DEF Start, TypeInv, TypeOK, NodesOK
<1>2. OpenInv
  BY DEF Start, OpenInv, FunctionOutside, BlocksTerminated
<1>. QED  BY <1>1, <1>2 DEF IInv

LEMMA StepInv == ASSUME IInv, [Next \/ Returned]_vars PROVE IInv'
<1>1. InsertOK
  BY DEF IInv, OpenInv, OthersEnd, InsertOK
<1>. QED  BY <1>1, TypeNext, OpenNext DEF IInv

(* ... and so it holds of every behaviour.                                 *)
LEMMA Inductive == Spec => []IInv
<1>1. Init => IInv
  BY StartInv, CodegenAssumption DEF Init
<1>. QED  BY <1>1, StepInv, PTL DEF Spec

(* Whatever the programs, the state of the code generator keeps its types: *)
(* blocks hold instructions, and the builder's state refers to nothing     *)
(* that is not there.                                                      *)
THEOREM TypeCorrect == Spec => []TypeOK
<1>1. IInv => TypeOK
  BY DEF IInv, TypeInv
<1>. QED  BY <1>1, Inductive, PTL

(* Whatever the programs, and however deep their statements nest, every    *)
(* block of a finished function ends in a terminator (Codegen.cpp:302-320, *)
(* 341-347, 426-428).                                                      *)
THEOREM AllBlocksTerminated == Spec => []BlocksTerminated
<1>1. IInv => BlocksTerminated
  BY DEF IInv, OpenInv
<1>. QED  BY <1>1, Inductive, PTL

-----------------------------------------------------------------------------
(* Storage                                                                 *)

Accesses == {"load", "store"}

Locals(decls) == {d \in decls : d.kind = "kLocal"}

\* The instruction allocates nothing, and accesses one of the variables.
Bound(i, locals) == i.op # "alloca" /\ (i.op \in Accesses => i.ref \in locals)

\* Allocations stand in the entry block, for declarations before node next.
InstrOK(i, b, locals, next) ==
  \/ Bound(i, locals)
  \/ i.op = "alloca" /\ b = 1 /\ i.ref \in VarDecls /\ i.ref.owner < next

AllocatedOnce(entry) ==
  \A i, j \in DOMAIN entry :
    entry[i].op = "alloca" /\ entry[j].op = "alloca" /\ entry[i].ref = entry[j].ref => i = j

\* The variable is allocated ahead of all other instructions.
AllocatedAhead(entry, d) ==
  \E j \in DOMAIN entry :
    /\ entry[j].op = "alloca" /\ entry[j].ref = d
    /\ \A k \in 1 .. j : entry[k].op = "alloca"

\* The blocks of a function in which the variables locals are declared.
StorageOK(bs, locals, next) ==
  /\ 1 \in DOMAIN bs
  /\ \A b \in DOMAIN bs : \A i \in DOMAIN bs[b] : InstrOK(bs[b][i], b, locals, next)
  /\ AllocatedOnce(bs[1])
  /\ \A d \in locals : AllocatedAhead(bs[1], d)

\* The variable that a declaration or assignment is going to store to.
TargetOK(program, fr, locals) ==
  /\ fr.pc = "DeclInit" =>
       LocalDecl(fr.node, program[fr.node].name, program[fr.node].type) \in locals
  /\ fr.pc = "AssignExp" => program[fr.node].decl \in locals

TargetsOK(program, fs, locals) == \A i \in DOMAIN fs : TargetOK(program, fs[i], locals)

StorageInv ==
  /\ frames # <<>> => StorageOK(blocks, Locals(symbols), cursor)
  /\ TargetsOK(syntax, frames, Locals(symbols))
  /\ StorageDominatesUses

-----------------------------------------------------------------------------
(* Blocks                                                                  *)

(* Instructions that allocate nothing are appended to the current block.   *)
LEMMA PutStorage ==
  ASSUME NEW locals, NEW next, StorageOK(blocks, locals, next),
         blocks \in Seq(Blocks), insert \in DOMAIN blocks,
         NEW new \in Seq(Instrs), \A i \in DOMAIN new : Bound(new[i], locals)
  PROVE  StorageOK(Put(new), locals, next)
<1>. DEFINE put == Put(new)  old == blocks[insert]
<1>1. /\ DOMAIN put = DOMAIN blocks /\ put[insert] = old \o new
      /\ \A b \in DOMAIN blocks : b # insert => put[b] = blocks[b]
  BY PutType
<1>2. old \in Seq(Instrs)
  BY DEF Blocks
<1>3. /\ \A i \in DOMAIN old : i \in DOMAIN (old \o new) /\ (old \o new)[i] = old[i]
      /\ \A i \in DOMAIN (old \o new) :
           i \in DOMAIN old \/ \E k \in DOMAIN new : (old \o new)[i] = new[k]
  <2>. HIDE DEF old
  <2>1. /\ DOMAIN old = 1 .. Len(old) /\ DOMAIN new = 1 .. Len(new)
        /\ DOMAIN (old \o new) = 1 .. Len(old) + Len(new)
        /\ Len(old) \in Nat /\ Len(new) \in Nat
    BY <1>2, ConcatProperties
  <2>2. \A i \in 1 .. Len(old) + Len(new) :
          (old \o new)[i] = IF i <= Len(old) THEN old[i] ELSE new[i - Len(old)]
    BY <1>2, ConcatProperties
  <2>3. ASSUME NEW i \in 1 .. Len(old) + Len(new), i \notin 1 .. Len(old)
        PROVE  i - Len(old) \in 1 .. Len(new) /\ (old \o new)[i] = new[i - Len(old)]
    BY <2>1, <2>2, <2>3
  <2>. QED  BY <2>1, <2>2, <2>3
<1>. DEFINE joined == old \o new
<1>4. /\ put[insert] = joined
      /\ \A i \in DOMAIN old : i \in DOMAIN joined /\ joined[i] = old[i]
      /\ \A i \in DOMAIN joined : ~Bound(joined[i], locals) => i \in DOMAIN old
  BY <1>1, <1>3
<1>. HIDE DEF put, joined
<1>5. ASSUME NEW b \in DOMAIN put, NEW i \in DOMAIN put[b]
      PROVE  InstrOK(put[b][i], b, locals, next)
  <2>1. CASE b # insert
    BY <1>1, <2>1 DEF StorageOK
  <2>2. CASE b = insert /\ Bound(put[b][i], locals)
    BY <2>2 DEF InstrOK
  <2>3. CASE b = insert /\ ~Bound(put[b][i], locals)
    BY <1>1, <1>4, <2>3 DEF StorageOK
  <2>. QED  BY <2>1, <2>2, <2>3
\* The entry block is as it was, or is continued without allocations.
<1>6. /\ 1 \in DOMAIN blocks
      /\ \A i \in DOMAIN blocks[1] : i \in DOMAIN put[1] /\ put[1][i] = blocks[1][i]
      /\ \A i \in DOMAIN put[1] : put[1][i].op = "alloca" => i \in DOMAIN blocks[1]
  <2>1. 1 \in DOMAIN blocks
    BY DEF StorageOK
  <2>2. CASE insert # 1
    BY <1>1, <2>1, <2>2
  <2>3. CASE insert = 1
    BY <1>4, <2>1, <2>3 DEF Bound
  <2>. QED  BY <2>1, <2>2, <2>3
<1>7. AllocatedOnce(put[1])
  BY <1>6 DEF StorageOK, AllocatedOnce
<1>8. ASSUME NEW d \in locals PROVE AllocatedAhead(put[1], d)
  <2>1. PICK j \in DOMAIN blocks[1] :
               /\ blocks[1][j].op = "alloca" /\ blocks[1][j].ref = d
               /\ \A k \in 1 .. j : blocks[1][k].op = "alloca"
    BY DEF StorageOK, AllocatedAhead
  <2>2. blocks[1] \in Seq(Instrs)
    BY <1>6 DEF Blocks
  <2>3. 1 .. j \subseteq DOMAIN blocks[1]
    BY <2>2
  <2>. QED  BY <1>6, <2>1, <2>3 DEF AllocatedAhead
<1>. QED  BY <1>1, <1>5, <1>6, <1>7, <1>8 DEF StorageOK, put

(* Empty blocks are added.                                                 *)
LEMMA MoreBlocks ==
  ASSUME NEW locals, NEW next, NEW bs, StorageOK(bs, locals, next),
         NEW more, DOMAIN bs \subseteq DOMAIN more,
         \A b \in DOMAIN bs : more[b] = bs[b],
         \A b \in DOMAIN more : b \notin DOMAIN bs => more[b] = <<>>
  PROVE  StorageOK(more, locals, next)
<1>1. \A b \in DOMAIN more : b \in DOMAIN bs \/ DOMAIN more[b] = {}
  OBVIOUS
<1>. QED  BY <1>1 DEF StorageOK

(* Later nodes, with the same variables.                                   *)
LEMMA LaterStorage ==
  ASSUME NEW locals, NEW next \in Nat, NEW bs, StorageOK(bs, locals, next)
  PROVE  StorageOK(bs, locals, next + 1)
<1>1. \A d \in VarDecls : d.owner < next => d.owner < next + 1
  BY DEF VarDecls
<1>. QED  BY <1>1 DEF StorageOK, InstrOK

(* A variable that is declared at the current node is allocated ahead of   *)
(* everything else.                                                        *)
LEMMA AllocateStorage ==
  ASSUME NEW locals, NEW next \in Nat, StorageOK(blocks, locals, next),
         blocks \in Seq(Blocks), NEW d \in VarDecls, d.owner = next,
         NEW i, i = Access("alloca", <<>>, d)
  PROVE  StorageOK([blocks EXCEPT ![1] = <<i>> \o @], locals \cup {d}, next + 1)
<1>. DEFINE old == blocks[1]  entry == <<i>> \o old
            bs == [blocks EXCEPT ![1] = entry]
<1>1. /\ i \in Instrs /\ i.op = "alloca" /\ i.ref = d
  BY SomeInstrs DEF Access, Instr
<1>2. 1 \in DOMAIN blocks /\ old \in Seq(Instrs)
  BY DEF StorageOK, Blocks
<1>3. /\ DOMAIN bs = DOMAIN blocks /\ bs[1] = entry
      /\ \A b \in DOMAIN blocks : b # 1 => bs[b] = blocks[b]
  BY <1>2
<1>. HIDE DEF bs
<1>4. /\ Len(old) \in Nat /\ DOMAIN old = 1 .. Len(old) /\ DOMAIN entry = 1 .. Len(old) + 1
      /\ entry[1] = i
      /\ \A k \in 2 .. Len(old) + 1 : k - 1 \in DOMAIN old /\ entry[k] = old[k - 1]
  <2>. HIDE DEF old
  <2>1. <<i>> \in Seq(Instrs) /\ Len(<<i>>) = 1 /\ <<i>>[1] = i
    BY <1>1
  <2>2. /\ Len(old) \in Nat /\ DOMAIN old = 1 .. Len(old)
        /\ entry \in Seq(Instrs) /\ Len(entry) = 1 + Len(old)
        /\ \A k \in 1 .. 1 + Len(old) : entry[k] = IF k <= 1 THEN <<i>>[k] ELSE old[k - 1]
    <3>. HIDE DEF entry
    <3>1. \A s, t \in Seq(Instrs) :
            /\ s \o t \in Seq(Instrs) /\ Len(s \o t) = Len(s) + Len(t)
            /\ \A k \in 1 .. Len(s) + Len(t) : (s \o t)[k] = IF k <= Len(s) THEN s[k] ELSE t[k - Len(s)]
      BY ConcatProperties
    <3>. QED  BY <1>2, <2>1, <3>1 DEF entry
  <2>. HIDE DEF entry
  <2>. QED  BY <2>1, <2>2
<1>. HIDE DEF old, entry
<1>5. \A k \in DOMAIN entry : k = 1 \/ k \in 2 .. Len(old) + 1
  BY <1>4
<1>6. \A k \in DOMAIN old : InstrOK(old[k], 1, locals, next)
  BY <1>2 DEF StorageOK, old
<1>7. ASSUME NEW b \in DOMAIN bs, NEW k \in DOMAIN bs[b]
      PROVE  InstrOK(bs[b][k], b, locals \cup {d}, next + 1)
  <2>1. InstrOK(i, 1, locals \cup {d}, next + 1)
    BY <1>1 DEF InstrOK
  <2>2. \A e \in VarDecls : e.owner < next => e.owner < next + 1
    BY DEF VarDecls
  <2>3. \A j, c : InstrOK(j, c, locals, next) => InstrOK(j, c, locals \cup {d}, next + 1)
    BY <2>2 DEF InstrOK, Bound
  <2>. QED  BY <1>3, <1>4, <1>5, <1>6, <2>1, <2>3 DEF StorageOK
<1>8. AllocatedOnce(entry)
  <2>1. \A k \in DOMAIN old : old[k].op = "alloca" => old[k].ref # d
    BY <1>6 DEF InstrOK, Bound
  <2>2. AllocatedOnce(old)
    BY DEF StorageOK, old
  <2>3. ASSUME NEW k \in DOMAIN entry, NEW j \in DOMAIN entry, k # 1, j # 1,
               entry[k].op = "alloca", entry[j].op = "alloca", entry[k].ref = entry[j].ref
        PROVE  k = j
    <3>1. k - 1 = j - 1
      BY <1>4, <1>5, <2>2, <2>3 DEF AllocatedOnce
    <3>. QED  BY <1>4, <2>3, <3>1
  <2>4. ASSUME NEW k \in DOMAIN entry, k # 1, entry[k].op = "alloca" PROVE entry[k].ref # d
    BY <1>4, <1>5, <2>1, <2>4
  <2>. QED  BY <1>1, <1>4, <2>3, <2>4 DEF AllocatedOnce
<1>9. ASSUME NEW e \in locals \cup {d} PROVE AllocatedAhead(entry, e)
  <2>1. CASE e = d
    BY <1>1, <1>4, <2>1 DEF AllocatedAhead
  <2>2. CASE e \in locals
    <3>1. PICK j \in DOMAIN old : /\ old[j].op = "alloca" /\ old[j].ref = e
                                  /\ \A k \in 1 .. j : old[k].op = "alloca"
      BY <2>2 DEF StorageOK, AllocatedAhead, old
    <3>2. j + 1 \in DOMAIN entry /\ entry[j + 1] = old[j]
      BY <1>4
    <3>3. ASSUME NEW k \in 1 .. j + 1 PROVE entry[k].op = "alloca"
      <4>1. CASE k = 1
        BY <1>1, <1>4, <4>1
      <4>2. CASE k # 1
        <5>1. k \in 2 .. Len(old) + 1 /\ k - 1 \in 1 .. j
          BY <1>4, <4>2
        <5>. QED  BY <1>4, <3>1, <5>1
      <4>. QED  BY <4>1, <4>2
    <3>. QED  BY <3>1, <3>2, <3>3 DEF AllocatedAhead
  <2>. QED  BY <2>1, <2>2
<1>. QED  BY <1>2, <1>3, <1>7, <1>8, <1>9 DEF StorageOK, bs, entry, old

(* The storage of a complete function is as StorageDominatesUses says.     *)
LEMMA FinishedStorage ==
  ASSUME NEW locals, NEW next, NEW bs \in Seq(Blocks), StorageOK(bs, locals, next)
  PROVE  LET AllocasOf(d) ==
               {p \in UNION {{b} \X DOMAIN bs[b] : b \in DOMAIN bs} :
                  bs[p[1]][p[2]].op = "alloca" /\ bs[p[1]][p[2]].ref = d}
         IN  \A b \in DOMAIN bs : \A i \in DOMAIN bs[b] :
               bs[b][i].op \in {"load", "store"} =>
                 \E j \in DOMAIN bs[1] :
                   /\ AllocasOf(bs[b][i].ref) = {<<1, j>>}
                   /\ \A k \in 1 .. j : bs[1][k].op = "alloca"
<1>. DEFINE AllocasOf(d) ==
              {p \in UNION {{b} \X DOMAIN bs[b] : b \in DOMAIN bs} :
                 bs[p[1]][p[2]].op = "alloca" /\ bs[p[1]][p[2]].ref = d}
<1>. SUFFICES ASSUME NEW b \in DOMAIN bs, NEW i \in DOMAIN bs[b], bs[b][i].op \in {"load", "store"}
              PROVE  \E j \in DOMAIN bs[1] : /\ AllocasOf(bs[b][i].ref) = {<<1, j>>}
                                             /\ \A k \in 1 .. j : bs[1][k].op = "alloca"
  OBVIOUS
<1>. DEFINE d == bs[b][i].ref
<1>1. d \in locals
  BY DEF StorageOK, InstrOK, Bound, Accesses
<1>. HIDE DEF d
<1>2. PICK j \in DOMAIN bs[1] : /\ bs[1][j].op = "alloca" /\ bs[1][j].ref = d
                                /\ \A k \in 1 .. j : bs[1][k].op = "alloca"
  BY <1>1 DEF StorageOK, AllocatedAhead
<1>3. <<1, j>> \in AllocasOf(d)
  <2>1. 1 \in DOMAIN bs
    BY DEF StorageOK
  <2>2. <<1, j>> \in {1} \X DOMAIN bs[1] /\ <<1, j>>[1] = 1 /\ <<1, j>>[2] = j
    OBVIOUS
  <2>. QED  BY <1>2, <2>1, <2>2
<1>4. ASSUME NEW p \in AllocasOf(d) PROVE p = <<1, j>>
  <2>1. PICK c \in DOMAIN bs : p \in {c} \X DOMAIN bs[c]
    OBVIOUS
  <2>2. p = <<p[1], p[2]>> /\ p[1] = c /\ p[2] \in DOMAIN bs[c]
    BY <2>1
  <2>3. bs[c][p[2]].op = "alloca" /\ bs[c][p[2]].ref = d
    BY <2>2
  <2>4. c = 1
    BY <2>2, <2>3 DEF StorageOK, InstrOK, Bound
  <2>5. p[2] = j
    BY <1>2, <2>2, <2>3, <2>4 DEF StorageOK, AllocatedOnce
  <2>. QED  BY <2>2, <2>4, <2>5
<1>. HIDE DEF AllocasOf
<1>5. AllocasOf(d) = {<<1, j>>}
  BY <1>3, <1>4
<1>. QED  BY <1>2, <1>5 DEF d

-----------------------------------------------------------------------------
(* Frames                                                                  *)

(* More variables are declared.                                            *)
LEMMA MoreTargets ==
  ASSUME NEW prog, NEW fs, NEW locals, NEW more, locals \subseteq more, TargetsOK(prog, fs, locals)
  PROVE  TargetsOK(prog, fs, more)
  BY DEF TargetsOK, TargetOK

(* The innermost frame goes on, or returns.                                *)
LEMMA MovedTargets ==
  ASSUME NEW prog, NEW locals, NEW fs \in Seq(Frames), fs # <<>>, TargetsOK(prog, fs, locals)
  PROVE  /\ TargetsOK(prog, Front(fs), locals)
         /\ \A pc \in ControlPoints \ {"DeclInit", "AssignExp"} : TargetsOK(prog, SetPc(fs, pc), locals)
         /\ \A fr \in Frames : fr.pc \notin {"DeclInit", "AssignExp"} =>
              TargetsOK(prog, [fs EXCEPT ![Len(fs)] = fr], locals)
<1>1. TargetsOK(prog, Front(fs), locals)
  <2>1. Front(fs) \in Seq(Frames) /\ Len(Front(fs)) = Len(fs) - 1 /\ Len(fs) \in Nat
    BY FrontFrames, LastFrame
  <2>2. \A i \in DOMAIN Front(fs) : Front(fs)[i] = fs[i] /\ i \in DOMAIN fs
    BY <2>1, FrontFrames
  <2>. QED  BY <2>2 DEF TargetsOK
<1>2. ASSUME NEW fr \in Frames, fr.pc \notin {"DeclInit", "AssignExp"}
      PROVE  TargetsOK(prog, [fs EXCEPT ![Len(fs)] = fr], locals)
  <2>1. TargetOK(prog, fr, locals)
    BY <1>2 DEF TargetOK
  <2>. QED  BY <1>2, <2>1, ReplacedFrames, LastFrame DEF TargetsOK
<1>3. ASSUME NEW pc \in ControlPoints \ {"DeclInit", "AssignExp"}
      PROVE  TargetsOK(prog, SetPc(fs, pc), locals)
  <2>1. TargetOK(prog, [Last(fs) EXCEPT !.pc = pc], locals)
    <3>1. [Last(fs) EXCEPT !.pc = pc].pc = pc
      BY LastFrame DEF Frames
    <3>. QED  BY <3>1 DEF TargetOK
  <2>. QED  BY <2>1, SetPcFrames, LastFrame DEF TargetsOK
<1>. QED  BY <1>1, <1>2, <1>3

(* A statement is started.                                                 *)
LEMMA EnteredTargets ==
  ASSUME NEW prog, NEW locals, NEW fs \in Seq(Frames), At(fs, StmtPoints), TargetsOK(prog, fs, locals)
  PROVE  /\ TargetsOK(prog, Resume(fs), locals)
         /\ \A fr \in Frames : TargetOK(prog, fr, locals) => TargetsOK(prog, Enter(fs, fr), locals)
<1>1. TargetsOK(prog, Resume(fs), locals)
  <2>1. fs # <<>> /\ Resume(fs) = SetPc(fs, After[Last(fs).pc])
        /\ After[Last(fs).pc] \in ControlPoints \ {"DeclInit", "AssignExp"}
    BY ResumeFrames DEF ControlPoints, EndPoints, StmtPoints
  <2>. QED  BY <2>1, MovedTargets
<1>2. ASSUME NEW fr \in Frames, TargetOK(prog, fr, locals)
      PROVE  TargetsOK(prog, Enter(fs, fr), locals)
  BY <1>1, <1>2, EnterFrames DEF TargetsOK
<1>. QED  BY <1>1, <1>2

-----------------------------------------------------------------------------
(* The invariant, one lemma for each group of actions.                     *)

LocalsNow == Locals(symbols)

(* The functions that are complete stay as they are.                       *)
LEMMA SameModule == ASSUME StorageInv, module' = module PROVE StorageDominatesUses'
  BY DEF StorageInv, StorageDominatesUses

(* Functions begin with no variables, and end with the storage they have.  *)
LEMMA StorageFunctions ==
  ASSUME TypeInv, InsertOK, StorageInv, BeginFunction \/ EndFunction \/ Finish
  PROVE  StorageInv'
<1>1. CASE BeginFunction
  <2>1. CASE syntax[cursor].def.body
    <3>. DEFINE fr == NewFrame("FuncBody", 0)
    <3>1. /\ blocks' = << <<>> >> /\ frames' = <<fr>> /\ module' = module /\ syntax' = syntax
          /\ symbols' = ParamDecls(cursor, syntax[cursor].def)
      BY <1>1, <2>1 DEF BeginFunction
    <3>2. Locals(symbols') = {}
      BY <3>1 DEF Locals, ParamDecls
    <3>3. StorageOK(<< <<>> >>, {}, cursor')
      BY DEF StorageOK, AllocatedOnce
    <3>4. TargetsOK(syntax, <<fr>>, {})
      <4>1. fr.pc = "FuncBody"
        BY DEF NewFrame
      <4>. HIDE DEF fr
      <4>. QED  BY <4>1 DEF TargetsOK, TargetOK
    <3>. HIDE DEF fr
    <3>5. StorageDominatesUses'
      BY <3>1, SameModule
    <3>. QED  BY <3>1, <3>2, <3>3, <3>4, <3>5 DEF StorageInv
  <2>2. CASE ~syntax[cursor].def.body
    <3>1. frames = <<>> /\ frames' = frames /\ module' = module /\ syntax' = syntax /\ symbols' = symbols
      BY <1>1, <2>2 DEF BeginFunction
    <3>. QED  BY <3>1 DEF StorageInv, StorageDominatesUses
  <2>. QED  BY <2>1, <2>2
<1>2. CASE EndFunction
  <2>. DEFINE ret  == <<Instr("ret", <<"i32">>)>>
              body == IF HasTerminator(blocks[insert]) THEN blocks ELSE Put(ret)
  <2>1. /\ frames # <<>> /\ blocks \in Seq(Blocks) /\ insert \in DOMAIN blocks
        /\ frames' = <<>> /\ module' = Append(module, [def |-> frames[1].node, blocks |-> body])
        /\ module \in Seq([def : Nat, blocks : Seq(Blocks)])
        /\ StorageOK(blocks, LocalsNow, cursor)
    BY <1>2 DEF EndFunction, At, TypeInv, TypeOK, InsertOK, StorageInv, LocalsNow
  <2>2. ret \in Seq(Instrs) /\ \A i \in DOMAIN ret : Bound(ret[i], LocalsNow)
    <3>1. ret \in Seq(Instrs)
      BY SomeInstrs DEF IRTypes
    <3>2. Instr("ret", <<"i32">>).op = "ret"
      BY DEF Instr
    <3>. QED  BY <3>1, <3>2 DEF Bound, Accesses
  <2>. HIDE DEF ret
  <2>3. Put(ret) \in Seq(Blocks) /\ StorageOK(Put(ret), LocalsNow, cursor)
    BY <2>1, <2>2, PutType, PutStorage
  <2>4. body \in Seq(Blocks) /\ StorageOK(body, LocalsNow, cursor)
    BY <2>1, <2>3
  <2>. HIDE DEF body
  <2>5. StorageDominatesUses'
    <3>1. DOMAIN module' = DOMAIN module \cup {Len(module) + 1}
      BY <2>1
    <3>2. \A f \in DOMAIN module : module'[f] = module[f]
      BY <2>1
    <3>3. module'[Len(module) + 1].blocks = body
      BY <2>1
    <3>4. StorageDominatesUses
      BY DEF StorageInv
    <3>. QED  BY <2>4, <3>1, <3>2, <3>3, <3>4, FinishedStorage DEF StorageDominatesUses
  <2>. QED  BY <2>1, <2>5 DEF StorageInv, TargetsOK
<1>3. CASE Finish
  BY <1>3 DEF Finish, StorageInv, StorageDominatesUses
<1>. QED  BY <1>1, <1>2, <1>3

(* A failed assertion changes nothing.                                     *)
LEMMA StorageAbort == ASSUME StorageInv, Abort PROVE StorageInv'
  BY DEF Abort, StorageInv, StorageDominatesUses

(* A statement that first visits an expression; an assignment only if its  *)
(* variable has storage.                                                   *)
LEMMA StorageVisitExpOf ==
  ASSUME TypeInv, StorageInv, NEW kind,
         NEW pc \in {"ReturnExp", "CallExp", "IfCond", "Seq", "AssignExp"},
         pc = "AssignExp" => syntax[cursor].decl \in LocalsNow, VisitExpOf(kind, pc)
  PROVE  StorageInv'
<1>1. /\ At(frames, StmtPoints) /\ frames # <<>> /\ cursor \in Nat /\ cursor' = cursor + 1
      /\ frames' = Enter(frames, NewFrame(pc, 0)) /\ frames \in Seq(Frames)
      /\ UNCHANGED <<syntax, symbols, blocks, module>>
  BY ReadingNode DEF VisitExpOf, VisitStmt, TypeInv, TypeOK, At
<1>2. NewFrame(pc, 0) \in Frames /\ TargetOK(syntax, NewFrame(pc, 0), LocalsNow)
  BY <1>1, NewFrameType DEF TargetOK, ControlPoints, StmtPoints, ExpPoints
<1>3. TargetsOK(syntax, frames', LocalsNow)
  BY <1>1, <1>2, EnteredTargets DEF StorageInv, LocalsNow
<1>4. StorageOK(blocks, LocalsNow, cursor')
  BY <1>1, LaterStorage DEF StorageInv, LocalsNow
<1>. QED  BY <1>1, <1>3, <1>4 DEF StorageInv, StorageDominatesUses, LocalsNow

(* A declaration allocates its variable, which is new.                     *)
LEMMA StorageVisitDecl == ASSUME TypeInv, StorageInv, VisitDecl PROVE StorageInv'
<1>. DEFINE node == syntax[cursor]
            decl == LocalDecl(cursor, node.name, node.type)
            i    == Access("alloca", <<>>, decl)
<1>1. /\ At(frames, StmtPoints) /\ frames # <<>> /\ frames \in Seq(Frames)
      /\ cursor \in Nat /\ cursor' = cursor + 1 /\ node \in Nodes /\ node.n = "Decl"
      /\ blocks' = [blocks EXCEPT ![1] = <<i>> \o @] /\ symbols' = symbols \cup {decl}
      /\ frames' = IF node.init THEN Enter(frames, NewFrame("DeclInit", 0)) ELSE Resume(frames)
      /\ UNCHANGED <<syntax, module>> /\ blocks \in Seq(Blocks)
  BY ReadingNode DEF VisitDecl, VisitStmt, TypeInv, TypeOK, At
<1>2. decl \in VarDecls /\ decl.owner = cursor /\ decl.kind = "kLocal"
  BY <1>1, NodeKinds, LocalDeclType DEF LocalDecl
<1>3. Locals(symbols') = LocalsNow \cup {decl}
  BY <1>1, <1>2 DEF Locals, LocalsNow
<1>4. NewFrame("DeclInit", 0) \in Frames
      /\ TargetOK(syntax, NewFrame("DeclInit", 0), LocalsNow \cup {decl})
  BY <1>1, NewFrameType DEF TargetOK, ControlPoints, ExpPoints
<1>. HIDE DEF decl
<1>5. StorageOK(blocks', LocalsNow \cup {decl}, cursor')
  BY <1>1, <1>2, AllocateStorage DEF StorageInv, LocalsNow
<1>6. TargetsOK(syntax, frames, LocalsNow \cup {decl})
  BY MoreTargets DEF StorageInv, LocalsNow
<1>7. TargetsOK(syntax, frames', LocalsNow \cup {decl})
  BY <1>1, <1>4, <1>6, EnteredTargets
<1>8. StorageDominatesUses'
  BY <1>1, SameModule
<1>. HIDE DEF node, i
<1>. QED  BY <1>1, <1>3, <1>5, <1>7, <1>8 DEF StorageInv

(* The head of a loop is a new, empty block.                               *)
LEMMA StorageVisitWhile == ASSUME TypeInv, InsertOK, StorageInv, VisitWhile PROVE StorageInv'
<1>. DEFINE loop == Len(blocks) + 1  br == <<Jump("br", <<>>, <<loop>>)>>  put == Put(br)
<1>1. /\ At(frames, StmtPoints) /\ frames # <<>> /\ frames \in Seq(Frames)
      /\ cursor \in Nat /\ cursor' = cursor + 1 /\ loop \in Nat
      /\ blocks \in Seq(Blocks) /\ insert \in DOMAIN blocks /\ blocks' = Append(put, <<>>)
      /\ frames' = Enter(frames, NewFrame("WhileCond", loop))
      /\ UNCHANGED <<syntax, symbols, module>>
  BY ReadingNode DEF VisitWhile, VisitStmt, TypeInv, TypeOK, At, InsertOK
<1>2. br \in Seq(Instrs) /\ \A i \in DOMAIN br : Bound(br[i], LocalsNow)
  <2>1. br \in Seq(Instrs)
    BY <1>1, SomeInstrs
  <2>2. Jump("br", <<>>, <<loop>>).op = "br"
    BY DEF Jump, Instr
  <2>. QED  BY <2>1, <2>2 DEF Bound, Accesses
<1>3. NewFrame("WhileCond", loop) \in Frames
      /\ TargetOK(syntax, NewFrame("WhileCond", loop), LocalsNow)
  <2>. HIDE DEF loop
  <2>1. "WhileCond" \in ControlPoints
    BY DEF ControlPoints, ExpPoints
  <2>2. NewFrame("WhileCond", loop) \in Frames /\ NewFrame("WhileCond", loop).pc = "WhileCond"
    BY <1>1, <2>1, NewFrameType
  <2>. QED  BY <2>2 DEF TargetOK
<1>4. TargetsOK(syntax, frames', LocalsNow)
  BY <1>1, <1>3, EnteredTargets DEF StorageInv, LocalsNow
<1>. HIDE DEF loop, br
<1>5. /\ put \in Seq(Blocks) /\ Len(put) = Len(blocks)
      /\ StorageOK(put, LocalsNow, cursor)
  BY <1>1, <1>2, PutType, PutStorage DEF StorageInv, LocalsNow
<1>. HIDE DEF put
<1>6. StorageOK(Append(put, <<>>), LocalsNow, cursor)
  <2>1. /\ DOMAIN put = 1 .. Len(put) /\ Len(put) \in Nat
        /\ DOMAIN Append(put, <<>>) = 1 .. Len(put) + 1
        /\ \A b \in DOMAIN put : Append(put, <<>>)[b] = put[b]
        /\ Append(put, <<>>)[Len(put) + 1] = <<>>
    BY <1>5
  <2>2. \A b \in 1 .. Len(put) + 1 : b \in 1 .. Len(put) \/ b = Len(put) + 1
    BY <2>1
  <2>3. 1 .. Len(put) \subseteq 1 .. Len(put) + 1
    BY <2>1
  <2>. DEFINE more == Append(put, <<>>)
  <2>4. /\ DOMAIN put \subseteq DOMAIN more /\ \A b \in DOMAIN put : more[b] = put[b]
        /\ \A b \in DOMAIN more : b \notin DOMAIN put => more[b] = <<>>
    BY <2>1, <2>2, <2>3
  <2>. HIDE DEF more
  <2>5. StorageOK(more, LocalsNow, cursor)
    BY <1>5, <2>4, MoreBlocks
  <2>. QED  BY <2>5 DEF more
<1>7. StorageOK(blocks', LocalsNow, cursor')
  BY <1>1, <1>6, LaterStorage
<1>8. StorageDominatesUses'
  BY <1>1, SameModule
<1>. QED  BY <1>1, <1>4, <1>7, <1>8 DEF StorageInv, LocalsNow

(* A block is left with a branch, or not.                                  *)
LEMMA BranchStorage ==
  ASSUME blocks \in Seq(Blocks), insert \in DOMAIN blocks, NEW to \in Nat,
         NEW locals, NEW next, StorageOK(blocks, locals, next)
  PROVE  /\ StorageOK(Put(<<Jump("br", <<>>, <<to>>)>>), locals, next)
         /\ StorageOK(BranchUnlessTerminated(to), locals, next)
<1>. DEFINE br == <<Jump("br", <<>>, <<to>>)>>
<1>1. br \in Seq(Instrs) /\ \A i \in DOMAIN br : Bound(br[i], locals)
  <2>1. br \in Seq(Instrs)
    BY SomeInstrs
  <2>2. Jump("br", <<>>, <<to>>).op = "br"
    BY DEF Jump, Instr
  <2>. QED  BY <2>1, <2>2 DEF Bound, Accesses
<1>2. StorageOK(Put(br), locals, next)
  <2>. HIDE DEF br
  <2>. QED  BY <1>1, PutStorage
<1>. QED  BY <1>2 DEF BranchUnlessTerminated

(* A statement that contains statements ends.                              *)
LEMMA StorageEndVisit ==
  ASSUME TypeInv, InsertOK, StorageInv, EndSeq \/ VisitElse \/ EndIf \/ EndWhile
  PROVE  StorageInv'
<1>1. /\ frames # <<>> /\ frames \in Seq(Frames) /\ Last(frames) \in Frames
      /\ cursor \in Nat /\ cursor' = cursor + 1
      /\ blocks \in Seq(Blocks) /\ insert \in DOMAIN blocks
      /\ UNCHANGED <<syntax, symbols, module>>
  <2>1. \E points, mark : EndVisit(points, mark)
    BY DEF EndSeq, VisitElse, EndIf, EndWhile
  <2>. QED  BY <2>1, LastFrame DEF EndVisit, At, TypeInv, TypeOK, InsertOK
<1>2. /\ Last(frames).loop \in Nat /\ Last(frames).join \in Nat
      /\ StorageOK(blocks, LocalsNow, cursor) /\ TargetsOK(syntax, frames, LocalsNow)
  BY <1>1 DEF Frames, StorageInv, LocalsNow
<1>3. StorageOK(blocks', LocalsNow, cursor)
  BY <1>1, <1>2, BranchStorage DEF EndSeq, VisitElse, EndIf, EndWhile
<1>4. TargetsOK(syntax, frames', LocalsNow)
  <2>1. frames' = Front(frames) \/ frames' = SetPc(frames, "IfElse")
    BY DEF EndSeq, VisitElse, EndIf, EndWhile
  <2>2. "IfElse" \in ControlPoints \ {"DeclInit", "AssignExp"}
    BY DEF ControlPoints, StmtPoints
  <2>3. TargetsOK(syntax, Front(frames), LocalsNow) /\ TargetsOK(syntax, SetPc(frames, "IfElse"), LocalsNow)
    BY <1>1, <1>2, <2>2, MovedTargets
  <2>. QED  BY <2>1, <2>3
<1>5. StorageOK(blocks', LocalsNow, cursor')
  BY <1>1, <1>3, LaterStorage
<1>6. StorageDominatesUses'
  BY <1>1, SameModule
<1>. QED  BY <1>1, <1>4, <1>5, <1>6 DEF StorageInv, LocalsNow

(* What a call generates: an instruction, or nothing.                      *)
LEMMA CallInstrs ==
  ASSUME TypeInv, InsertOK, VisitCallExp
  PROVE  \/ Abort
         \/ \E vals \in Seq(IRTypes), instrs \in Seq(Instrs) :
              /\ Generate(vals, instrs)
              /\ \A i \in DOMAIN instrs :
                   instrs[i].op \in {"binary", "icmp", "select", "zext", "call"} /\ instrs[i].to = <<>>
              /\ IsStmtCall(syntax[cursor]) => instrs # <<>>
<1>. DEFINE node  == syntax[cursor]
            first == Len(values) - node.args
            args  == SubSeq(values, first + 1, Len(values))
            rest  == SubSeq(values, 1, first)
            emit  == IF node.name = "int" /\ args[1] = "i32"
                     THEN <<>> ELSE <<BuiltinInstr(node.name, args)>>
<1>1. /\ node \in Nodes /\ node.n = "Call" /\ node.args <= Len(values)
      /\ node.args \in Nat /\ node.def \in Nat /\ values \in Seq(IRTypes)
  BY ReadingNode, NodeKinds DEF VisitCallExp, VisitExp, TypeInv, TypeOK
<1>2. args \in Seq(IRTypes) /\ Len(args) = node.args /\ rest \in Seq(IRTypes)
  <2>1. first \in Nat /\ first <= Len(values) /\ Len(values) \in Nat
    BY <1>1
  <2>. QED  BY <1>1, <2>1
<1>3. \/ Abort
      \/ /\ node.name \in OperatorNames /\ node.args >= MinArgs(node.name)
         /\ Generate(Append(rest, BuiltinType(node.name, args)), emit)
      \/ Generate(Append(rest, ConvertType(syntax[node.def].def.ret)), <<Call(args, node.def)>>)
  BY DEF VisitCallExp
<1>4. ASSUME node.name \in OperatorNames, node.args >= MinArgs(node.name)
      PROVE  /\ emit \in Seq(Instrs)
             /\ \A i \in DOMAIN emit :
                  emit[i].op \in {"binary", "icmp", "select", "zext"} /\ emit[i].to = <<>>
             /\ Append(rest, BuiltinType(node.name, args)) \in Seq(IRTypes)
  <2>1. <<BuiltinInstr(node.name, args)>> \in Seq(Instrs)
        /\ BuiltinType(node.name, args) \in IRTypes
    BY <1>2, <1>4, BuiltinInstrType
  <2>2. /\ BuiltinInstr(node.name, args).op \in {"binary", "icmp", "select", "zext"}
        /\ BuiltinInstr(node.name, args).to = <<>>
    <3>. HIDE DEF args
    <3>. QED  BY <1>4 DEF BuiltinInstr, Instr, OperatorNames, InfixOps, Arith, Compare
  <2>3. Append(rest, BuiltinType(node.name, args)) \in Seq(IRTypes)
    BY <1>2, <2>1
  <2>4. /\ emit \in Seq(Instrs)
        /\ \A i \in DOMAIN emit :
             emit[i].op \in {"binary", "icmp", "select", "zext"} /\ emit[i].to = <<>>
    <3>. DEFINE instr == BuiltinInstr(node.name, args)  skip == node.name = "int" /\ args[1] = "i32"
    <3>1. emit = IF skip THEN <<>> ELSE <<instr>>
      OBVIOUS
    <3>2. /\ <<instr>> \in Seq(Instrs) /\ instr.op \in {"binary", "icmp", "select", "zext"}
          /\ instr.to = <<>>
      BY <2>1, <2>2
    <3>. HIDE DEF emit, instr, skip
    <3>. QED  BY <3>1, <3>2
  <2>. QED  BY <2>3, <2>4
<1>5. /\ <<Call(args, node.def)>> \in Seq(Instrs) /\ Call(args, node.def).op = "call"
      /\ Call(args, node.def).to = <<>>
      /\ Append(rest, ConvertType(syntax[node.def].def.ret)) \in Seq(IRTypes)
  <2>1. Append(rest, ConvertType(syntax[node.def].def.ret)) \in Seq(IRTypes)
    BY <1>2, ConvertTypeType
  <2>2. "call" \in Opcodes
    BY DEF Opcodes
  <2>. HIDE DEF args, node
  <2>3. /\ Call(args, node.def) \in Instrs /\ Call(args, node.def).op = "call"
        /\ Call(args, node.def).to = <<>>
    BY <1>1, <1>2, <2>2, InstrType DEF Call, Instr
  <2>. QED  BY <2>1, <2>3
<1>. DEFINE call == <<Call(args, node.def)>>
<1>6. /\ call \in Seq(Instrs) /\ call # <<>>
      /\ \A i \in DOMAIN call : call[i].op = "call" /\ call[i].to = <<>>
  BY <1>5
<1>8. node.name \in OperatorNames => ~IsStmtCall(syntax[cursor])
  BY DEF IsStmtCall
<1>. HIDE DEF node, first, args, rest, emit, call
<1>7. Generate(Append(rest, ConvertType(syntax[node.def].def.ret)), <<Call(args, node.def)>>)
        <=> Generate(Append(rest, ConvertType(syntax[node.def].def.ret)), call)
  BY DEF call
<1>. QED  BY <1>3, <1>4, <1>5, <1>6, <1>7, <1>8

(* An expression only accesses variables that have storage.                *)
LEMMA StorageNextExp ==
  ASSUME TypeInv, InsertOK, StorageInv, NextExp
  PROVE  StorageInv'
<1>. DEFINE Gen(vals, instrs) ==
              /\ Generate(vals, instrs) /\ instrs \in Seq(Instrs)
              /\ \A i \in DOMAIN instrs : Bound(instrs[i], LocalsNow)
<1>1. frames # <<>>
  BY DEF NextExp, VisitConst, VisitVarExp, VisitCallExp, VisitExp, At
<1>2. ASSUME NEW vals, NEW instrs, Gen(vals, instrs) PROVE StorageInv'
  <2>1. /\ blocks \in Seq(Blocks) /\ insert \in DOMAIN blocks /\ cursor \in Nat
        /\ cursor' = cursor + 1 /\ blocks' = Put(instrs)
        /\ UNCHANGED <<syntax, frames, symbols, module>>
        /\ StorageOK(blocks, LocalsNow, cursor)
    BY <1>1, <1>2 DEF Generate, TypeInv, TypeOK, InsertOK, StorageInv, LocalsNow
  <2>2. StorageOK(blocks', LocalsNow, cursor')
    BY <1>2, <2>1, PutStorage, LaterStorage
  <2>3. StorageDominatesUses'
    BY <2>1, SameModule
  <2>. QED  BY <2>1, <2>2, <2>3 DEF StorageInv, LocalsNow
<1>3. CASE VisitConst
  <2>1. PICK vals : Generate(vals, <<>>)
    BY <1>3 DEF VisitConst
  <2>2. Gen(vals, <<>>)
    BY <2>1
  <2>. HIDE DEF Gen
  <2>. QED  BY <1>2, <2>2
<1>4. CASE VisitVarExp
  <2>. DEFINE decl == syntax[cursor].decl
  <2>1. decl \in VarDecls
    BY <1>4, ReadingNode, NodeKinds DEF VisitVarExp, VisitExp, TypeInv
  <2>2. \/ Abort
        \/ /\ decl \in symbols
           /\ \E vals : \/ decl.kind = "kLocal" /\ Generate(vals, <<Access("load", <<>>, decl)>>)
                        \/ Generate(vals, <<>>)
    BY <1>4 DEF VisitVarExp
  <2>3. ASSUME decl \in symbols, decl.kind = "kLocal",
               NEW vals, Generate(vals, <<Access("load", <<>>, decl)>>)
        PROVE  Gen(vals, <<Access("load", <<>>, decl)>>)
    <3>1. <<Access("load", <<>>, decl)>> \in Seq(Instrs)
      BY <2>1, SomeInstrs
    <3>2. Bound(Access("load", <<>>, decl), LocalsNow)
      BY <2>3 DEF Bound, Access, Instr, LocalsNow, Locals
    <3>. QED  BY <2>3, <3>1, <3>2
  <2>4. \A vals : Generate(vals, <<>>) => Gen(vals, <<>>)
    OBVIOUS
  <2>. HIDE DEF decl, Gen
  <2>. QED  BY <1>2, <2>2, <2>3, <2>4, StorageAbort
<1>5. CASE VisitCallExp
  <2>1. \/ Abort
        \/ \E vals \in Seq(IRTypes), instrs \in Seq(Instrs) :
             /\ Generate(vals, instrs)
             /\ \A i \in DOMAIN instrs : instrs[i].op \in {"binary", "icmp", "select", "zext", "call"}
    BY <1>5, CallInstrs
  <2>2. \A i : i.op \in {"binary", "icmp", "select", "zext", "call"} => Bound(i, LocalsNow)
    BY DEF Bound, Accesses
  <2>. QED  BY <1>2, <2>1, <2>2, StorageAbort
<1>. QED  BY <1>3, <1>4, <1>5 DEF NextExp

(* A statement that ends with its expression stores to a variable that has *)
(* storage, or to none.                                                    *)
LEMMA StorageEndStmtExp ==
  ASSUME TypeInv, InsertOK, StorageInv, EndCallStmt \/ EndReturn \/ EndAssign \/ EndDeclInit
  PROVE  StorageInv'
<1>1. PICK pc \in ExpPoints, instrs \in Seq(Instrs) :
        EndStmtExp(pc, instrs) /\ \A i \in DOMAIN instrs : Bound(instrs[i], LocalsNow)
  <2>1. frames # <<>> /\ values[1] \in IRTypes /\ Last(frames) = frames[Len(frames)]
        /\ Len(frames) \in DOMAIN frames /\ Last(frames) \in Frames
    <3>1. \E pc : EndExp(pc)
      BY DEF EndCallStmt, EndReturn, EndAssign, EndDeclInit, EndStmtExp
    <3>. QED  BY <3>1, LastFrame DEF EndExp, At, TypeInv, TypeOK
  <2>2. TargetOK(syntax, Last(frames), LocalsNow) /\ NodeOK(syntax, Last(frames))
    BY <2>1 DEF StorageInv, TargetsOK, LocalsNow, TypeInv, NodesOK
  <2>3. {"CallExp", "ReturnExp", "AssignExp", "DeclInit"} \subseteq ExpPoints
    BY DEF ExpPoints
  <2>4. ASSUME NEW i \in Instrs, Bound(i, LocalsNow)
        PROVE  <<i>> \in Seq(Instrs) /\ \A k \in DOMAIN <<i>> : Bound(<<i>>[k], LocalsNow)
    BY <2>4
  <2>5. CASE EndCallStmt
    <3>1. <<>> \in Seq(Instrs) /\ \A i \in DOMAIN <<>> : Bound(<<>>[i], LocalsNow)
      OBVIOUS
    <3>. QED  BY <2>3, <2>5, <3>1 DEF EndCallStmt
  <2>6. CASE EndReturn
    <3>. DEFINE ret == Instr("ret", <<values[1]>>)
    <3>1. ret \in Instrs /\ ret.op = "ret"
      <4>1. "ret" \in Opcodes /\ <<values[1]>> \in Seq(IRTypes)
        BY <2>1 DEF Opcodes, Terminators
      <4>. QED  BY <4>1, InstrType
    <3>2. Bound(ret, LocalsNow)
      BY <3>1 DEF Bound, Accesses
    <3>3. EndStmtExp("ReturnExp", <<ret>>)
      BY <2>6 DEF EndReturn
    <3>. HIDE DEF ret
    <3>. QED  BY <2>3, <2>4, <3>1, <3>2, <3>3
  <2>7. ASSUME NEW d \in LocalsNow, NEW pc \in ExpPoints,
               EndStmtExp(pc, <<Access("store", <<values[1]>>, d)>>)
        PROVE  \E p \in ExpPoints, instrs \in Seq(Instrs) :
                 EndStmtExp(p, instrs) /\ \A i \in DOMAIN instrs : Bound(instrs[i], LocalsNow)
    <3>. DEFINE store == Access("store", <<values[1]>>, d)
    <3>1. "store" \in Opcodes /\ <<values[1]>> \in Seq(IRTypes) /\ d \in VarDecls \cup {Null}
      BY <2>1 DEF Opcodes, LocalsNow, Locals, TypeInv, TypeOK
    <3>2. store \in Instrs
      BY <3>1, InstrType
    <3>3. store.op = "store" /\ store.ref = d
      BY DEF Access, Instr
    <3>4. Bound(store, LocalsNow)
      BY <3>3 DEF Bound
    <3>5. EndStmtExp(pc, <<store>>)
      BY <2>7
    <3>. HIDE DEF store
    <3>. QED  BY <2>4, <3>2, <3>4, <3>5
  <2>8. CASE EndAssign
    <3>1. Last(frames).pc = "AssignExp"
      BY <2>8 DEF EndAssign, EndStmtExp, EndExp, At
    <3>2. syntax[Last(frames).node].decl \in LocalsNow
      BY <2>2, <3>1 DEF TargetOK
    <3>. QED  BY <2>3, <2>7, <2>8, <3>2 DEF EndAssign
  <2>9. CASE EndDeclInit
    <3>1. Last(frames).pc = "DeclInit"
      BY <2>9 DEF EndDeclInit, EndStmtExp, EndExp, At
    <3>2. LocalDecl(Last(frames).node, syntax[Last(frames).node].name,
                    syntax[Last(frames).node].type) \in LocalsNow
      BY <2>2, <3>1 DEF TargetOK
    <3>. QED  BY <2>3, <2>7, <2>9, <3>2 DEF EndDeclInit
  <2>. QED  BY <2>5, <2>6, <2>8, <2>9
<1>2. /\ frames # <<>> /\ frames \in Seq(Frames) /\ blocks \in Seq(Blocks) /\ insert \in DOMAIN blocks
      /\ cursor \in Nat /\ cursor' = cursor + 1
      /\ blocks' = Put(instrs) /\ frames' = Front(frames)
      /\ UNCHANGED <<syntax, symbols, module>>
      /\ StorageOK(blocks, LocalsNow, cursor) /\ TargetsOK(syntax, frames, LocalsNow)
  BY <1>1 DEF EndStmtExp, EndExp, At, TypeInv, TypeOK, InsertOK, StorageInv, LocalsNow
<1>3. StorageOK(blocks', LocalsNow, cursor')
  BY <1>1, <1>2, PutStorage, LaterStorage
<1>4. TargetsOK(syntax, frames', LocalsNow)
  BY <1>2, MovedTargets
<1>5. StorageDominatesUses'
  BY <1>2, SameModule
<1>. QED  BY <1>2, <1>3, <1>4, <1>5 DEF StorageInv, LocalsNow

(* A conditional branch accesses nothing.                                  *)
LEMMA CondBranchBound ==
  ASSUME NEW to, NEW locals, NEW i \in DOMAIN CondBranch(to)
  PROVE  Bound(CondBranch(to)[i], locals)
<1>1. /\ Jump("condbr", <<values[1]>>, to).op = "condbr" /\ Jump("condbr", <<"i1">>, to).op = "condbr"
      /\ Instr("icmp", <<values[1], "i32">>).op = "icmp"
  BY DEF Jump, Instr
<1>2. CASE ExpType(syntax[cursor - 1]) = "bool"
  BY <1>1, <1>2 DEF CondBranch, Bound, Accesses
<1>3. CASE ExpType(syntax[cursor - 1]) # "bool"
  BY <1>1, <1>3 DEF CondBranch, Bound, Accesses
<1>. QED  BY <1>2, <1>3

(* A condition ends the current block, and adds empty ones.                *)
LEMMA StorageEndCond ==
  ASSUME TypeInv, InsertOK, StorageInv, EndIfCond \/ EndWhileCond
  PROVE  StorageInv'
<1>1. /\ frames # <<>> /\ insert \in DOMAIN blocks /\ values # <<>>
      /\ cursor \in Nat /\ cursor' = cursor + 1 /\ frames \in Seq(Frames) /\ blocks \in Seq(Blocks)
      /\ UNCHANGED <<syntax, symbols, module>>
      /\ Last(frames) \in Frames /\ Len(blocks) \in Nat
      /\ StorageOK(blocks, LocalsNow, cursor) /\ TargetsOK(syntax, frames, LocalsNow)
  <2>1. \E pc : EndExp(pc)
    BY DEF EndIfCond, EndWhileCond
  <2>. QED  BY <2>1, LastFrame DEF EndExp, At, TypeInv, TypeOK, InsertOK, StorageInv, LocalsNow
<1>2. ASSUME NEW to \in Seq(Nat), NEW n \in Nat, NEW new \in [1 .. n -> {<<>>}],
             blocks' = Put(CondBranch(to)) \o new,
             NEW fr \in Frames, frames' = [frames EXCEPT ![Len(frames)] = fr],
             fr.pc \notin {"DeclInit", "AssignExp"}
      PROVE  StorageInv'
  <2>. DEFINE put == Put(CondBranch(to))
  <2>1. CondBranch(to) \in Seq(Instrs)
    BY <1>1, CondBranchType DEF TypeInv
  <2>2. put \in Seq(Blocks) /\ StorageOK(put, LocalsNow, cursor)
    BY <1>1, <2>1, CondBranchBound, PutType, PutStorage
  <2>3. new \in Seq(Blocks) /\ Len(new) = n
    <3>1. <<>> \in Blocks
      BY DEF Blocks
    <3>2. new \in [1 .. n -> Blocks]
      BY <3>1
    <3>3. new \in Seq(Blocks)
      BY <3>2, SeqDef
    <3>. QED  BY <3>2, <3>3
  <2>4. StorageOK(put \o new, LocalsNow, cursor)
    <3>. DEFINE more == put \o new
    <3>. HIDE DEF put
    <3>1. /\ DOMAIN put = 1 .. Len(put) /\ Len(put) \in Nat
          /\ DOMAIN more = 1 .. Len(put) + n
          /\ \A b \in 1 .. Len(put) + n : more[b] = IF b <= Len(put) THEN put[b] ELSE new[b - Len(put)]
      <4>1. \A s, t \in Seq(Blocks) :
              /\ s \o t \in Seq(Blocks) /\ Len(s \o t) = Len(s) + Len(t) /\ Len(s) \in Nat
              /\ \A b \in 1 .. Len(s) + Len(t) : (s \o t)[b] = IF b <= Len(s) THEN s[b] ELSE t[b - Len(s)]
        BY ConcatProperties
      <4>2. /\ more \in Seq(Blocks) /\ Len(more) = Len(put) + n /\ Len(put) \in Nat
            /\ \A b \in 1 .. Len(put) + n : more[b] = IF b <= Len(put) THEN put[b] ELSE new[b - Len(put)]
        BY <2>2, <2>3, <4>1
      <4>. HIDE DEF more
      <4>. QED  BY <2>2, <4>2
    <3>. HIDE DEF more
    <3>2. DOMAIN put \subseteq DOMAIN more /\ \A b \in DOMAIN put : more[b] = put[b]
      BY <3>1
    <3>3. ASSUME NEW b \in DOMAIN more, b \notin DOMAIN put PROVE more[b] = <<>>
      <4>1. b - Len(put) \in 1 .. n /\ more[b] = new[b - Len(put)]
        BY <3>1, <3>3
      <4>. QED  BY <4>1
    <3>4. StorageOK(more, LocalsNow, cursor)
      BY <2>2, <3>2, <3>3, MoreBlocks
    <3>. QED  BY <3>4 DEF more
  <2>5. StorageOK(blocks', LocalsNow, cursor')
    BY <1>1, <1>2, <2>4, LaterStorage
  <2>6. TargetsOK(syntax, frames', LocalsNow)
    BY <1>1, <1>2, MovedTargets
  <2>7. StorageDominatesUses'
    BY <1>1, SameModule
  <2>. QED  BY <1>1, <2>5, <2>6, <2>7 DEF StorageInv, LocalsNow
<1>3. CASE EndIfCond
  <2>. DEFINE else == syntax[Last(frames).node].else
              then == Len(blocks) + 1
              els  == IF else THEN then + 1 ELSE 0
              join == IF else THEN then + 2 ELSE then + 1
              fr   == [Last(frames) EXCEPT !.pc = "IfThen", !.els = els, !.join = join]
              to   == <<then, IF else THEN els ELSE join>>
              n    == IF else THEN 3 ELSE 2
              new  == [b \in 1 .. n |-> <<>>]
  <2>1. frames' = [frames EXCEPT ![Len(frames)] = fr] /\ blocks' = Put(CondBranch(to)) \o new
    BY <1>1, <1>3, LastFrame DEF EndIfCond
  <2>2. to \in Seq(Nat) /\ n \in Nat /\ new \in [1 .. n -> {<<>>}] /\ els \in Nat /\ join \in Nat
    BY <1>1
  <2>3. fr \in Frames /\ fr.pc = "IfThen"
    <3>. HIDE DEF els, join
    <3>. QED  BY <1>1, <2>2, BodyFrame DEF Frames
  <2>. HIDE DEF fr, to, n, new
  <2>. QED  BY <1>2, <2>1, <2>2, <2>3
<1>4. CASE EndWhileCond
  <2>. DEFINE body == Len(blocks) + 1
              join == Len(blocks) + 2
              fr   == [Last(frames) EXCEPT !.pc = "WhileBody", !.join = join]
              to   == <<body, join>>
              new  == << <<>>, <<>> >>
  <2>1. frames' = [frames EXCEPT ![Len(frames)] = fr] /\ blocks' = Put(CondBranch(to)) \o new
    BY <1>1, <1>4, LastFrame DEF EndWhileCond
  <2>2. to \in Seq(Nat) /\ new \in [1 .. 2 -> {<<>>}] /\ join \in Nat /\ 0 \in Nat /\ 2 \in Nat
    BY <1>1
  <2>3. fr \in Frames /\ fr.pc = "WhileBody"
    <3>. HIDE DEF join
    <3>. QED  BY <1>1, <2>2, BodyFrame DEF Frames
  <2>. HIDE DEF fr, to, new
  <2>. QED  BY <1>2, <2>1, <2>2, <2>3
<1>. QED  BY <1>3, <1>4

(* The invariant is kept by every step.                                    *)
LEMMA StorageNext ==
  ASSUME TypeInv, InsertOK, StorageInv, [Next \/ Returned]_vars
  PROVE  StorageInv'
<1>1. CASE BeginFunction \/ EndFunction \/ Finish
  BY <1>1, StorageFunctions
<1>2. CASE NextExp
  BY <1>2, StorageNextExp
<1>3. CASE NextStmt
  <2>1. CASE VisitReturn \/ VisitCallStmt \/ VisitIf \/ VisitSeq
    BY <2>1, StorageVisitExpOf DEF VisitReturn, VisitCallStmt, VisitIf, VisitSeq
  <2>2. CASE VisitAssign
    <3>1. \/ Abort
          \/ VisitExpOf("Assign", "AssignExp") /\ syntax[cursor].decl \in LocalsNow
      BY <2>2 DEF VisitAssign, VisitExpOf, VisitStmt, LocalsNow, Locals
    <3>. QED  BY <3>1, StorageAbort, StorageVisitExpOf
  <2>3. CASE VisitDecl \/ VisitWhile
    BY <2>3, StorageVisitDecl, StorageVisitWhile
  <2>4. CASE EndSeq \/ VisitElse \/ EndIf \/ EndWhile
    BY <2>4, StorageEndVisit
  <2>5. CASE EndCallStmt \/ EndReturn \/ EndAssign \/ EndDeclInit
    BY <2>5, StorageEndStmtExp
  <2>6. CASE EndIfCond \/ EndWhileCond
    BY <2>6, StorageEndCond
  <2>. QED  BY <1>3, <2>1, <2>2, <2>3, <2>4, <2>5, <2>6 DEF NextStmt
<1>4. CASE UNCHANGED vars
  BY <1>4, SameModule DEF vars, genVars, StorageInv
<1>. QED  BY <1>1, <1>2, <1>3, <1>4 DEF Next, Returned

(* Whatever the programs, the storage of a variable that is accessed       *)
(* anywhere in a finished function is allocated once, at the start of its  *)
(* entry block (Codegen.cpp:252-258).                                      *)
THEOREM StorageDominates == Spec => []StorageDominatesUses
<1>1. Init => StorageInv
  BY DEF Init, Start, StorageInv, TargetsOK, StorageDominatesUses
<1>2. IInv /\ StorageInv /\ [Next \/ Returned]_vars => StorageInv'
  <2>1. IInv => TypeInv /\ InsertOK
    BY DEF IInv, OpenInv, OthersEnd, InsertOK
  <2>. QED  BY <2>1, StorageNext
<1>3. StorageInv => StorageDominatesUses
  BY DEF StorageInv
<1>. QED  BY <1>1, <1>2, <1>3, Inductive, PTL DEF Spec
-----------------------------------------------------------------------------
(* What becomes of the links of the typechecker.  On a program that is     *)
(* linked as it promises (WellLinked), the only lookup that can fail is    *)
(* that of a function with no body, or of the operands of an operator that *)
(* is called with too few.  And what is linked is called: the calls that   *)
(* have been generated and the references that have been visited are       *)
(* counted against each other, definition by definition; an operator is    *)
(* not counted, because no call is generated for its name.                 *)

\* What the body of the function at f has declared before position i.
Declared(prog, f, i) ==
  ParamDecls(f, prog[f].def)
    \cup {LocalDecl(j, prog[j].name, prog[j].type) : j \in {k \in f + 1 .. i - 1 : prog[k].n = "Decl"}}

\* Calls that code generation has no instruction and no function for.
NotDefined(prog, k) ==
  /\ k \in DOMAIN prog /\ prog[k].n = "Call"
  /\ IF prog[k].name \in OperatorNames
     THEN prog[k].args < MinArgs(prog[k].name)
     ELSE ~prog[prog[k].def].def.body

\* The symbol table has what has been declared in the current function so
\* far, and the function table every definition so far that has a body.
TablesOK ==
  /\ frames # <<>> =>
       LET f == frames[1].node IN
       /\ f \in 1 .. cursor - 1 /\ InFunction(syntax, f, cursor)
       /\ Declared(syntax, f, cursor) \subseteq symbols
  /\ \A g \in 1 .. cursor - 1 :
       syntax[g].n = "Func" /\ syntax[g].def.body => g \in functions

FailsIfUndefined == WellLinked(syntax) /\ status = "aborted" => NotDefined(syntax, cursor)

LookupInv == TablesOK /\ FailsIfUndefined

\* What has been generated calls only what is defined.
NoneUndefined == status = "done" => \A k \in DOMAIN syntax : ~ NotDefined(syntax, k)

CallsOK ==
  /\ \A g \in functions : syntax[g].def.body
  /\ \A k \in 1 .. cursor - 1 : ~ NotDefined(syntax, k)
  /\ status = "done" => cursor > Len(syntax)

-----------------------------------------------------------------------------
(* The function that code is generated for                                 *)

LEMMA FirstOfMany == \A n \in Nat : 1 \in 1 .. n => n = 1 \/ 1 \in 1 .. n - 1
  OBVIOUS

(* A Visit function that goes on.                                          *)
LEMMA MovedOutermost ==
  ASSUME NEW fs \in Seq(Frames), fs # <<>>, NEW pc \in ControlPoints
  PROVE  SetPc(fs, pc) # <<>> /\ SetPc(fs, pc)[1].node = fs[1].node
<1>1. /\ SetPc(fs, pc) \in Seq(Frames) /\ Len(SetPc(fs, pc)) = Len(fs)
      /\ \A i \in 1 .. Len(fs) - 1 : SetPc(fs, pc)[i] = fs[i]
      /\ SetPc(fs, pc)[Len(fs)] = [Last(fs) EXCEPT !.pc = pc]
  BY SetPcFrames
<1>2. Len(fs) \in Nat /\ Len(fs) \in DOMAIN fs /\ Last(fs) = fs[Len(fs)] /\ Last(fs) \in Frames
      /\ 1 \in 1 .. Len(fs)
  BY LastFrame
<1>3. [Last(fs) EXCEPT !.pc = pc].node = Last(fs).node
  BY <1>2 DEF Frames
<1>4. SetPc(fs, pc) # <<>>
  BY <1>1, <1>2
<1>5. CASE Len(fs) = 1
  BY <1>1, <1>2, <1>3, <1>4, <1>5
<1>6. CASE Len(fs) # 1
  <2>1. 1 \in 1 .. Len(fs) - 1
    BY <1>2, <1>6, FirstOfMany
  <2>. QED  BY <1>1, <1>4, <2>1
<1>. QED  BY <1>5, <1>6

(* One that returns.                                                       *)
LEMMA PoppedOutermost ==
  ASSUME NEW fs \in Seq(Frames), fs # <<>>, Front(fs) # <<>>
  PROVE  Front(fs)[1].node = fs[1].node
<1>1. /\ Front(fs) \in Seq(Frames) /\ Len(Front(fs)) = Len(fs) - 1 /\ Len(fs) \in Nat
      /\ \A i \in 1 .. Len(fs) - 1 : Front(fs)[i] = fs[i]
  BY FrontFrames, LastFrame
<1>2. 1 \in 1 .. Len(fs) - 1
  BY <1>1
<1>. QED  BY <1>1, <1>2

(* One that visits a statement.                                            *)
LEMMA EnteredOutermost ==
  ASSUME NEW fs \in Seq(Frames), At(fs, StmtPoints)
  PROVE  /\ Resume(fs) # <<>> /\ Resume(fs)[1].node = fs[1].node
         /\ \A fr \in Frames : Enter(fs, fr)[1].node = fs[1].node
<1>1. fs # <<>> /\ Resume(fs) = SetPc(fs, After[Last(fs).pc])
  BY ResumeFrames
<1>2. After[Last(fs).pc] \in ControlPoints
  BY ResumeFrames DEF ControlPoints, StmtPoints
<1>3. Resume(fs) # <<>> /\ Resume(fs)[1].node = fs[1].node
  BY <1>1, <1>2, MovedOutermost
<1>4. ASSUME NEW fr \in Frames PROVE Enter(fs, fr)[1] = Resume(fs)[1]
  <2>1. 1 \in 1 .. Len(fs)
    BY <1>1
  <2>. QED  BY <2>1, EnterFrames
<1>. QED  BY <1>3, <1>4

-----------------------------------------------------------------------------
(* The lookups                                                             *)

(* What is declared before a node that declares nothing, and before one    *)
(* that does.                                                              *)
LEMMA DeclaredNext ==
  ASSUME NEW prog, NEW i \in Nat, NEW f \in 1 .. i - 1, InFunction(prog, f, i), prog[i].n # "Func"
  PROVE  /\ InFunction(prog, f, i + 1)
         /\ prog[i].n # "Decl" => Declared(prog, f, i + 1) = Declared(prog, f, i)
         /\ prog[i].n = "Decl" =>
              Declared(prog, f, i + 1)
                = Declared(prog, f, i) \cup {LocalDecl(i, prog[i].name, prog[i].type)}
<1>1. \A k \in f + 1 .. (i + 1) - 1 : k = i \/ k \in f + 1 .. i - 1
  OBVIOUS
<1>2. i \in f + 1 .. (i + 1) - 1 /\ \A k \in f + 1 .. i - 1 : k \in f + 1 .. (i + 1) - 1
  OBVIOUS
<1>3. InFunction(prog, f, i + 1)
  BY <1>1 DEF InFunction
<1>4. CASE prog[i].n # "Decl"
  <2>1. {k \in f + 1 .. (i + 1) - 1 : prog[k].n = "Decl"} = {k \in f + 1 .. i - 1 : prog[k].n = "Decl"}
    BY <1>1, <1>2, <1>4
  <2>. QED  BY <1>3, <1>4, <2>1 DEF Declared
<1>5. CASE prog[i].n = "Decl"
  <2>1. {k \in f + 1 .. (i + 1) - 1 : prog[k].n = "Decl"}
          = {k \in f + 1 .. i - 1 : prog[k].n = "Decl"} \cup {i}
    BY <1>1, <1>2, <1>5
  <2>. QED  BY <1>3, <1>5, <2>1 DEF Declared
<1>. QED  BY <1>4, <1>5

(* Only one function is around a node.                                     *)
LEMMA OneFunction ==
  ASSUME NEW prog, NEW i \in Nat, NEW f \in 1 .. i - 1, NEW g \in 1 .. i - 1,
         InFunction(prog, f, i), InFunction(prog, g, i)
  PROVE  f = g
<1>1. ~ (f < g)
  <2>1. f < g => g \in f + 1 .. i - 1
    OBVIOUS
  <2>. QED  BY <2>1 DEF InFunction
<1>2. ~ (g < f)
  <2>1. g < f => f \in g + 1 .. i - 1
    OBVIOUS
  <2>. QED  BY <2>1 DEF InFunction
<1>. QED  BY <1>1, <1>2

(* The symbol table has what a well-linked node refers to.                 *)
LEMMA SymbolFound ==
  ASSUME TypeOK, TablesOK, WellLinked(syntax), frames # <<>>, cursor \in DOMAIN syntax,
         syntax[cursor].n \in {"Var", "Assign"}
  PROVE  syntax[cursor].decl \in symbols
<1>. DEFINE d == syntax[cursor].decl
            f == frames[1].node
<1>1. /\ f \in 1 .. cursor - 1 /\ InFunction(syntax, f, cursor)
      /\ Declared(syntax, f, cursor) \subseteq symbols /\ cursor \in Nat
  BY DEF TablesOK, TypeOK
<1>2. PICK g \in 1 .. cursor - 1 :
        /\ InFunction(syntax, g, cursor)
        /\ \/ d \in ParamDecls(g, syntax[g].def)
           \/ \E j \in g + 1 .. cursor - 1 :
                syntax[j].n = "Decl" /\ d = LocalDecl(j, syntax[j].name, syntax[j].type)
  BY DEF WellLinked, DeclaredBefore
<1>. HIDE DEF d, f
<1>3. g = f
  BY <1>1, <1>2, OneFunction
<1>4. d \in Declared(syntax, f, cursor)
  BY <1>2, <1>3 DEF Declared
<1>. QED  BY <1>1, <1>4 DEF d

(* What an action on a node in a function leaves.                          *)
LEMMA NodeVisited ==
  ASSUME TypeOK, LookupInv, frames # <<>>, cursor \in DOMAIN syntax, syntax[cursor].n # "Func",
         syntax' = syntax, cursor' = cursor + 1, functions' = functions, status' = "running",
         symbols \subseteq symbols',
         syntax[cursor].n = "Decl" =>
           LocalDecl(cursor, syntax[cursor].name, syntax[cursor].type) \in symbols',
         frames' # <<>> => frames'[1].node = frames[1].node
  PROVE  LookupInv'
<1>. DEFINE f == frames[1].node
<1>1. /\ f \in 1 .. cursor - 1 /\ InFunction(syntax, f, cursor)
      /\ Declared(syntax, f, cursor) \subseteq symbols /\ cursor \in Nat
  BY DEF LookupInv, TablesOK, TypeOK
<1>. HIDE DEF f
<1>2. InFunction(syntax, f, cursor + 1) /\ Declared(syntax, f, cursor + 1) \subseteq symbols'
  BY <1>1, DeclaredNext
<1>3. f \in 1 .. (cursor + 1) - 1
  BY <1>1
<1>4. \A g \in 1 .. (cursor + 1) - 1 : g = cursor \/ g \in 1 .. cursor - 1
  BY <1>1
<1>5. \A g \in 1 .. (cursor + 1) - 1 :
        syntax[g].n = "Func" /\ syntax[g].def.body => g \in functions
  BY <1>4 DEF LookupInv, TablesOK
<1>6. TablesOK'
  BY <1>2, <1>3, <1>5 DEF TablesOK, f
<1>. QED  BY <1>6 DEF LookupInv, FailsIfUndefined

(* A lookup that fails is that of a function that is not defined.          *)
LEMMA Aborted ==
  ASSUME TypeOK, LookupInv, Abort, WellLinked(syntax) => NotDefined(syntax, cursor)
  PROVE  LookupInv'
  BY DEF LookupInv, TablesOK, FailsIfUndefined, Abort

-----------------------------------------------------------------------------
(* The steps                                                               *)

(* Functions begin, and end.                                               *)
LEMMA LookupFunctions ==
  ASSUME TypeInv, LookupInv, BeginFunction \/ EndFunction \/ Finish
  PROVE  LookupInv'
<1>1. CASE BeginFunction
  <2>1. /\ cursor \in Nat \ {0} /\ cursor \in DOMAIN syntax /\ syntax[cursor].n = "Func"
        /\ cursor' = cursor + 1 /\ syntax' = syntax /\ status' = status /\ frames = <<>>
    BY <1>1, ReadingNode DEF BeginFunction, TypeInv
  <2>2. status' = "running"
    BY <1>1, <2>1 DEF BeginFunction, Reading
  <2>3. \A g \in 1 .. (cursor + 1) - 1 : g = cursor \/ g \in 1 .. cursor - 1
    BY <2>1
  <2>4. functions \subseteq functions' /\ (syntax[cursor].def.body => cursor \in functions')
    BY <1>1 DEF BeginFunction
  <2>5. \A g \in 1 .. cursor' - 1 : syntax'[g].n = "Func" /\ syntax'[g].def.body => g \in functions'
    BY <2>1, <2>3, <2>4 DEF LookupInv, TablesOK
  <2>6. CASE syntax[cursor].def.body
    <3>1. frames' = <<NewFrame("FuncBody", 0)>> /\ symbols' = ParamDecls(cursor, syntax[cursor].def)
      BY <1>1, <2>6 DEF BeginFunction
    <3>2. frames'[1].node = cursor
      BY <3>1 DEF NewFrame
    <3>3. cursor \in 1 .. cursor' - 1 /\ cursor + 1 .. cursor' - 1 = {}
      BY <2>1
    <3>4. InFunction(syntax', cursor, cursor') /\ Declared(syntax', cursor, cursor') \subseteq symbols'
      BY <2>1, <3>1, <3>3 DEF InFunction, Declared
    <3>. QED  BY <2>2, <2>5, <3>2, <3>3, <3>4 DEF LookupInv, TablesOK, FailsIfUndefined
  <2>7. CASE ~ syntax[cursor].def.body
    <3>1. frames' = <<>>
      BY <1>1, <2>1, <2>7 DEF BeginFunction
    <3>. QED  BY <2>2, <2>5, <3>1 DEF LookupInv, TablesOK, FailsIfUndefined
  <2>. QED  BY <2>6, <2>7
<1>2. CASE EndFunction
  <2>1. /\ frames # <<>> /\ cursor \in DOMAIN syntax /\ syntax[cursor].n = "EndFunc"
        /\ status = "running"
    BY <1>2, ReadingNode DEF EndFunction, At, Reading, TypeInv
  <2>2. /\ cursor' = cursor + 1 /\ frames' = <<>> /\ cursor \in Nat
        /\ UNCHANGED <<syntax, functions, status>>
    BY <1>2 DEF EndFunction, TypeInv, TypeOK
  <2>3. \A g \in 1 .. (cursor + 1) - 1 : g = cursor \/ g \in 1 .. cursor - 1
    BY <2>2
  <2>4. \A g \in 1 .. cursor' - 1 : syntax'[g].n = "Func" /\ syntax'[g].def.body => g \in functions'
    BY <2>1, <2>2, <2>3 DEF LookupInv, TablesOK
  <2>. QED  BY <2>1, <2>2, <2>4 DEF LookupInv, TablesOK, FailsIfUndefined
<1>3. CASE Finish
  BY <1>3 DEF Finish, LookupInv, TablesOK, FailsIfUndefined
<1>. QED  BY <1>1, <1>2, <1>3

(* Statements that contain an expression or a sequence.                    *)
LEMMA LookupVisitExpOf ==
  ASSUME TypeInv, LookupInv, NEW kind \in {"Return", "CallStmt", "If", "Seq", "Assign"},
         NEW pc \in ControlPoints, VisitExpOf(kind, pc)
  PROVE  LookupInv'
<1>1. /\ At(frames, StmtPoints) /\ frames # <<>> /\ frames \in Seq(Frames)
      /\ cursor \in Nat /\ cursor \in DOMAIN syntax /\ syntax[cursor].n = kind
      /\ status = "running"
  BY ReadingNode DEF VisitExpOf, VisitStmt, TypeInv, TypeOK, At, Reading
<1>2. NewFrame(pc, 0) \in Frames
  BY <1>1, NewFrameType
<1>3. frames'[1].node = frames[1].node
  BY <1>1, <1>2, EnteredOutermost DEF VisitExpOf
<1>4. cursor' = cursor + 1 /\ UNCHANGED <<syntax, symbols, functions, status>>
  BY DEF VisitExpOf, VisitStmt
<1>. QED  BY <1>1, <1>3, <1>4, NodeVisited DEF TypeInv

(* Assignments: the location is found.                                     *)
LEMMA LookupVisitAssign == ASSUME TypeInv, LookupInv, VisitAssign PROVE LookupInv'
<1>1. CASE VisitExpOf("Assign", "AssignExp")
  BY <1>1, LookupVisitExpOf DEF ControlPoints, ExpPoints
<1>2. CASE /\ Reading("Assign") /\ At(frames, StmtPoints) /\ Abort
           /\ ~(syntax[cursor].decl \in symbols /\ syntax[cursor].decl.kind = "kLocal")
  <2>1. /\ cursor \in DOMAIN syntax /\ syntax[cursor].n = "Assign" /\ frames # <<>>
    BY <1>2, ReadingNode DEF TypeInv, At
  <2>2. ~ WellLinked(syntax)
    <3>1. WellLinked(syntax) => syntax[cursor].decl \in symbols
      BY <2>1, SymbolFound DEF TypeInv, LookupInv
    <3>2. WellLinked(syntax) => syntax[cursor].decl.kind = "kLocal"
      BY <2>1 DEF WellLinked
    <3>. QED  BY <1>2, <3>1, <3>2
  <2>. QED  BY <1>2, <2>2, Aborted DEF TypeInv
<1>. QED  BY <1>1, <1>2 DEF VisitAssign

(* Declarations are recorded before their initial value is visited.        *)
LEMMA LookupVisitDecl == ASSUME TypeInv, LookupInv, VisitDecl PROVE LookupInv'
<1>1. /\ At(frames, StmtPoints) /\ frames # <<>> /\ frames \in Seq(Frames)
      /\ cursor \in Nat /\ cursor \in DOMAIN syntax /\ syntax[cursor].n = "Decl"
      /\ status = "running"
  BY ReadingNode DEF VisitDecl, VisitStmt, TypeInv, TypeOK, At, Reading
<1>2. NewFrame("DeclInit", 0) \in Frames
  BY <1>1, NewFrameType DEF ControlPoints, ExpPoints
<1>3. frames'[1].node = frames[1].node
  BY <1>1, <1>2, EnteredOutermost DEF VisitDecl
<1>4. /\ cursor' = cursor + 1 /\ UNCHANGED <<syntax, functions, status>>
      /\ symbols' = symbols \cup {LocalDecl(cursor, syntax[cursor].name, syntax[cursor].type)}
  BY DEF VisitDecl, VisitStmt
<1>. QED  BY <1>1, <1>3, <1>4, NodeVisited DEF TypeInv

(* The head of a loop.                                                     *)
LEMMA LookupVisitWhile == ASSUME TypeInv, LookupInv, VisitWhile PROVE LookupInv'
<1>. DEFINE loop == Len(blocks) + 1
<1>1. /\ At(frames, StmtPoints) /\ frames # <<>> /\ frames \in Seq(Frames)
      /\ cursor \in Nat /\ cursor \in DOMAIN syntax /\ syntax[cursor].n = "While"
      /\ status = "running" /\ loop \in Nat
  BY ReadingNode DEF VisitWhile, VisitStmt, TypeInv, TypeOK, At, Reading
<1>2. NewFrame("WhileCond", loop) \in Frames
  BY <1>1, NewFrameType DEF ControlPoints, ExpPoints
<1>3. frames'[1].node = frames[1].node
  BY <1>1, <1>2, EnteredOutermost DEF VisitWhile
<1>4. cursor' = cursor + 1 /\ UNCHANGED <<syntax, symbols, functions, status>>
  BY DEF VisitWhile, VisitStmt
<1>. QED  BY <1>1, <1>3, <1>4, NodeVisited DEF TypeInv

(* The ends of the statements that contain statements.                     *)
LEMMA LookupEndVisit ==
  ASSUME TypeInv, LookupInv, EndSeq \/ VisitElse \/ EndIf \/ EndWhile
  PROVE  LookupInv'
<1>1. PICK points, mark : EndVisit(points, mark) /\ mark \in Marks
  <2>1. {"EndSeq", "Else", "EndIf", "EndWhile"} \subseteq Marks
    BY DEF Marks
  <2>2. EndSeq => EndVisit({"Seq"}, "EndSeq")
    BY DEF EndSeq
  <2>3. VisitElse => EndVisit({"ThenEnd"}, "Else")
    BY DEF VisitElse
  <2>4. EndIf => EndVisit({"ThenEnd"}, "EndIf") \/ EndVisit({"ElseEnd"}, "EndIf")
    BY DEF EndIf
  <2>5. EndWhile => EndVisit({"BodyEnd"}, "EndWhile")
    BY DEF EndWhile
  <2>. QED  BY <2>1, <2>2, <2>3, <2>4, <2>5
<1>2. /\ frames # <<>> /\ frames \in Seq(Frames) /\ cursor \in DOMAIN syntax
      /\ syntax[cursor].n # "Func" /\ syntax[cursor].n # "Decl" /\ status = "running"
  BY <1>1, ReadingNode DEF EndVisit, TypeInv, TypeOK, At, Reading, Marks
<1>3. frames' # <<>> => frames'[1].node = frames[1].node
  <2>1. "IfElse" \in ControlPoints
    BY DEF ControlPoints, StmtPoints
  <2>. QED  BY <1>2, <2>1, MovedOutermost, PoppedOutermost DEF EndSeq, VisitElse, EndIf, EndWhile
<1>4. cursor' = cursor + 1 /\ UNCHANGED <<syntax, symbols, functions, status>>
  BY <1>1 DEF EndVisit
<1>. QED  BY <1>2, <1>3, <1>4, NodeVisited DEF TypeInv

(* The ends of expressions.                                                *)
LEMMA LookupEndExp ==
  ASSUME TypeInv, LookupInv, NEW pc, EndExp(pc),
         frames' # <<>> => frames'[1].node = frames[1].node
  PROVE  LookupInv'
<1>1. /\ frames # <<>> /\ cursor \in DOMAIN syntax /\ syntax[cursor].n = "EndExp"
      /\ status = "running"
  BY ReadingNode DEF EndExp, TypeInv, TypeOK, At, Reading
<1>2. cursor' = cursor + 1 /\ UNCHANGED <<syntax, symbols, functions, status>>
  BY DEF EndExp
<1>. QED  BY <1>1, <1>2, NodeVisited DEF TypeInv

LEMMA LookupEndStmtExp ==
  ASSUME TypeInv, LookupInv, NEW pc, NEW instrs, EndStmtExp(pc, instrs)
  PROVE  LookupInv'
<1>1. EndExp(pc) /\ frames' = Front(frames) /\ frames # <<>> /\ frames \in Seq(Frames)
  BY DEF EndStmtExp, EndExp, At, TypeInv, TypeOK
<1>. QED  BY <1>1, PoppedOutermost, LookupEndExp

(* Conditions: the frame goes on with its branches.                        *)
LEMMA ReplacedOutermost ==
  ASSUME NEW fs \in Seq(Frames), fs # <<>>, NEW fr \in Frames, fr.node = Last(fs).node
  PROVE  [fs EXCEPT ![Len(fs)] = fr][1].node = fs[1].node
<1>1. /\ Len([fs EXCEPT ![Len(fs)] = fr]) = Len(fs) /\ [fs EXCEPT ![Len(fs)] = fr] \in Seq(Frames)
      /\ \A i \in 1 .. Len(fs) - 1 : [fs EXCEPT ![Len(fs)] = fr][i] = fs[i]
      /\ [fs EXCEPT ![Len(fs)] = fr][Len(fs)] = fr
      /\ Len(fs) \in Nat /\ Len(fs) \in DOMAIN fs /\ Last(fs) = fs[Len(fs)] /\ 1 \in 1 .. Len(fs)
  BY ReplacedFrames, LastFrame
<1>2. Len(fs) = 1 \/ 1 \in 1 .. Len(fs) - 1
  BY <1>1, FirstOfMany
<1>. QED  BY <1>1, <1>2

LEMMA LookupEndCond == ASSUME TypeInv, LookupInv, EndIfCond \/ EndWhileCond PROVE LookupInv'
<1>1. /\ frames # <<>> /\ frames \in Seq(Frames) /\ blocks \in Seq(Blocks)
      /\ Last(frames) \in Frames /\ Last(frames) = frames[Len(frames)]
  BY LastFrame DEF EndIfCond, EndWhileCond, EndExp, At, TypeInv, TypeOK
<1>2. CASE EndIfCond
  <2>. DEFINE else == syntax[Last(frames).node].else
              then == Len(blocks) + 1
              els  == IF else THEN then + 1 ELSE 0
              join == IF else THEN then + 2 ELSE then + 1
              fr   == [Last(frames) EXCEPT !.pc = "IfThen", !.els = els, !.join = join]
  <2>1. frames' = [frames EXCEPT ![Len(frames)] = fr]
    BY <1>1, <1>2 DEF EndIfCond
  <2>2. els \in Nat /\ join \in Nat
    BY <1>1
  <2>3. fr \in Frames /\ fr.node = Last(frames).node
    <3>. HIDE DEF els, join
    <3>. QED  BY <1>1, <2>2 DEF Frames, ControlPoints, StmtPoints
  <2>. HIDE DEF fr
  <2>4. frames'[1].node = frames[1].node
    BY <1>1, <2>1, <2>3, ReplacedOutermost
  <2>. QED  BY <1>2, <2>4, LookupEndExp DEF EndIfCond
<1>3. CASE EndWhileCond
  <2>. DEFINE join == Len(blocks) + 2
              fr   == [Last(frames) EXCEPT !.pc = "WhileBody", !.join = join]
  <2>1. frames' = [frames EXCEPT ![Len(frames)] = fr]
    BY <1>1, <1>3 DEF EndWhileCond
  <2>2. join \in Nat
    BY <1>1
  <2>3. fr \in Frames /\ fr.node = Last(frames).node
    <3>. HIDE DEF join
    <3>. QED  BY <1>1, <2>2 DEF Frames, ControlPoints, StmtPoints
  <2>. HIDE DEF fr
  <2>4. frames'[1].node = frames[1].node
    BY <1>1, <2>1, <2>3, ReplacedOutermost
  <2>. QED  BY <1>3, <2>4, LookupEndExp DEF EndWhileCond
<1>. QED  BY <1>2, <1>3

(* Expressions: variables are found, and functions that have a body.       *)
LEMMA LookupGenerate ==
  ASSUME TypeInv, LookupInv, NEW kind \in ExpNodes, VisitExp(kind),
         NEW vals, NEW instrs, Generate(vals, instrs)
  PROVE  LookupInv'
<1>1. /\ frames # <<>> /\ cursor \in DOMAIN syntax /\ syntax[cursor].n = kind
      /\ status = "running"
  BY ReadingNode DEF VisitExp, TypeInv, TypeOK, At, Reading
<1>2. cursor' = cursor + 1 /\ UNCHANGED <<syntax, frames, symbols, functions, status>>
  BY DEF Generate
<1>. QED  BY <1>1, <1>2, NodeVisited DEF TypeInv, ExpNodes

LEMMA LookupNextExp == ASSUME TypeInv, LookupInv, NextExp PROVE LookupInv'
<1>1. CASE VisitConst
  BY <1>1, LookupGenerate DEF VisitConst, ExpNodes
<1>2. CASE VisitVarExp
  <2>1. /\ VisitExp("Var") /\ cursor \in DOMAIN syntax /\ syntax[cursor].n = "Var" /\ frames # <<>>
    BY <1>2, ReadingNode DEF VisitVarExp, VisitExp, At, TypeInv
  <2>2. WellLinked(syntax) => syntax[cursor].decl \in symbols
    BY <2>1, SymbolFound DEF TypeInv, LookupInv
  <2>3. \/ syntax[cursor].decl \notin symbols /\ Abort
        \/ \E vals, instrs : Generate(vals, instrs)
    BY <1>2 DEF VisitVarExp
  <2>. QED  BY <2>1, <2>2, <2>3, LookupGenerate, Aborted DEF ExpNodes, TypeInv
<1>3. CASE VisitCallExp
  <2>. DEFINE node == syntax[cursor]
  <2>1. /\ VisitExp("Call") /\ cursor \in DOMAIN syntax /\ node.n = "Call" /\ frames # <<>>
        /\ node \in Nodes /\ cursor \in Nat
    BY <1>3, ReadingNode DEF VisitCallExp, VisitExp, At, TypeInv
  <2>2. node.args \in Nat /\ MinArgs(node.name) \in Nat
    BY <2>1, NodeKinds DEF MinArgs
  <2>3. \/ \E vals, instrs : Generate(vals, instrs)
        \/ /\ Abort
           /\ ~(node.name \in OperatorNames /\ node.args >= MinArgs(node.name))
           /\ ~(node.name \notin OperatorNames /\ node.def \in functions)
    BY <1>3 DEF VisitCallExp
  <2>4. WellLinked(syntax) /\ node.def \notin functions => ~ syntax[node.def].def.body
    BY <2>1 DEF WellLinked, LookupInv, TablesOK
  <2>5. ASSUME ~(node.name \in OperatorNames /\ node.args >= MinArgs(node.name)),
               ~(node.name \notin OperatorNames /\ node.def \in functions), WellLinked(syntax)
        PROVE  NotDefined(syntax, cursor)
    BY <2>1, <2>2, <2>4, <2>5 DEF NotDefined
  <2>. QED  BY <2>1, <2>3, <2>5, LookupGenerate, Aborted DEF ExpNodes, TypeInv
<1>. QED  BY <1>1, <1>2, <1>3 DEF NextExp

(* The invariant holds at the start, and every step keeps it.              *)
LEMMA StartLookup == ASSUME Start PROVE LookupInv
  BY DEF Start, LookupInv, TablesOK, FailsIfUndefined

LEMMA NextLookup ==
  ASSUME IInv, LookupInv, [Next \/ Returned]_vars
  PROVE  LookupInv'
<1>1. TypeInv /\ InsertOK
  BY DEF IInv, OpenInv, OthersEnd, InsertOK
<1>2. CASE BeginFunction \/ EndFunction \/ Finish
  BY <1>1, <1>2, LookupFunctions
<1>3. CASE NextExp
  BY <1>1, <1>3, LookupNextExp
<1>4. CASE NextStmt
  <2>1. CASE VisitReturn \/ VisitCallStmt \/ VisitIf \/ VisitSeq
    BY <1>1, <2>1, LookupVisitExpOf
       DEF VisitReturn, VisitCallStmt, VisitIf, VisitSeq, ControlPoints, ExpPoints, StmtPoints
  <2>2. CASE EndCallStmt \/ EndReturn \/ EndAssign \/ EndDeclInit
    BY <1>1, <2>2, StmtExpInstrs, LookupEndStmtExp
  <2>. QED  BY <1>1, <1>4, <2>1, <2>2, LookupVisitAssign, LookupVisitDecl, LookupVisitWhile,
               LookupEndVisit, LookupEndCond
            DEF NextStmt
<1>5. CASE UNCHANGED vars
  BY <1>5 DEF vars, genVars, LookupInv, TablesOK, FailsIfUndefined
<1>. QED  BY <1>2, <1>3, <1>4, <1>5 DEF Next, Returned

(* The program does not change.                                            *)
LEMMA SameProgram == ASSUME [Next \/ Returned]_vars PROVE syntax' = syntax
<1>1. CASE NextExp
  BY <1>1 DEF NextExp, VisitConst, VisitVarExp, VisitCallExp, Generate, Abort
<1>2. CASE NextStmt
  <2>1. \A kind, pc : VisitExpOf(kind, pc) => syntax' = syntax
    BY DEF VisitExpOf
  <2>2. \A pc : EndExp(pc) => syntax' = syntax
    BY DEF EndExp
  <2>3. \A points, mark : EndVisit(points, mark) => syntax' = syntax
    BY DEF EndVisit
  <2>4. EndSeq \/ VisitElse \/ EndIf \/ EndWhile => syntax' = syntax
    BY <2>3 DEF EndSeq, VisitElse, EndIf, EndWhile
  <2>5. EndCallStmt \/ EndReturn \/ EndAssign \/ EndDeclInit \/ EndIfCond \/ EndWhileCond
          => syntax' = syntax
    BY <2>2 DEF EndCallStmt, EndReturn, EndAssign, EndDeclInit, EndStmtExp, EndIfCond, EndWhileCond
  <2>6. VisitReturn \/ VisitCallStmt \/ VisitIf \/ VisitSeq \/ VisitAssign => syntax' = syntax
    BY <2>1 DEF VisitReturn, VisitCallStmt, VisitIf, VisitSeq, VisitAssign, Abort
  <2>7. VisitDecl \/ VisitWhile => syntax' = syntax
    BY DEF VisitDecl, VisitWhile
  <2>. QED  BY <1>2, <2>4, <2>5, <2>6, <2>7 DEF NextStmt
<1>3. CASE BeginFunction \/ EndFunction \/ Finish \/ UNCHANGED vars
  BY <1>3 DEF BeginFunction, EndFunction, Finish, vars
<1>. QED  BY <1>1, <1>2, <1>3 DEF Next, Returned

(* Whatever the program: if it is linked as the typechecker promises, code *)
(* generation fails only at the call of a function with no body, or of an  *)
(* operator with too few operands (Codegen.cpp:107-112, 138-177, 180-185,  *)
(* 230-237).                                                               *)
THEOREM OnlyUndefinedFail == Spec => []FailsIfUndefined
<1>1. LookupInv => FailsIfUndefined
  BY DEF LookupInv
<1>2. Init => LookupInv
  BY StartLookup DEF Init
<1>. QED  BY <1>1, <1>2, Inductive, NextLookup, PTL DEF Spec

\* A program that is linked so, and calls only what is defined.
Sound(prog) == WellLinked(prog) /\ \A k \in DOMAIN prog : ~ NotDefined(prog, k)

LEMMA StaysSound == ASSUME Sound(syntax), [Next \/ Returned]_vars PROVE Sound(syntax)'
  BY SameProgram DEF Sound, WellLinked, DeclaredBefore, InFunction, NotDefined

LEMMA SoundSucceeds == Sound(syntax) /\ FailsIfUndefined => LookupsSucceed
  BY DEF Sound, FailsIfUndefined, LookupsSucceed, NotDefined

(* On programs that are linked so, and call only what is defined, no       *)
(* lookup fails (Codegen.cpp:110-112, 183-185).                            *)
THEOREM LookupsOfLinks ==
  ASSUME \A prog \in Programs : Sound(prog)
  PROVE  Spec => []LookupsSucceed
<1>1. Init => Sound(syntax)
  BY DEF Init
<1>. QED  BY <1>1, StaysSound, SoundSucceeds, OnlyUndefinedFail, PTL DEF Spec
-----------------------------------------------------------------------------
(* What has been generated                                                 *)

(* A step over a node that is not an undefined call, or over none.         *)
LEMMA CallsKept ==
  ASSUME TypeOK, CallsOK, UNCHANGED <<syntax, functions>>, status' # "done",
         \/ cursor' = cursor
         \/ cursor' = cursor + 1 /\ ~ NotDefined(syntax, cursor)
  PROVE  CallsOK'
<1>1. cursor \in Nat
  BY DEF TypeOK
<1>2. \A k \in 1 .. (cursor + 1) - 1 : k = cursor \/ k \in 1 .. cursor - 1
  BY <1>1
<1>. QED  BY <1>2 DEF CallsOK, NotDefined

(* A step over a node that is no call.                                     *)
LEMMA OtherKept ==
  ASSUME TypeOK, CallsOK, NEW kind, kind # "Call", Reading(kind), cursor' = cursor + 1,
         UNCHANGED <<syntax, functions, status>>
  PROVE  CallsOK'
  BY CallsKept DEF Reading, NotDefined

LEMMA CallsNext == ASSUME TypeInv, CallsOK, [Next \/ Returned]_vars PROVE CallsOK'
<1>1. TypeOK
  BY DEF TypeInv
<1>2. CASE NextExp
  <2>1. CASE VisitConst
    BY <1>1, <2>1, OtherKept DEF VisitConst, VisitExp, Generate
  <2>2. CASE VisitVarExp
    <3>1. CASE Abort
      BY <1>1, <3>1, CallsKept DEF Abort
    <3>. QED  BY <1>1, <2>2, <3>1, OtherKept DEF VisitVarExp, VisitExp, Generate
  <2>3. CASE VisitCallExp
    <3>. DEFINE node == syntax[cursor]
    <3>1. Reading("Call") /\ node.args \in Nat /\ MinArgs(node.name) \in Nat
      BY <1>1, <2>3, ReadingNode, NodeKinds DEF VisitCallExp, VisitExp, MinArgs, TypeInv
    <3>2. \/ /\ \E vals, instrs : Generate(vals, instrs)
             /\ \/ node.name \in OperatorNames /\ node.args >= MinArgs(node.name)
                \/ node.name \notin OperatorNames /\ node.def \in functions
          \/ Abort
      BY <2>3 DEF VisitCallExp
    <3>3. CASE Abort
      BY <1>1, <3>3, CallsKept DEF Abort
    <3>4. ASSUME NEW vals, NEW instrs, Generate(vals, instrs),
                 \/ node.name \in OperatorNames /\ node.args >= MinArgs(node.name)
                 \/ node.name \notin OperatorNames /\ node.def \in functions
          PROVE  CallsOK'
      <4>1. ~ NotDefined(syntax, cursor)
        BY <3>1, <3>4 DEF NotDefined, CallsOK
      <4>2. cursor' = cursor + 1 /\ UNCHANGED <<syntax, functions, status>> /\ status = "running"
        BY <3>1, <3>4 DEF Generate, Reading
      <4>. QED  BY <1>1, <4>1, <4>2, CallsKept
    <3>. QED  BY <3>2, <3>3, <3>4
  <2>. QED  BY <1>2, <2>1, <2>2, <2>3 DEF NextExp
<1>3. CASE NextStmt
  <2>1. ASSUME NEW kind, kind # "Call", NEW pc, VisitExpOf(kind, pc) PROVE CallsOK'
    BY <1>1, <2>1, OtherKept DEF VisitExpOf, VisitStmt
  <2>2. ASSUME NEW pc, EndExp(pc) PROVE CallsOK'
    BY <1>1, <2>2, OtherKept DEF EndExp
  <2>3. ASSUME NEW points, NEW mark, mark # "Call", EndVisit(points, mark) PROVE CallsOK'
    BY <1>1, <2>3, OtherKept DEF EndVisit
  <2>4. CASE EndSeq \/ VisitElse \/ EndIf \/ EndWhile
    BY <2>3, <2>4 DEF EndSeq, VisitElse, EndIf, EndWhile
  <2>5. CASE EndCallStmt \/ EndReturn \/ EndAssign \/ EndDeclInit \/ EndIfCond \/ EndWhileCond
    BY <2>2, <2>5
       DEF EndCallStmt, EndReturn, EndAssign, EndDeclInit, EndStmtExp, EndIfCond, EndWhileCond
  <2>6. CASE VisitReturn \/ VisitCallStmt \/ VisitIf \/ VisitSeq
    BY <2>1, <2>6 DEF VisitReturn, VisitCallStmt, VisitIf, VisitSeq
  <2>7. CASE VisitAssign
    <3>1. CASE Abort
      BY <1>1, <3>1, CallsKept DEF Abort
    <3>. QED  BY <2>1, <2>7, <3>1 DEF VisitAssign
  <2>8. CASE VisitDecl \/ VisitWhile
    BY <1>1, <2>8, OtherKept DEF VisitDecl, VisitWhile, VisitStmt
  <2>. QED  BY <1>3, <2>4, <2>5, <2>6, <2>7, <2>8 DEF NextStmt
<1>4. CASE BeginFunction
  <2>1. Reading("Func") /\ cursor' = cursor + 1 /\ UNCHANGED <<syntax, status>>
    BY <1>4 DEF BeginFunction
  <2>2. \A g \in functions' : syntax'[g].def.body
    BY <1>4, <2>1 DEF BeginFunction, CallsOK
  <2>3. \A k \in 1 .. (cursor + 1) - 1 : k = cursor \/ k \in 1 .. cursor - 1
    BY <1>1 DEF TypeOK
  <2>4. \A k \in 1 .. cursor' - 1 : ~ NotDefined(syntax', k)
    BY <2>1, <2>3 DEF Reading, CallsOK, NotDefined
  <2>. QED  BY <2>1, <2>2, <2>4 DEF CallsOK, Reading
<1>5. CASE EndFunction
  BY <1>1, <1>5, OtherKept DEF EndFunction
<1>6. CASE Finish
  BY <1>6 DEF Finish, CallsOK, NotDefined
<1>7. CASE UNCHANGED vars
  BY <1>7 DEF vars, genVars, CallsOK, NotDefined
<1>. QED  BY <1>2, <1>3, <1>4, <1>5, <1>6, <1>7 DEF Next, Returned

LEMMA StartCalls == ASSUME Start PROVE CallsOK
<1>1. 1 .. cursor - 1 = {}
  BY DEF Start
<1>. QED  BY <1>1 DEF Start, CallsOK

LEMMA CallsDone == ASSUME TypeOK, CallsOK PROVE NoneUndefined
<1>1. cursor \in Nat /\ Len(syntax) \in Nat /\ DOMAIN syntax = 1 .. Len(syntax)
  BY DEF TypeOK
<1>2. cursor > Len(syntax) => DOMAIN syntax \subseteq 1 .. cursor - 1
  BY <1>1
<1>. QED  BY <1>2 DEF CallsOK, NoneUndefined

(* Whatever the program: if code generation succeeds, the program calls no *)
(* function without a body, and no operator with too few operands          *)
(* (Codegen.cpp:138-186, 384-386).                                         *)
THEOREM SuccessIfDefined == Spec => []NoneUndefined
<1>1. IInv => TypeInv /\ TypeOK
  BY DEF IInv, TypeInv
<1>2. Init => CallsOK
  BY StartCalls DEF Init
<1>. QED  BY <1>1, <1>2, CallsDone, CallsNext, Inductive, PTL DEF Spec

-----------------------------------------------------------------------------
(* Calls                                                                   *)

\* The definitions that have a body.
Defs(prog) == {f \in DOMAIN prog : prog[f].n = "Func" /\ prog[f].def.body}

\* A call is linked to a definition of the name that it calls.
LinksByName(prog) ==
  \A k \in DOMAIN prog :
    prog[k].n = "Call" /\ prog[k].def \in Defs(prog) => prog[prog[k].def].def.name = prog[k].name

\* The calls of the definition at f in a sequence of blocks, ...
CallsIn(bs, f) ==
  UNION {{b} \X {i \in DOMAIN bs[b] : bs[b][i].callee = f} : b \in DOMAIN bs}

\* ... and the references to it that have been visited.
Referred(f) == {k \in Refers(f) : k < cursor}

\* Every reference so far has become a call, in a finished function or in the
\* current one.
CountOK(f) ==
  /\ IsFiniteSet(CallsOf(f)) /\ IsFiniteSet(CallsIn(blocks, f)) /\ IsFiniteSet(Referred(f))
  /\ Cardinality(CallsOf(f)) + Cardinality(CallsIn(blocks, f)) = Cardinality(Referred(f))

\* The outermost Visit function is that of a function, which has not returned
\* as long as there are blocks.
FunctionPoints == {"FuncBody", "FuncEnd"}

OutermostOK(fs) == fs # <<>> => fs[1].pc \in FunctionPoints

CallsInv ==
  /\ OutermostOK(frames)
  /\ frames = <<>> => blocks = <<>>
  /\ functions \subseteq Defs(syntax)
  /\ status = "done" => frames = <<>> /\ cursor > Len(syntax)
  /\ LinksByName(syntax) /\ NoUserOperators => \A f \in Defs(syntax) : CountOK(f)

-----------------------------------------------------------------------------
(* Two sets of positions that have the same pairs.                         *)
LEMMA SamePairs ==
  ASSUME NEW S \in SUBSET (Nat \X Nat), NEW T \in SUBSET (Nat \X Nat),
         \A b \in Nat, i \in Nat : <<b, i>> \in S <=> <<b, i>> \in T
  PROVE  S = T
  OBVIOUS

(* The positions of the calls.                                             *)
LEMMA InCalls ==
  ASSUME NEW bs \in Seq(Blocks), NEW f
  PROVE  /\ CallsIn(bs, f) \in SUBSET (Nat \X Nat)
         /\ \A b, i : <<b, i>> \in CallsIn(bs, f)
                        <=> b \in DOMAIN bs /\ i \in DOMAIN bs[b] /\ bs[b][i].callee = f
<1>1. \A b \in DOMAIN bs : b \in Nat /\ bs[b] \in Seq(Instrs) /\ DOMAIN bs[b] \subseteq Nat
  BY DEF Blocks
<1>2. \A b, i : <<b, i>> \in CallsIn(bs, f)
                  <=> b \in DOMAIN bs /\ i \in DOMAIN bs[b] /\ bs[b][i].callee = f
  BY DEF CallsIn
<1>3. ASSUME NEW p \in CallsIn(bs, f) PROVE p \in Nat \X Nat
  BY <1>1 DEF CallsIn
<1>. QED  BY <1>2, <1>3

(* The calls in the finished functions.                                    *)
LEMMA InCallsOf ==
  \A f, t : t \in CallsOf(f)
              <=> \E m \in DOMAIN module : \E b \in DOMAIN module[m].blocks :
                    \E i \in DOMAIN module[m].blocks[b] :
                      module[m].blocks[b][i].callee = f /\ t = <<m, b, i>>
  BY DEF CallsOf

(* Appended instructions.                                                  *)
LEMMA PutCalls ==
  ASSUME blocks \in Seq(Blocks), insert \in DOMAIN blocks, NEW instrs \in Seq(Instrs), NEW f
  PROVE  /\ (\A j \in DOMAIN instrs : instrs[j].callee # f) =>
               CallsIn(Put(instrs), f) = CallsIn(blocks, f)
         /\ Len(instrs) = 1 /\ instrs[1].callee = f =>
               /\ CallsIn(Put(instrs), f)
                    = CallsIn(blocks, f) \cup {<<insert, Len(blocks[insert]) + 1>>}
               /\ <<insert, Len(blocks[insert]) + 1>> \notin CallsIn(blocks, f)
<1>. DEFINE put == Put(instrs)
            n   == Len(blocks[insert])
            old == blocks[insert]
<1>1. /\ put \in Seq(Blocks) /\ DOMAIN put = DOMAIN blocks
      /\ \A b \in DOMAIN blocks : b # insert => put[b] = blocks[b]
      /\ put[insert] = old \o instrs /\ insert \in Nat
  BY PutType
<1>2. old \in Seq(Instrs) /\ n = Len(old) /\ n \in Nat
  BY DEF Blocks
<1>. HIDE DEF put, n, old
<1>3. /\ Len(old \o instrs) = n + Len(instrs) /\ Len(instrs) \in Nat
      /\ DOMAIN (old \o instrs) = 1 .. n + Len(instrs) /\ DOMAIN old = 1 .. n
      /\ DOMAIN instrs = 1 .. Len(instrs)
      /\ \A i \in 1 .. n : (old \o instrs)[i] = old[i]
      /\ \A i \in n + 1 .. n + Len(instrs) : (old \o instrs)[i] = instrs[i - n] /\ i - n \in 1 .. Len(instrs)
  BY <1>2
<1>4. \A i \in Nat : i \in DOMAIN (old \o instrs) /\ (old \o instrs)[i].callee = f
         <=> \/ i \in DOMAIN old /\ old[i].callee = f
             \/ i \in n + 1 .. n + Len(instrs) /\ instrs[i - n].callee = f
  <2>1. \A i \in Nat : i \in 1 .. n + Len(instrs) <=> i \in 1 .. n \/ i \in n + 1 .. n + Len(instrs)
    BY <1>2, <1>3
  <2>2. \A i \in Nat : ~ (i \in 1 .. n /\ i \in n + 1 .. n + Len(instrs))
    BY <1>2
  <2>. QED  BY <1>3, <2>1, <2>2
<1>5. \A b \in Nat, i \in Nat : <<b, i>> \in CallsIn(put, f)
         <=> \/ <<b, i>> \in CallsIn(blocks, f)
             \/ b = insert /\ i \in n + 1 .. n + Len(instrs) /\ instrs[i - n].callee = f
  <2>. DEFINE In(bb, b, i) == b \in DOMAIN bb /\ i \in DOMAIN bb[b] /\ bb[b][i].callee = f
  <2>0. put \in Seq(Blocks)
    BY <1>1
  <2>1. /\ \A b, i : <<b, i>> \in CallsIn(put, f) <=> In(put, b, i)
        /\ \A b, i : <<b, i>> \in CallsIn(blocks, f) <=> In(blocks, b, i)
    BY <2>0, InCalls
  <2>2. ASSUME NEW b \in Nat, NEW i \in Nat, b # insert
        PROVE  <<b, i>> \in CallsIn(put, f) <=> <<b, i>> \in CallsIn(blocks, f)
    <3>1. CASE b \in DOMAIN blocks
      BY <1>1, <2>1, <2>2, <3>1
    <3>2. CASE b \notin DOMAIN blocks
      BY <1>1, <2>1, <3>2
    <3>. QED  BY <3>1, <3>2
  <2>3. ASSUME NEW i \in Nat
        PROVE  <<insert, i>> \in CallsIn(put, f)
                 <=> \/ <<insert, i>> \in CallsIn(blocks, f)
                     \/ i \in n + 1 .. n + Len(instrs) /\ instrs[i - n].callee = f
    <3>1. /\ <<insert, i>> \in CallsIn(put, f)
               <=> i \in DOMAIN (old \o instrs) /\ (old \o instrs)[i].callee = f
          /\ <<insert, i>> \in CallsIn(blocks, f) <=> i \in DOMAIN old /\ old[i].callee = f
      BY <1>1, <2>1 DEF old
    <3>. QED  BY <1>4, <3>1
  <2>. QED  BY <2>2, <2>3
<1>6. CallsIn(put, f) \in SUBSET (Nat \X Nat) /\ CallsIn(blocks, f) \in SUBSET (Nat \X Nat)
  BY <1>1, InCalls
<1>7. ASSUME \A j \in DOMAIN instrs : instrs[j].callee # f PROVE CallsIn(put, f) = CallsIn(blocks, f)
  <2>1. \A b \in Nat, i \in Nat : <<b, i>> \in CallsIn(put, f) <=> <<b, i>> \in CallsIn(blocks, f)
    BY <1>3, <1>5, <1>7
  <2>. QED  BY <1>6, <2>1, SamePairs
<1>8. ASSUME Len(instrs) = 1, instrs[1].callee = f
      PROVE  /\ CallsIn(put, f) = CallsIn(blocks, f) \cup {<<insert, n + 1>>}
             /\ <<insert, n + 1>> \notin CallsIn(blocks, f)
  <2>1. \A i \in Nat : i \in n + 1 .. n + Len(instrs) /\ instrs[i - n].callee = f <=> i = n + 1
    <3>1. \A i \in Nat : i \in n + 1 .. n + Len(instrs) <=> i = n + 1
      BY <1>2, <1>8
    <3>2. (n + 1) - n = 1
      BY <1>2
    <3>. QED  BY <1>8, <3>1, <3>2
  <2>2. \A b \in Nat, i \in Nat :
          <<b, i>> \in CallsIn(put, f) <=> <<b, i>> \in CallsIn(blocks, f) \cup {<<insert, n + 1>>}
    BY <1>5, <2>1
  <2>3. CallsIn(blocks, f) \cup {<<insert, n + 1>>} \in SUBSET (Nat \X Nat)
    BY <1>1, <1>2, <1>6
  <2>4. n + 1 \notin DOMAIN old
    BY <1>2, <1>3
  <2>. QED  BY <1>6, <2>2, <2>3, <2>4, SamePairs, InCalls DEF old
<1>. QED  BY <1>7, <1>8 DEF put, n, old

(* New blocks, which are empty.                                            *)
LEMMA NewBlockCalls ==
  ASSUME NEW bs \in Seq(Blocks), NEW n \in Nat, NEW new \in [1 .. n -> {<<>>}], NEW f
  PROVE  CallsIn(bs \o new, f) = CallsIn(bs, f) /\ bs \o new \in Seq(Blocks)
<1>1. new \in Seq(Blocks) /\ Len(new) = n
  <2>1. new \in [1 .. n -> Blocks]
    <3>1. <<>> \in Blocks
      BY DEF Blocks
    <3>. QED  BY <3>1
  <2>2. new \in Seq(Blocks)
    BY <2>1, SeqDef
  <2>. QED  BY <2>1, <2>2
<1>2. bs \o new \in Seq(Blocks) /\ Len(bs \o new) = Len(bs) + n /\ Len(bs) \in Nat
  BY <1>1, ConcatProperties
<1>3. \A b \in 1 .. Len(bs) : (bs \o new)[b] = bs[b]
  BY <1>1
<1>4. \A b \in Len(bs) + 1 .. Len(bs) + n : (bs \o new)[b] = <<>>
  BY <1>1
<1>5. \A b \in Nat : b \in DOMAIN (bs \o new) <=> b \in 1 .. Len(bs) \/ b \in Len(bs) + 1 .. Len(bs) + n
  BY <1>2
<1>. DEFINE cat == bs \o new
<1>6. /\ cat \in Seq(Blocks) /\ \A b \in DOMAIN bs : b \in DOMAIN cat /\ cat[b] = bs[b]
      /\ \A b \in Nat : b \in DOMAIN cat => b \in DOMAIN bs \/ cat[b] = <<>>
  BY <1>2, <1>3, <1>4, <1>5
<1>. HIDE DEF cat
<1>7. \A b \in Nat, i \in Nat : <<b, i>> \in CallsIn(cat, f) <=> <<b, i>> \in CallsIn(bs, f)
  <2>. DEFINE In(bb, b, i) == b \in DOMAIN bb /\ i \in DOMAIN bb[b] /\ bb[b][i].callee = f
  <2>0. cat \in Seq(Blocks)
    BY <1>6
  <2>1. /\ \A b, i : <<b, i>> \in CallsIn(cat, f) <=> In(cat, b, i)
        /\ \A b, i : <<b, i>> \in CallsIn(bs, f) <=> In(bs, b, i)
    BY <2>0, InCalls
  <2>2. DOMAIN <<>> = {}
    OBVIOUS
  <2>3. ASSUME NEW b \in Nat, NEW i \in Nat
        PROVE  <<b, i>> \in CallsIn(cat, f) <=> <<b, i>> \in CallsIn(bs, f)
    <3>1. CASE b \in DOMAIN bs
      BY <1>6, <2>1, <3>1
    <3>2. CASE b \notin DOMAIN bs
      <4>1. b \in DOMAIN cat => cat[b] = <<>>
        BY <1>6, <3>2
      <4>. QED  BY <2>1, <2>2, <3>2, <4>1
    <3>. QED  BY <3>1, <3>2
  <2>. QED  BY <2>3
<1>8. CallsIn(cat, f) \in SUBSET (Nat \X Nat) /\ CallsIn(bs, f) \in SUBSET (Nat \X Nat)
  BY <1>6, InCalls
<1>9. CallsIn(cat, f) = CallsIn(bs, f)
  BY <1>7, <1>8, SamePairs
<1>. QED  BY <1>6, <1>9 DEF cat

(* Sets that a function takes to each other.                               *)
LEMMA SameSize ==
  ASSUME NEW S, NEW T, IsFiniteSet(S), NEW F \in [S -> T],
         \A a, b \in S : F[a] = F[b] => a = b, \A t \in T : \E s \in S : F[s] = t
  PROVE  IsFiniteSet(T) /\ Cardinality(T) = Cardinality(S)
<1>1. F \in Bijection(S, T)
  BY Fun_IsBij
<1>2. ExistsBijection(S, T)
  BY <1>1, Fun_ExistsBij
<1>. QED  BY <1>2, FS_Bijection

(* An instruction at the front of the entry block.                         *)
LEMMA AllocaCalls ==
  ASSUME NEW bs \in Seq(Blocks), 1 \in DOMAIN bs, NEW instr \in Instrs, NEW f, instr.callee # f,
         IsFiniteSet(CallsIn(bs, f))
  PROVE  LET new == [bs EXCEPT ![1] = <<instr>> \o bs[1]]
         IN  /\ IsFiniteSet(CallsIn(new, f))
             /\ Cardinality(CallsIn(new, f)) = Cardinality(CallsIn(bs, f))
<1>. DEFINE new == [bs EXCEPT ![1] = <<instr>> \o bs[1]]
            old == bs[1]
            S == CallsIn(bs, f)
            T == CallsIn(new, f)
            F == [p \in S |-> IF p[1] = 1 THEN <<1, p[2] + 1>> ELSE p]
            In(bb, b, i) == b \in DOMAIN bb /\ i \in DOMAIN bb[b] /\ bb[b][i].callee = f
<1>1. old \in Seq(Instrs) /\ Len(old) \in Nat /\ DOMAIN old = 1 .. Len(old)
  BY DEF Blocks
<1>2. <<instr>> \o old \in Blocks
  BY <1>1 DEF Blocks
<1>3. /\ new \in Seq(Blocks) /\ DOMAIN new = DOMAIN bs /\ new[1] = <<instr>> \o old
      /\ \A b \in DOMAIN bs : b # 1 => new[b] = bs[b]
  BY <1>2
<1>. HIDE DEF old, new
<1>4. /\ DOMAIN (<<instr>> \o old) = 1 .. Len(old) + 1 /\ (<<instr>> \o old)[1] = instr
      /\ \A i \in 2 .. Len(old) + 1 : (<<instr>> \o old)[i] = old[i - 1]
  BY <1>1
<1>5. /\ S \in SUBSET (Nat \X Nat) /\ T \in SUBSET (Nat \X Nat)
      /\ \A b, i : <<b, i>> \in S <=> In(bs, b, i)
      /\ \A b, i : <<b, i>> \in T <=> In(new, b, i)
  BY <1>3, InCalls
<1>6. \A i \in Nat : In(new, 1, i) <=> i - 1 \in 1 .. Len(old) /\ old[i - 1].callee = f
  <2>1. \A i \in Nat : i \in 1 .. Len(old) + 1 <=> i = 1 \/ i \in 2 .. Len(old) + 1
    BY <1>1
  <2>2. \A i \in Nat : i \in 2 .. Len(old) + 1 <=> i - 1 \in 1 .. Len(old)
    BY <1>1
  <2>3. ~ (0 \in 1 .. Len(old)) /\ 1 - 1 = 0
    BY <1>1
  <2>. QED  BY <1>3, <1>4, <2>1, <2>2, <2>3
<1>7. /\ \A i \in Nat : <<1, i>> \in S => <<1, i + 1>> \in T
      /\ \A i \in Nat : <<1, i>> \in T => i - 1 \in Nat /\ <<1, i - 1>> \in S /\ (i - 1) + 1 = i
      /\ \A b \in Nat, i \in Nat : b # 1 => (<<b, i>> \in S <=> <<b, i>> \in T)
  <2>1. \A i \in Nat : i + 1 \in Nat /\ (i + 1) - 1 = i /\ (i - 1) + 1 = i
    OBVIOUS
  <2>2. \A i \in Nat : <<1, i>> \in S <=> i \in 1 .. Len(old) /\ old[i].callee = f
    BY <1>1, <1>5 DEF old
  <2>3. \A i \in Nat : <<1, i>> \in T <=> i - 1 \in 1 .. Len(old) /\ old[i - 1].callee = f
    BY <1>5, <1>6
  <2>4. \A i \in 1 .. Len(old) : i \in Nat
    OBVIOUS
  <2>5. \A b \in Nat, i \in Nat : b # 1 => (In(bs, b, i) <=> In(new, b, i))
    BY <1>3
  <2>. QED  BY <1>5, <2>1, <2>2, <2>3, <2>4, <2>5
<1>. HIDE DEF S, T
<1>8. \A p \in S : p[1] \in Nat /\ p[2] \in Nat /\ p = <<p[1], p[2]>>
  BY <1>5
<1>9. \A t \in T : t[1] \in Nat /\ t[2] \in Nat /\ t = <<t[1], t[2]>>
  BY <1>5
<1>10. F \in [S -> T]
  <2>1. ASSUME NEW p \in S PROVE (IF p[1] = 1 THEN <<1, p[2] + 1>> ELSE p) \in T
    <3>1. CASE p[1] = 1
      BY <1>7, <1>8, <3>1
    <3>2. CASE p[1] # 1
      BY <1>7, <1>8, <3>2
    <3>. QED  BY <3>1, <3>2
  <2>. QED  BY <2>1
<1>11. ASSUME NEW p \in S, NEW q \in S, F[p] = F[q] PROVE p = q
  <2>1. CASE p[1] = 1 /\ q[1] = 1
    <3>1. <<1, p[2] + 1>> = <<1, q[2] + 1>>
      BY <1>11, <2>1
    <3>2. p[2] + 1 = q[2] + 1
      BY <3>1
    <3>3. p[2] = q[2]
      BY <1>8, <3>2
    <3>. QED  BY <1>8, <2>1, <3>3
  <2>2. CASE p[1] # 1 /\ q[1] # 1
    BY <1>11, <2>2
  <2>3. CASE p[1] = 1 /\ q[1] # 1
    <3>1. <<1, p[2] + 1>> = q
      BY <1>11, <2>3
    <3>. QED  BY <2>3, <3>1
  <2>4. CASE p[1] # 1 /\ q[1] = 1
    <3>1. <<1, q[2] + 1>> = p
      BY <1>11, <2>4
    <3>. QED  BY <2>4, <3>1
  <2>. QED  BY <2>1, <2>2, <2>3, <2>4
<1>12. ASSUME NEW t \in T PROVE \E p \in S : F[p] = t
  <2>1. CASE t[1] = 1
    <3>1. <<1, t[2] - 1>> \in S /\ (t[2] - 1) + 1 = t[2]
      BY <1>7, <1>9, <2>1
    <3>2. F[<<1, t[2] - 1>>] = <<1, (t[2] - 1) + 1>>
      BY <3>1
    <3>. QED  BY <1>9, <2>1, <3>1, <3>2
  <2>2. CASE t[1] # 1
    <3>1. t \in S
      BY <1>7, <1>9, <2>2
    <3>. QED  BY <2>2, <3>1
  <2>. QED  BY <2>1, <2>2
<1>13. IsFiniteSet(S)
  BY DEF S
<1>. HIDE DEF F
<1>14. IsFiniteSet(T) /\ Cardinality(T) = Cardinality(S)
  BY <1>10, <1>11, <1>12, <1>13, SameSize
<1>. QED  BY <1>14 DEF S, T, new

(* A finished function adds its calls to those of the module.              *)
LEMMA FinishedCalls ==
  ASSUME module \in Seq([def : Nat, blocks : Seq(Blocks)]), NEW body \in Seq(Blocks), NEW g \in Nat,
         module' = Append(module, [def |-> g, blocks |-> body]), NEW f,
         IsFiniteSet(CallsOf(f)), IsFiniteSet(CallsIn(body, f))
  PROVE  /\ IsFiniteSet(CallsOf(f)')
         /\ Cardinality(CallsOf(f)') = Cardinality(CallsOf(f)) + Cardinality(CallsIn(body, f))
<1>. DEFINE n == Len(module) + 1
            S == CallsIn(body, f)
            T == {<<n, p[1], p[2]>> : p \in S}
            F == [p \in S |-> <<n, p[1], p[2]>>]
            old == CallsOf(f)
            new == CallsOf(f)'
<1>1. /\ n \in Nat /\ n \notin DOMAIN module /\ DOMAIN module' = DOMAIN module \cup {n}
      /\ \A m \in DOMAIN module : module'[m].blocks = module[m].blocks
      /\ module'[n].blocks = body
  <2>1. /\ Len(module) \in Nat /\ DOMAIN module = 1 .. Len(module)
        /\ DOMAIN module' = 1 .. Len(module) + 1
        /\ \A m \in 1 .. Len(module) : module'[m] = module[m]
        /\ module'[Len(module) + 1] = [def |-> g, blocks |-> body]
    OBVIOUS
  <2>. QED  BY <2>1
<1>2. /\ S \in SUBSET (Nat \X Nat)
      /\ \A b, i : <<b, i>> \in S <=> b \in DOMAIN body /\ i \in DOMAIN body[b] /\ body[b][i].callee = f
  BY InCalls
<1>3. \A p \in S : p = <<p[1], p[2]>>
  BY <1>2
<1>4. \A t : t \in old <=> \E m \in DOMAIN module : \E b \in DOMAIN module[m].blocks :
                              \E i \in DOMAIN module[m].blocks[b] :
                                module[m].blocks[b][i].callee = f /\ t = <<m, b, i>>
  BY InCallsOf
<1>5. \A t : t \in new <=> \E m \in DOMAIN module' : \E b \in DOMAIN module'[m].blocks :
                              \E i \in DOMAIN module'[m].blocks[b] :
                                module'[m].blocks[b][i].callee = f /\ t = <<m, b, i>>
  BY DEF CallsOf
<1>6. \A t : t \in T <=> \E b \in DOMAIN body : \E i \in DOMAIN body[b] :
                            body[b][i].callee = f /\ t = <<n, b, i>>
  <2>1. ASSUME NEW t \in T
        PROVE  \E b \in DOMAIN body : \E i \in DOMAIN body[b] : body[b][i].callee = f /\ t = <<n, b, i>>
    <3>1. PICK p \in S : t = <<n, p[1], p[2]>>
      OBVIOUS
    <3>2. p[1] \in DOMAIN body /\ p[2] \in DOMAIN body[p[1]] /\ body[p[1]][p[2]].callee = f
      BY <1>2, <1>3
    <3>. QED  BY <3>1, <3>2
  <2>2. ASSUME NEW b \in DOMAIN body, NEW i \in DOMAIN body[b], body[b][i].callee = f
        PROVE  <<n, b, i>> \in T
    <3>1. <<b, i>> \in S /\ <<b, i>>[1] = b /\ <<b, i>>[2] = i
      BY <1>2, <2>2
    <3>. QED  BY <3>1
  <2>. QED  BY <2>1, <2>2
<1>. HIDE DEF old, new, S, T, n
<1>7. new = old \cup T
  <2>1. \A t : t \in new <=> t \in old \/ t \in T
    BY <1>1, <1>4, <1>5, <1>6
  <2>. QED  BY <2>1
<1>8. old \cap T = {}
  <2>1. \A m, b, i, x, y : <<m, b, i>> = <<n, x, y>> => m = n
    OBVIOUS
  <2>. QED  BY <1>1, <1>4, <1>6, <2>1
<1>9. IsFiniteSet(T) /\ Cardinality(T) = Cardinality(S)
  <2>1. F \in [S -> T] /\ \A t \in T : \E p \in S : F[p] = t
    BY DEF T
  <2>2. ASSUME NEW p \in S, NEW q \in S, F[p] = F[q] PROVE p = q
    <3>1. <<n, p[1], p[2]>> = <<n, q[1], q[2]>>
      BY <2>2
    <3>2. p[1] = q[1] /\ p[2] = q[2]
      BY <3>1
    <3>. QED  BY <1>3, <3>2
  <2>3. IsFiniteSet(S)
    BY DEF S
  <2>. HIDE DEF F
  <2>. QED  BY <2>1, <2>2, <2>3, SameSize
<1>10. IsFiniteSet(old)
  BY DEF old
<1>11. /\ IsFiniteSet(old \cup T)
       /\ Cardinality(old \cup T) = Cardinality(old) + Cardinality(T) - Cardinality(old \cap T)
  BY <1>9, <1>10, FS_Union
<1>12. Cardinality(old) \in Nat /\ Cardinality(T) \in Nat /\ Cardinality(old \cap T) = 0
  BY <1>8, <1>9, <1>10, FS_CardinalityType, FS_EmptySet
<1>13. IsFiniteSet(new) /\ Cardinality(new) = Cardinality(old) + Cardinality(S)
  BY <1>7, <1>9, <1>11, <1>12
<1>. QED  BY <1>13 DEF old, new, S

-----------------------------------------------------------------------------
(* The outermost Visit function stays when a function goes on, ...         *)
LEMMA OutermostMoved ==
  ASSUME NEW fs \in Seq(Frames), fs # <<>>, OutermostOK(fs), NEW pc \in ControlPoints,
         pc \in FunctionPoints \/ Last(fs).pc \notin FunctionPoints
  PROVE  SetPc(fs, pc) # <<>> /\ OutermostOK(SetPc(fs, pc))
<1>1. /\ SetPc(fs, pc) \in Seq(Frames) /\ Len(SetPc(fs, pc)) = Len(fs)
      /\ \A i \in 1 .. Len(fs) - 1 : SetPc(fs, pc)[i] = fs[i]
      /\ SetPc(fs, pc)[Len(fs)] = [Last(fs) EXCEPT !.pc = pc]
  BY SetPcFrames
<1>2. /\ Len(fs) \in Nat /\ Len(fs) \in DOMAIN fs /\ Last(fs) = fs[Len(fs)] /\ Last(fs) \in Frames
      /\ 1 \in 1 .. Len(fs)
  BY LastFrame
<1>3. [Last(fs) EXCEPT !.pc = pc].pc = pc
  BY <1>2 DEF Frames
<1>4. SetPc(fs, pc) # <<>>
  BY <1>1, <1>2
<1>5. CASE Len(fs) = 1
  BY <1>1, <1>2, <1>3, <1>4, <1>5 DEF OutermostOK
<1>6. CASE Len(fs) # 1
  <2>1. 1 \in 1 .. Len(fs) - 1
    BY <1>2, <1>6, FirstOfMany
  <2>. QED  BY <1>1, <1>4, <2>1 DEF OutermostOK
<1>. QED  BY <1>5, <1>6

(* ... when another function returns, ...                                  *)
LEMMA OutermostPopped ==
  ASSUME NEW fs \in Seq(Frames), fs # <<>>, OutermostOK(fs), Last(fs).pc \notin FunctionPoints
  PROVE  Front(fs) # <<>> /\ OutermostOK(Front(fs))
<1>1. /\ Front(fs) \in Seq(Frames) /\ Len(Front(fs)) = Len(fs) - 1 /\ Len(fs) \in Nat
      /\ \A i \in 1 .. Len(fs) - 1 : Front(fs)[i] = fs[i]
      /\ Last(fs) = fs[Len(fs)] /\ 1 \in 1 .. Len(fs)
  BY FrontFrames, LastFrame
<1>2. Len(fs) # 1
  BY <1>1 DEF OutermostOK
<1>3. 1 \in 1 .. Len(fs) - 1
  BY <1>1, <1>2, FirstOfMany
<1>. QED  BY <1>1, <1>3 DEF OutermostOK

(* ... visits a statement, ...                                             *)
LEMMA OutermostEntered ==
  ASSUME NEW fs \in Seq(Frames), At(fs, StmtPoints), OutermostOK(fs)
  PROVE  /\ Resume(fs) # <<>> /\ OutermostOK(Resume(fs))
         /\ \A fr \in Frames : Enter(fs, fr) # <<>> /\ OutermostOK(Enter(fs, fr))
<1>1. fs # <<>> /\ Resume(fs) = SetPc(fs, After[Last(fs).pc]) /\ Last(fs).pc \in StmtPoints
  BY ResumeFrames DEF At
<1>2. /\ After[Last(fs).pc] \in ControlPoints
      /\ After[Last(fs).pc] \in FunctionPoints \/ Last(fs).pc \notin FunctionPoints
  BY <1>1 DEF ControlPoints, StmtPoints, EndPoints, After, FunctionPoints
<1>3. Resume(fs) # <<>> /\ OutermostOK(Resume(fs))
  BY <1>1, <1>2, OutermostMoved
<1>4. ASSUME NEW fr \in Frames PROVE Enter(fs, fr) # <<>> /\ OutermostOK(Enter(fs, fr))
  <2>1. /\ Enter(fs, fr) \in Seq(Frames) /\ Len(Enter(fs, fr)) = Len(fs) + 1 /\ Len(fs) \in Nat
        /\ 1 \in 1 .. Len(fs)
    BY <1>1, EnterFrames, LastFrame
  <2>2. Enter(fs, fr)[1] = Resume(fs)[1]
    BY <2>1, EnterFrames
  <2>. QED  BY <1>3, <2>1, <2>2 DEF OutermostOK
<1>. QED  BY <1>3, <1>4

(* ... or goes on with the branches of a condition.                        *)
LEMMA OutermostReplaced ==
  ASSUME NEW fs \in Seq(Frames), fs # <<>>, OutermostOK(fs), Last(fs).pc \notin FunctionPoints,
         NEW fr \in Frames
  PROVE  [fs EXCEPT ![Len(fs)] = fr] # <<>> /\ OutermostOK([fs EXCEPT ![Len(fs)] = fr])
<1>. DEFINE new == [fs EXCEPT ![Len(fs)] = fr]
<1>1. /\ Len(new) = Len(fs) /\ new \in Seq(Frames)
      /\ \A i \in 1 .. Len(fs) - 1 : new[i] = fs[i]
      /\ Len(fs) \in Nat /\ Last(fs) = fs[Len(fs)] /\ 1 \in 1 .. Len(fs)
  BY ReplacedFrames, LastFrame
<1>. HIDE DEF new
<1>2. Len(fs) # 1
  BY <1>1 DEF OutermostOK
<1>3. 1 \in 1 .. Len(fs) - 1
  BY <1>1, <1>2, FirstOfMany
<1>4. new # <<>> /\ OutermostOK(new)
  BY <1>1, <1>3 DEF OutermostOK
<1>. QED  BY <1>4 DEF new

-----------------------------------------------------------------------------
(* The steps                                                               *)

(* What is appended calls nothing.                                         *)
LEMMA NoneCalled ==
  ASSUME blocks \in Seq(Blocks), insert \in DOMAIN blocks, NEW instrs \in Seq(Instrs),
         NoCalls(instrs), NEW f \in Nat \ {0}
  PROVE  CallsIn(Put(instrs), f) = CallsIn(blocks, f)
  BY PutCalls DEF NoCalls

(* The references before the next node.                                    *)
LEMMA NextReferred ==
  ASSUME TypeOK, UNCHANGED syntax, cursor' = cursor + 1, cursor \in DOMAIN syntax, NEW f
  PROVE  IF syntax[cursor].n = "Call" /\ syntax[cursor].def = f
         THEN Referred(f)' = Referred(f) \cup {cursor} /\ cursor \notin Referred(f)
         ELSE Referred(f)' = Referred(f)
<1>1. cursor \in Nat /\ DOMAIN syntax \subseteq Nat
  BY DEF TypeOK
<1>2. \A k \in Nat : (k < cursor + 1 <=> k < cursor \/ k = cursor) /\ ~ (cursor < cursor)
  BY <1>1
<1>3. Referred(f)' = {k \in Refers(f) : k < cursor + 1}
  BY DEF Referred, Refers
<1>. QED  BY <1>1, <1>2, <1>3 DEF Referred, Refers

(* A step over a node that is no call, which generates no call.            *)
LEMMA CountKept ==
  ASSUME TypeOK, CallsInv, cursor \in DOMAIN syntax, syntax[cursor].n # "Call", status # "done",
         UNCHANGED <<syntax, functions, module, status>>, cursor' = cursor + 1,
         frames' # <<>>, OutermostOK(frames'),
         \A f \in Nat \ {0} : IsFiniteSet(CallsIn(blocks, f)) =>
            /\ IsFiniteSet(CallsIn(blocks', f))
            /\ Cardinality(CallsIn(blocks', f)) = Cardinality(CallsIn(blocks, f))
  PROVE  CallsInv'
<1>1. ASSUME NEW f \in Defs(syntax), CountOK(f) PROVE CountOK(f)'
  <2>1. f \in Nat \ {0}
    BY DEF Defs, TypeOK
  <2>2. Referred(f)' = Referred(f)
    BY NextReferred
  <2>3. CallsOf(f)' = CallsOf(f)
    BY DEF CallsOf
  <2>. QED  BY <1>1, <2>1, <2>2, <2>3 DEF CountOK
<1>2. /\ Defs(syntax)' = Defs(syntax) /\ LinksByName(syntax)' = LinksByName(syntax)
      /\ NoUserOperators' = NoUserOperators
  BY DEF NoUserOperators
<1>. QED  BY <1>1, <1>2 DEF CallsInv

(* ... because what it appends, if anything, calls nothing.                *)
LEMMA CountPut ==
  ASSUME TypeInv, InsertOK, CallsInv, NEW kind, kind # "Call", Reading(kind), frames # <<>>,
         UNCHANGED <<syntax, functions, module, status>>, cursor' = cursor + 1,
         frames' # <<>>, OutermostOK(frames'),
         \/ blocks' = blocks
         \/ \E instrs \in Seq(Instrs) : NoCalls(instrs) /\ blocks' = Put(instrs)
  PROVE  CallsInv'
<1>1. /\ TypeOK /\ blocks \in Seq(Blocks) /\ insert \in DOMAIN blocks
      /\ cursor \in DOMAIN syntax /\ syntax[cursor].n # "Call" /\ status # "done"
  BY ReadingNode DEF TypeInv, TypeOK, InsertOK, Reading
<1>2. \A f \in Nat \ {0} : CallsIn(blocks', f) = CallsIn(blocks, f)
  BY <1>1, NoneCalled
<1>. QED  BY <1>1, <1>2, CountKept

(* A step that changes nothing that matters.                               *)
LEMMA CountSame ==
  ASSUME CallsInv, UNCHANGED <<syntax, cursor, frames, functions, blocks, module>>,
         status' = "done" => frames = <<>> /\ cursor > Len(syntax)
  PROVE  CallsInv'
<1>1. \A f : CountOK(f)' = CountOK(f)
  BY DEF CountOK, CallsOf, Referred, Refers
<1>2. Defs(syntax)' = Defs(syntax) /\ LinksByName(syntax)' = LinksByName(syntax)
      /\ NoUserOperators' = NoUserOperators
  BY DEF NoUserOperators
<1>. QED  BY <1>1, <1>2 DEF CallsInv

(* A failed assertion.                                                     *)
LEMMA CountAbort == ASSUME CallsInv, Abort PROVE CallsInv'
  BY CountSame DEF Abort

(* Statements that contain an expression or a sequence.                    *)
LEMMA CountVisitExpOf ==
  ASSUME TypeInv, InsertOK, CallsInv, NEW kind \in {"Return", "CallStmt", "If", "Seq", "Assign"},
         NEW pc \in ControlPoints, VisitExpOf(kind, pc)
  PROVE  CallsInv'
<1>1. /\ At(frames, StmtPoints) /\ frames # <<>> /\ frames \in Seq(Frames) /\ cursor \in Nat
      /\ Reading(kind) /\ kind # "Call"
  BY DEF VisitExpOf, VisitStmt, TypeInv, TypeOK, At
<1>2. NewFrame(pc, 0) \in Frames
  BY <1>1, NewFrameType
<1>3. frames' # <<>> /\ OutermostOK(frames')
  BY <1>1, <1>2, OutermostEntered DEF VisitExpOf, CallsInv
<1>4. cursor' = cursor + 1 /\ UNCHANGED <<syntax, functions, blocks, module, status>>
  BY DEF VisitExpOf, VisitStmt
<1>. QED  BY <1>1, <1>3, <1>4, CountPut

(* Assignments.                                                            *)
LEMMA CountVisitAssign == ASSUME TypeInv, InsertOK, CallsInv, VisitAssign PROVE CallsInv'
<1>1. VisitExpOf("Assign", "AssignExp") \/ Abort
  BY DEF VisitAssign
<1>. QED  BY <1>1, CountVisitExpOf, CountAbort DEF ControlPoints, ExpPoints

(* Declarations: the alloca moves the calls in the entry block.            *)
LEMMA CountVisitDecl == ASSUME TypeInv, InsertOK, CallsInv, VisitDecl PROVE CallsInv'
<1>. DEFINE decl  == LocalDecl(cursor, syntax[cursor].name, syntax[cursor].type)
            instr == Access("alloca", <<>>, decl)
<1>1. /\ At(frames, StmtPoints) /\ frames # <<>> /\ frames \in Seq(Frames) /\ cursor \in Nat
      /\ Reading("Decl") /\ status # "done"
      /\ cursor \in DOMAIN syntax /\ syntax[cursor].n = "Decl" /\ syntax[cursor] \in Nodes
  BY ReadingNode DEF VisitDecl, VisitStmt, TypeInv, TypeOK, At, Reading
<1>2. NewFrame("DeclInit", 0) \in Frames
  BY <1>1, NewFrameType DEF ControlPoints, ExpPoints
<1>3. frames' # <<>> /\ OutermostOK(frames')
  BY <1>1, <1>2, OutermostEntered DEF VisitDecl, CallsInv
<1>4. /\ cursor' = cursor + 1 /\ UNCHANGED <<syntax, functions, module, status>>
      /\ blocks' = [blocks EXCEPT ![1] = <<instr>> \o blocks[1]]
  BY DEF VisitDecl, VisitStmt
<1>5. blocks \in Seq(Blocks) /\ 1 \in DOMAIN blocks
  BY <1>1 DEF TypeInv, TypeOK, InsertOK
<1>6. instr \in Instrs /\ instr.callee = 0
  <2>1. decl \in VarDecls
    BY <1>1, NodeKinds, LocalDeclType
  <2>. QED  BY <2>1, SomeInstrs, InstrCallee
<1>. HIDE DEF instr
<1>7. \A f \in Nat \ {0} : IsFiniteSet(CallsIn(blocks, f)) =>
         /\ IsFiniteSet(CallsIn(blocks', f))
         /\ Cardinality(CallsIn(blocks', f)) = Cardinality(CallsIn(blocks, f))
  BY <1>4, <1>5, <1>6, AllocaCalls
<1>8. TypeOK
  BY DEF TypeInv
<1>. QED  BY <1>1, <1>3, <1>4, <1>7, <1>8, CountKept

(* A branch, and new blocks behind it.                                     *)
LEMMA CountNewBlocks ==
  ASSUME TypeInv, InsertOK, CallsInv, NEW kind, kind # "Call", Reading(kind), frames # <<>>,
         UNCHANGED <<syntax, functions, module, status>>, cursor' = cursor + 1,
         frames' # <<>>, OutermostOK(frames'),
         NEW instrs \in Seq(Instrs), NoCalls(instrs),
         NEW n \in Nat, NEW new \in [1 .. n -> {<<>>}], blocks' = Put(instrs) \o new
  PROVE  CallsInv'
<1>1. /\ TypeOK /\ blocks \in Seq(Blocks) /\ insert \in DOMAIN blocks
      /\ cursor \in DOMAIN syntax /\ syntax[cursor].n # "Call" /\ status # "done"
  BY ReadingNode DEF TypeInv, TypeOK, InsertOK, Reading
<1>2. Put(instrs) \in Seq(Blocks)
  BY <1>1, PutType
<1>3. \A f \in Nat \ {0} : CallsIn(blocks', f) = CallsIn(blocks, f)
  BY <1>1, <1>2, NoneCalled, NewBlockCalls
<1>. QED  BY <1>1, <1>3, CountKept

(* The head of a loop.                                                     *)
LEMMA CountVisitWhile == ASSUME TypeInv, InsertOK, CallsInv, VisitWhile PROVE CallsInv'
<1>. DEFINE loop == Len(blocks) + 1
            jump == <<Jump("br", <<>>, <<loop>>)>>
<1>1. /\ At(frames, StmtPoints) /\ frames # <<>> /\ frames \in Seq(Frames) /\ cursor \in Nat
      /\ Reading("While") /\ loop \in Nat /\ blocks \in Seq(Blocks) /\ insert \in DOMAIN blocks
  BY DEF VisitWhile, VisitStmt, TypeInv, TypeOK, At, InsertOK
<1>2. NewFrame("WhileCond", loop) \in Frames
  BY <1>1, NewFrameType DEF ControlPoints, ExpPoints
<1>3. frames' # <<>> /\ OutermostOK(frames')
  BY <1>1, <1>2, OutermostEntered DEF VisitWhile, CallsInv
<1>4. cursor' = cursor + 1 /\ UNCHANGED <<syntax, functions, module, status>>
      /\ blocks' = Append(Put(jump), <<>>)
  BY DEF VisitWhile, VisitStmt
<1>5. jump \in Seq(Instrs) /\ NoCalls(jump)
  BY <1>1, SomeInstrs, InstrCallee DEF NoCalls
<1>. HIDE DEF jump
<1>6. Put(jump) \in Seq(Blocks)
  BY <1>1, <1>5, PutType
<1>. DEFINE new == [b \in 1 .. 1 |-> <<>>]
<1>7. new \in [1 .. 1 -> {<<>>}] /\ Append(Put(jump), <<>>) = Put(jump) \o new
  <2>1. << <<>> >> = new
    OBVIOUS
  <2>. DEFINE put == Put(jump)
  <2>2. put \in Seq(Blocks)
    BY <1>6
  <2>. HIDE DEF put
  <2>3. Append(put, <<>>) = put \o << <<>> >>
    BY <2>2 DEF Blocks
  <2>. QED  BY <2>1, <2>3 DEF put
<1>. HIDE DEF new
<1>. QED  BY <1>1, <1>3, <1>4, <1>5, <1>7, CountNewBlocks

(* The ends of the statements that contain statements.                     *)
LEMMA CountEndVisit ==
  ASSUME TypeInv, InsertOK, CallsInv, EndSeq \/ VisitElse \/ EndIf \/ EndWhile
  PROVE  CallsInv'
<1>1. PICK points, mark :
        /\ EndVisit(points, mark) /\ mark \in {"EndSeq", "Else", "EndIf", "EndWhile"}
        /\ points \in {{"Seq"}, {"ThenEnd"}, {"ElseEnd"}, {"BodyEnd"}}
  BY DEF EndSeq, VisitElse, EndIf, EndWhile
<1>2. /\ frames # <<>> /\ frames \in Seq(Frames) /\ Reading(mark) /\ mark # "Call"
      /\ Last(frames).pc \notin FunctionPoints /\ OutermostOK(frames)
      /\ cursor' = cursor + 1 /\ UNCHANGED <<syntax, functions, module, status>>
  BY <1>1 DEF EndVisit, TypeInv, TypeOK, At, FunctionPoints, CallsInv
<1>3. frames' # <<>> /\ OutermostOK(frames')
  <2>1. "IfElse" \in ControlPoints
    BY DEF ControlPoints, StmtPoints
  <2>. QED  BY <1>2, <2>1, OutermostMoved, OutermostPopped DEF EndSeq, VisitElse, EndIf, EndWhile
<1>4. \/ blocks' = blocks
      \/ \E to \in Nat : blocks' = Put(<<Jump("br", <<>>, <<to>>)>>)
  <2>1. Last(frames).loop \in Nat /\ Last(frames).join \in Nat
    BY <1>2, LastFrame DEF Frames
  <2>. QED  BY <2>1 DEF EndSeq, VisitElse, EndIf, EndWhile, BranchUnlessTerminated
<1>5. ASSUME NEW to \in Nat
      PROVE  /\ <<Jump("br", <<>>, <<to>>)>> \in Seq(Instrs)
             /\ NoCalls(<<Jump("br", <<>>, <<to>>)>>)
  BY SomeInstrs, InstrCallee DEF NoCalls
<1>. QED  BY <1>2, <1>3, <1>4, <1>5, CountPut

(* The ends of expressions.                                                *)
LEMMA CountEndStmtExp ==
  ASSUME TypeInv, InsertOK, CallsInv, EndCallStmt \/ EndReturn \/ EndAssign \/ EndDeclInit
  PROVE  CallsInv'
<1>1. PICK pc \in ExpPoints, instrs \in Seq(Instrs) : EndStmtExp(pc, instrs) /\ NoCalls(instrs)
  BY StmtExpInstrs
<1>2. /\ frames # <<>> /\ frames \in Seq(Frames) /\ Reading("EndExp")
      /\ Last(frames).pc \notin FunctionPoints /\ OutermostOK(frames)
      /\ cursor' = cursor + 1 /\ UNCHANGED <<syntax, functions, module, status>>
      /\ blocks' = Put(instrs) /\ frames' = Front(frames)
  BY <1>1 DEF EndStmtExp, EndExp, TypeInv, TypeOK, At, FunctionPoints, ExpPoints, CallsInv
<1>. QED  BY <1>1, <1>2, OutermostPopped, CountPut

(* Conditions: the current block branches to new ones.                     *)
LEMMA CondBranchCalls == ASSUME NEW to PROVE NoCalls(CondBranch(to))
<1>1. CASE ExpType(syntax[cursor - 1]) = "bool"
  BY <1>1, InstrCallee DEF CondBranch, NoCalls
<1>2. CASE ExpType(syntax[cursor - 1]) # "bool"
  <2>1. CondBranch(to) = <<Instr("icmp", <<values[1], "i32">>), Jump("condbr", <<"i1">>, to)>>
    BY <1>2 DEF CondBranch
  <2>2. \A i, j : i.callee = 0 /\ j.callee = 0 => NoCalls(<<i, j>>)
    BY DEF NoCalls
  <2>. QED  BY <2>1, <2>2, InstrCallee
<1>. QED  BY <1>1, <1>2

(* The branches on the conditions of if and while.                         *)
LEMMA CountEndCond == ASSUME TypeInv, InsertOK, CallsInv, EndIfCond \/ EndWhileCond PROVE CallsInv'
<1>1. /\ frames # <<>> /\ frames \in Seq(Frames) /\ Reading("EndExp") /\ values # <<>>
      /\ Last(frames).pc \notin FunctionPoints /\ OutermostOK(frames)
      /\ cursor' = cursor + 1 /\ UNCHANGED <<syntax, functions, module, status>>
      /\ blocks \in Seq(Blocks) /\ TypeOK
  BY DEF EndIfCond, EndWhileCond, EndExp, TypeInv, TypeOK, At, FunctionPoints, CallsInv
<1>2. Last(frames) \in Frames /\ Last(frames) = frames[Len(frames)]
  BY <1>1, LastFrame
<1>3. ASSUME NEW to \in Seq(Nat), NEW n \in Nat, NEW new \in [1 .. n -> {<<>>}],
             blocks' = Put(CondBranch(to)) \o new,
             NEW fr \in Frames, frames' = [frames EXCEPT ![Len(frames)] = fr]
      PROVE  CallsInv'
  <2>1. CondBranch(to) \in Seq(Instrs) /\ NoCalls(CondBranch(to))
    BY <1>1, CondBranchType, CondBranchCalls
  <2>2. frames' # <<>> /\ OutermostOK(frames')
    BY <1>1, <1>3, OutermostReplaced
  <2>. QED  BY <1>1, <1>3, <2>1, <2>2, CountNewBlocks
<1>4. CASE EndIfCond
  <2>. DEFINE else == syntax[Last(frames).node].else
              then == Len(blocks) + 1
              els  == IF else THEN then + 1 ELSE 0
              join == IF else THEN then + 2 ELSE then + 1
              fr   == [Last(frames) EXCEPT !.pc = "IfThen", !.els = els, !.join = join]
              to   == <<then, IF else THEN els ELSE join>>
              n    == IF else THEN 3 ELSE 2
              new  == [b \in 1 .. n |-> <<>>]
  <2>1. frames' = [frames EXCEPT ![Len(frames)] = fr]
    BY <1>2, <1>4 DEF EndIfCond
  <2>2. els \in Nat /\ join \in Nat
    BY <1>1
  <2>3. fr \in Frames
    <3>. HIDE DEF els, join
    <3>. QED  BY <1>2, <2>2, BodyFrame
  <2>4. to \in Seq(Nat) /\ n \in Nat /\ new \in [1 .. n -> {<<>>}]
    BY <1>1
  <2>5. blocks' = Put(CondBranch(to)) \o new
    BY <1>4 DEF EndIfCond
  <2>. HIDE DEF fr, to, n, new
  <2>. QED  BY <1>3, <2>1, <2>3, <2>4, <2>5
<1>5. CASE EndWhileCond
  <2>. DEFINE body == Len(blocks) + 1
              join == Len(blocks) + 2
              fr   == [Last(frames) EXCEPT !.pc = "WhileBody", !.join = join]
              to   == <<body, join>>
              new  == << <<>>, <<>> >>
  <2>1. frames' = [frames EXCEPT ![Len(frames)] = fr]
    BY <1>2, <1>5 DEF EndWhileCond
  <2>2. join \in Nat
    BY <1>1
  <2>3. fr \in Frames
    <3>. HIDE DEF join
    <3>. QED  BY <1>2, <2>2, BodyFrame
  <2>4. to \in Seq(Nat) /\ new \in [1 .. 2 -> {<<>>}]
    BY <1>1
  <2>5. blocks' = Put(CondBranch(to)) \o new
    BY <1>5 DEF EndWhileCond
  <2>. HIDE DEF fr, to, new
  <2>. QED  BY <1>3, <2>1, <2>3, <2>4, <2>5
<1>. QED  BY <1>4, <1>5

-----------------------------------------------------------------------------
(* Expressions                                                             *)

(* A call that is generated is that of its reference.                      *)
LEMMA CountGenerate ==
  ASSUME TypeInv, InsertOK, CallsInv, NEW kind \in ExpNodes, VisitExp(kind),
         NEW vals, NEW instrs \in Seq(Instrs), Generate(vals, instrs),
         \/ NoCalls(instrs) /\ (kind = "Call" => syntax[cursor].name \in OperatorNames)
         \/ /\ kind = "Call" /\ Len(instrs) = 1 /\ instrs[1].callee = syntax[cursor].def
  PROVE  CallsInv'
<1>1. /\ frames # <<>> /\ cursor \in DOMAIN syntax /\ syntax[cursor].n = kind /\ TypeOK
      /\ blocks \in Seq(Blocks) /\ insert \in DOMAIN blocks /\ status = "running"
      /\ DOMAIN syntax \subseteq Nat \ {0}
  BY ReadingNode DEF VisitExp, TypeInv, TypeOK, At, InsertOK, Reading
<1>2. /\ cursor' = cursor + 1 /\ blocks' = Put(instrs)
      /\ UNCHANGED <<syntax, frames, functions, module, status>>
  BY DEF Generate
<1>3. ASSUME LinksByName(syntax), NoUserOperators, NEW f \in Defs(syntax) PROVE CountOK(f)'
  <2>1. CountOK(f) /\ f \in Nat \ {0} /\ CallsOf(f)' = CallsOf(f)
    BY <1>1, <1>2, <1>3 DEF CallsInv, Defs, CallsOf
  <2>2. IF syntax[cursor].n = "Call" /\ syntax[cursor].def = f
        THEN Referred(f)' = Referred(f) \cup {cursor} /\ cursor \notin Referred(f)
        ELSE Referred(f)' = Referred(f)
    BY <1>1, <1>2, NextReferred
  <2>3. CASE syntax[cursor].n = "Call" /\ syntax[cursor].def = f
    <3>1. syntax[cursor].name \notin OperatorNames
      BY <1>1, <1>3, <2>3 DEF LinksByName, NoUserOperators, Defs
    <3>2. Len(instrs) = 1 /\ instrs[1].callee = f
      BY <1>1, <2>3, <3>1
    <3>. DEFINE p == <<insert, Len(blocks[insert]) + 1>>
    <3>3. CallsIn(blocks', f) = CallsIn(blocks, f) \cup {p} /\ p \notin CallsIn(blocks, f)
      BY <1>1, <1>2, <3>2, PutCalls
    <3>. HIDE DEF p
    <3>4. /\ IsFiniteSet(CallsIn(blocks', f))
          /\ Cardinality(CallsIn(blocks', f)) = Cardinality(CallsIn(blocks, f)) + 1
      BY <2>1, <3>3, FS_AddElement DEF CountOK
    <3>5. /\ IsFiniteSet(Referred(f)')
          /\ Cardinality(Referred(f)') = Cardinality(Referred(f)) + 1
      BY <2>1, <2>2, <2>3, FS_AddElement DEF CountOK
    <3>6. /\ Cardinality(CallsOf(f)) \in Nat /\ Cardinality(CallsIn(blocks, f)) \in Nat
          /\ Cardinality(Referred(f)) \in Nat
      BY <2>1, FS_CardinalityType DEF CountOK
    <3>. QED  BY <2>1, <3>4, <3>5, <3>6 DEF CountOK
  <2>4. CASE ~ (syntax[cursor].n = "Call" /\ syntax[cursor].def = f)
    <3>1. \A j \in DOMAIN instrs : instrs[j].callee # f
      <4>1. CASE NoCalls(instrs)
        BY <2>1, <4>1 DEF NoCalls
      <4>2. CASE kind = "Call" /\ Len(instrs) = 1 /\ instrs[1].callee = syntax[cursor].def
        <5>1. \A j \in DOMAIN instrs : j = 1
          BY <4>2
        <5>. QED  BY <1>1, <2>4, <4>2, <5>1
      <4>. QED  BY <4>1, <4>2
    <3>2. CallsIn(blocks', f) = CallsIn(blocks, f)
      BY <1>1, <1>2, <3>1, PutCalls
    <3>. QED  BY <2>1, <2>2, <2>4, <3>2 DEF CountOK
  <2>. QED  BY <2>3, <2>4
<1>4. /\ Defs(syntax)' = Defs(syntax) /\ LinksByName(syntax)' = LinksByName(syntax)
      /\ NoUserOperators' = NoUserOperators
  BY <1>2 DEF NoUserOperators
<1>. QED  BY <1>1, <1>2, <1>3, <1>4 DEF CallsInv

(* Calls of functions, and of operators, which become instructions.        *)
LEMMA CountVisitCallExp == ASSUME TypeInv, InsertOK, CallsInv, VisitCallExp PROVE CallsInv'
<1>. DEFINE node  == syntax[cursor]
            first == Len(values) - node.args
            args  == SubSeq(values, first + 1, Len(values))
            rest  == SubSeq(values, 1, first)
            instr == BuiltinInstr(node.name, args)
            emit  == IF node.name = "int" /\ args[1] = "i32" THEN <<>> ELSE <<instr>>
<1>1. /\ node \in Nodes /\ node.n = "Call" /\ node.args <= Len(values) /\ VisitExp("Call")
      /\ node.args \in Nat /\ node.def \in Nat /\ values \in Seq(IRTypes)
  BY ReadingNode, NodeKinds DEF VisitCallExp, VisitExp, TypeInv, TypeOK
<1>2. args \in Seq(IRTypes) /\ Len(args) = node.args
  <2>1. first \in Nat /\ first <= Len(values) /\ Len(values) \in Nat
    BY <1>1
  <2>. QED  BY <1>1, <2>1
<1>3. \/ Abort
      \/ /\ node.name \in OperatorNames /\ node.args >= MinArgs(node.name)
         /\ Generate(Append(rest, BuiltinType(node.name, args)), emit)
      \/ Generate(Append(rest, ConvertType(syntax[node.def].def.ret)), <<Call(args, node.def)>>)
  BY DEF VisitCallExp
<1>4. ASSUME node.name \in OperatorNames, node.args >= MinArgs(node.name)
      PROVE  emit \in Seq(Instrs) /\ NoCalls(emit)
  <2>1. <<instr>> \in Seq(Instrs)
    BY <1>2, <1>4, BuiltinInstrType
  <2>2. instr.callee = 0
    <3>. HIDE DEF args
    <3>. QED  BY <1>4, InstrCallee DEF BuiltinInstr, OperatorNames, InfixOps, Arith, Compare
  <2>. HIDE DEF instr, args, node
  <2>. QED  BY <2>1, <2>2 DEF NoCalls
<1>5. <<Call(args, node.def)>> \in Seq(Instrs) /\ Call(args, node.def).callee = node.def
  <2>1. "call" \in Opcodes
    BY DEF Opcodes
  <2>. HIDE DEF args, node
  <2>2. Call(args, node.def) \in Instrs
    BY <1>1, <1>2, <2>1, InstrType
  <2>. QED  BY <2>2, InstrCallee
<1>. DEFINE call == <<Call(args, node.def)>>
<1>6. call \in Seq(Instrs) /\ Len(call) = 1 /\ call[1].callee = node.def
  BY <1>5
<1>. HIDE DEF first, args, rest, emit, call
<1>7. \/ Abort
      \/ /\ node.name \in OperatorNames /\ node.args >= MinArgs(node.name)
         /\ \E vals : Generate(vals, emit)
      \/ \E vals : Generate(vals, call)
  BY <1>3 DEF call
<1>. QED  BY <1>1, <1>4, <1>6, <1>7, CountGenerate, CountAbort DEF ExpNodes

(* Expressions.                                                            *)
LEMMA CountNextExp == ASSUME TypeInv, InsertOK, CallsInv, NextExp PROVE CallsInv'
<1>1. <<>> \in Seq(Instrs) /\ NoCalls(<<>>) /\ {"Const", "Var"} \subseteq ExpNodes
  BY DEF NoCalls, ExpNodes
<1>2. CASE VisitConst
  BY <1>1, <1>2, CountGenerate DEF VisitConst
<1>3. CASE VisitVarExp
  <2>. DEFINE decl == syntax[cursor].decl
              load == <<Access("load", <<>>, decl)>>
  <2>1. decl \in VarDecls /\ VisitExp("Var")
    BY <1>3, ReadingNode, NodeKinds DEF VisitVarExp, VisitExp, TypeInv
  <2>2. load \in Seq(Instrs) /\ NoCalls(load)
    BY <2>1, SomeInstrs, InstrCallee DEF NoCalls
  <2>3. Abort \/ \E vals : Generate(vals, load) \/ Generate(vals, <<>>)
    BY <1>3 DEF VisitVarExp
  <2>. HIDE DEF load
  <2>. QED  BY <1>1, <2>1, <2>2, <2>3, CountGenerate, CountAbort
<1>4. CASE VisitCallExp
  BY <1>4, CountVisitCallExp
<1>. QED  BY <1>2, <1>3, <1>4 DEF NextExp

-----------------------------------------------------------------------------
(* Functions                                                               *)

(* No calls without instructions.                                          *)
LEMMA NoBlocksNoCalls ==
  ASSUME NEW f
  PROVE  CallsIn(<<>>, f) = {} /\ CallsIn(<< <<>> >>, f) = {}
  BY DEF CallsIn

(* Functions begin, and end.                                               *)
LEMMA CountFunctions ==
  ASSUME TypeInv, InsertOK, CallsInv, BeginFunction \/ EndFunction \/ Finish
  PROVE  CallsInv'
<1>1. TypeOK /\ (status = "running" => status # "done")
  BY DEF TypeInv
<1>2. CASE BeginFunction
  <2>1. /\ cursor \in DOMAIN syntax /\ syntax[cursor].n = "Func" /\ frames = <<>> /\ blocks = <<>>
        /\ cursor' = cursor + 1 /\ UNCHANGED <<syntax, module, status>> /\ status = "running"
    BY <1>1, <1>2, ReadingNode DEF BeginFunction, CallsInv, Reading
  <2>2. /\ blocks' \in {<<>>, << <<>> >>} /\ (frames' = <<>> => blocks' = <<>>)
        /\ functions' \subseteq Defs(syntax) /\ OutermostOK(frames')
    <3>1. CASE syntax[cursor].def.body
      BY <1>2, <2>1, <3>1 DEF BeginFunction, NewFrame, OutermostOK, FunctionPoints, CallsInv, Defs
    <3>2. CASE ~ syntax[cursor].def.body
      BY <1>2, <2>1, <3>2 DEF BeginFunction, CallsInv
    <3>. QED  BY <3>1, <3>2
  <2>3. ASSUME NEW f \in Defs(syntax), CountOK(f) PROVE CountOK(f)'
    <3>1. CallsIn(blocks', f) = CallsIn(blocks, f)
      BY <2>1, <2>2, NoBlocksNoCalls
    <3>2. Referred(f)' = Referred(f)
      BY <1>1, <2>1, NextReferred
    <3>3. CallsOf(f)' = CallsOf(f)
      BY <2>1 DEF CallsOf
    <3>. QED  BY <2>3, <3>1, <3>2, <3>3 DEF CountOK
  <2>4. /\ Defs(syntax)' = Defs(syntax) /\ LinksByName(syntax)' = LinksByName(syntax)
        /\ NoUserOperators' = NoUserOperators
    BY <2>1 DEF NoUserOperators
  <2>. QED  BY <2>1, <2>2, <2>3, <2>4 DEF CallsInv
<1>3. CASE EndFunction
  <2>. DEFINE ret  == <<Instr("ret", <<"i32">>)>>
              body == IF HasTerminator(blocks[insert]) THEN blocks ELSE Put(ret)
              g    == frames[1].node
  <2>1. /\ cursor \in DOMAIN syntax /\ syntax[cursor].n = "EndFunc" /\ status = "running"
        /\ frames # <<>> /\ frames[1] \in Frames
        /\ blocks \in Seq(Blocks) /\ insert \in DOMAIN blocks
        /\ cursor' = cursor + 1 /\ UNCHANGED <<syntax, functions, status>>
        /\ module \in Seq([def : Nat, blocks : Seq(Blocks)])
        /\ frames' = <<>> /\ blocks' = <<>> /\ module' = Append(module, [def |-> g, blocks |-> body])
    BY <1>3, ReadingNode DEF EndFunction, TypeInv, TypeOK, InsertOK, At, Reading
  <2>2. ret \in Seq(Instrs) /\ NoCalls(ret)
    BY SomeInstrs, InstrCallee DEF NoCalls, IRTypes
  <2>. HIDE DEF ret
  <2>3. body \in Seq(Blocks) /\ g \in Nat
    BY <2>1, <2>2, PutType DEF Frames
  <2>4. \A f \in Nat \ {0} : CallsIn(body, f) = CallsIn(blocks, f)
    BY <2>1, <2>2, NoneCalled
  <2>. HIDE DEF body, g
  <2>5. ASSUME NEW f \in Defs(syntax), CountOK(f) PROVE CountOK(f)'
    <3>1. f \in Nat \ {0}
      BY <1>1 DEF Defs, TypeOK
    <3>2. CallsIn(body, f) = CallsIn(blocks, f)
      BY <2>4, <3>1
    <3>3. /\ IsFiniteSet(CallsOf(f)')
          /\ Cardinality(CallsOf(f)') = Cardinality(CallsOf(f)) + Cardinality(CallsIn(blocks, f))
      BY <2>1, <2>3, <2>5, <3>2, FinishedCalls DEF CountOK
    <3>4. IsFiniteSet(CallsIn(blocks', f)) /\ Cardinality(CallsIn(blocks', f)) = 0
      BY <2>1, NoBlocksNoCalls, FS_EmptySet
    <3>5. Referred(f)' = Referred(f)
      BY <1>1, <2>1, NextReferred
    <3>6. Cardinality(CallsOf(f)) \in Nat /\ Cardinality(CallsIn(blocks, f)) \in Nat
      BY <2>5, FS_CardinalityType DEF CountOK
    <3>. QED  BY <2>5, <3>3, <3>4, <3>5, <3>6 DEF CountOK
  <2>6. /\ Defs(syntax)' = Defs(syntax) /\ LinksByName(syntax)' = LinksByName(syntax)
        /\ NoUserOperators' = NoUserOperators
    BY <2>1 DEF NoUserOperators
  <2>7. status' # "done" /\ OutermostOK(frames')
    BY <2>1 DEF OutermostOK
  <2>. QED  BY <2>1, <2>5, <2>6, <2>7 DEF CallsInv
<1>4. CASE Finish
  BY <1>4, CountSame DEF Finish
<1>. QED  BY <1>2, <1>3, <1>4

-----------------------------------------------------------------------------
(* The invariant holds at the start, and every step keeps it.              *)
LEMMA StartCount == ASSUME syntax \in Seq(Nodes), Start PROVE CallsInv
<1>1. ASSUME NEW f \in Defs(syntax) PROVE CountOK(f)
  <2>1. CallsOf(f) = {} /\ CallsIn(blocks, f) = {}
    BY NoBlocksNoCalls DEF Start, CallsOf
  <2>2. Referred(f) = {}
    BY DEF Start, Referred, Refers
  <2>. QED  BY <2>1, <2>2, FS_EmptySet DEF CountOK
<1>. QED  BY <1>1 DEF Start, CallsInv, OutermostOK

LEMMA NextCount ==
  ASSUME IInv, CallsInv, [Next \/ Returned]_vars
  PROVE  CallsInv'
<1>1. TypeInv /\ InsertOK
  BY DEF IInv, OpenInv, OthersEnd, InsertOK
<1>2. CASE BeginFunction \/ EndFunction \/ Finish
  BY <1>1, <1>2, CountFunctions
<1>3. CASE NextExp
  BY <1>1, <1>3, CountNextExp
<1>4. CASE NextStmt
  <2>1. CASE VisitReturn \/ VisitCallStmt \/ VisitIf \/ VisitSeq
    BY <1>1, <2>1, CountVisitExpOf
       DEF VisitReturn, VisitCallStmt, VisitIf, VisitSeq, ControlPoints, ExpPoints, StmtPoints
  <2>. QED  BY <1>1, <1>4, <2>1, CountVisitAssign, CountVisitDecl, CountVisitWhile,
               CountEndVisit, CountEndStmtExp, CountEndCond
            DEF NextStmt
<1>5. CASE UNCHANGED vars
  BY <1>5, CountSame DEF vars, genVars, CallsInv
<1>. QED  BY <1>2, <1>3, <1>4, <1>5 DEF Next, Returned

(* At the end, the references visited are all there are.                   *)
LEMMA CountsDone ==
  ASSUME TypeOK, CallsInv, LinksByName(syntax), NoUserOperators
  PROVE  DefinitionsAreCalled
<1>1. ASSUME status = "done", NEW f \in functions
      PROVE  Cardinality(CallsOf(f)) = Cardinality(Refers(f))
  <2>1. blocks = <<>> /\ cursor > Len(syntax) /\ CountOK(f)
    BY <1>1 DEF CallsInv
  <2>2. Referred(f) = Refers(f)
    <3>1. \A k \in DOMAIN syntax : k < cursor
      BY <2>1 DEF TypeOK
    <3>. QED  BY <3>1 DEF Referred, Refers
  <2>3. Cardinality(CallsIn(blocks, f)) = 0 /\ Cardinality(CallsOf(f)) \in Nat
    BY <2>1, NoBlocksNoCalls, FS_EmptySet, FS_CardinalityType DEF CountOK
  <2>. QED  BY <2>1, <2>2, <2>3 DEF CountOK
<1>. QED  BY <1>1 DEF DefinitionsAreCalled

\* What the finished module calls.
CalledAsReferred == LinksByName(syntax) /\ NoUserOperators => DefinitionsAreCalled

(* Whatever the program: if every call has the name of the definition that *)
(* it is linked to, and no function with a body is named as an operator,   *)
(* then the finished module calls every definition exactly as often as the *)
(* program refers to it (Codegen.cpp:138-189; Token.h:114-116).             *)
THEOREM ReferencesBecomeCalls == Spec => []CalledAsReferred
<1>1. IInv => TypeOK
  BY DEF IInv, TypeInv
<1>2. Init => CallsInv
  BY StartCount, CodegenAssumption DEF Init
<1>3. TypeOK /\ CallsInv => CalledAsReferred
  BY CountsDone DEF CalledAsReferred
<1>. QED  BY <1>1, <1>2, <1>3, NextCount, Inductive, PTL DEF Spec
=============================================================================
