------------------------------ MODULE Visitor -------------------------------
(***************************************************************************)
(* The traversal that the typechecker and the code generator share         *)
(* (Visitor.h).  The C++ call stack of active Visit functions is a         *)
(* sequence of frames; the control point of a frame says what its Visit    *)
(* function does next once the frames above it have returned.              *)
(***************************************************************************)
EXTENDS Syntax, SequencesExt

\* Control points at which a Visit function calls the visitor on a statement.
StmtPoints == {"FuncBody", "Seq", "IfThen", "IfElse", "WhileBody"}

\* ... at which it waits for the expression that it is visiting.
ExpPoints == {"DeclInit", "AssignExp", "ReturnExp", "CallExp", "IfCond", "WhileCond"}

\* ... and at which its last statement has been visited.
EndPoints == {"FuncEnd", "ThenEnd", "ElseEnd", "BodyEnd"}

ControlPoints == StmtPoints \cup ExpPoints \cup EndPoints

\* Where a Visit function resumes after a statement started at a StmtPoint.
After == [FuncBody |-> "FuncEnd", Seq |-> "Seq", IfThen |-> "ThenEnd",
          IfElse |-> "ElseEnd", WhileBody |-> "BodyEnd"]

SetPc(fs, pc) == [fs EXCEPT ![Len(fs)].pc = pc]

\* The statement being started needs no frame (it contains nothing to visit) ...
Resume(fs) == [fs EXCEPT ![Len(fs)].pc = After[@]]

\* ... or it does.
Enter(fs, frame) == Append(Resume(fs), frame)

At(fs, points) == fs # <<>> /\ Last(fs).pc \in points
=============================================================================
