----------------------------- MODULE FrameChain -----------------------------
(***************************************************************************)
(* Calls with a history variable: `frames' records, for every active       *)
(* function, what its caller's registers were when it was called.  The     *)
(* machine keeps this only in the environment cells of its stack, linked   *)
(* by the saved topsp; the invariants say that the cells still hold it     *)
(* whatever the program has done since.                                    *)
(***************************************************************************)
EXTENDS Calls

VARIABLE frames

hvars == <<program_stack, retval, pc, outcome, frames>>

(* The record of a call made now. *)
FrameOfCall ==
  [base  |-> program_stack.top - AVM_ENV_SIZE,
   topsp |-> program_stack.topsp,
   top   |-> program_stack.top + program_stack.total_actuals,
   ret   |-> pc + 1,
   args  |-> program_stack.total_actuals]

Depth == program_stack.fcall_depth

RecordFrames ==
  frames' = CASE Depth' > Depth ->
                   [k \in 1 .. Depth' |-> IF k <= Depth THEN frames[k] ELSE FrameOfCall]
              [] Depth' < Depth -> [k \in 1 .. Depth' |-> frames[k]]
              [] OTHER          -> frames

HInit == Init /\ frames = << >>
HNext == Next /\ RecordFrames
HSpec == HInit /\ [][HNext]_hvars

-----------------------------------------------------------------------------
Frame ==
  [base : Int, topsp : Int, top : Int, ret : BodyAddresses, args : Nat]

(* The types of the variables.  Every userfunc that a program can reach    *)
(* names a funcenter, so that execute_call's assertion on the callee never *)
(* fires, and pc never leaves the code.                                    *)
TypeOK ==
  /\ program_stack \in StackObject
  /\ program_stack.saved_pointers_stack = << >>
  /\ \A i \in Indices : program_stack.stack[i] \in Cell
  /\ retval \in Cell
  /\ pc \in BodyAddresses \cup DOMAIN UserFuncs
  /\ outcome \in Outcomes
  /\ frames \in [1 .. Depth -> Frame]

(* The four cells above a frame's base hold its caller's registers.        *)
EnvironmentHolds(f) ==
  /\ program_stack.stack[f.base + SAVED_TOPSP_OFFSET]  = Number(f.topsp)
  /\ program_stack.stack[f.base + SAVED_TOP_OFFSET]    = Number(f.top)
  /\ program_stack.stack[f.base + SAVED_PC_OFFSET]     = Number(f.ret)
  /\ program_stack.stack[f.base + SAVED_TOTAL_ACTUALS] = Number(f.args)

(* One frame's cells: environment, arguments, then the caller's locals.    *)
FrameFits(f) ==
  /\ f.base >= -1
  /\ f.top = f.base + AVM_ENV_SIZE + f.args
  /\ f.top <= f.topsp
  /\ f.topsp <= ProgramTop

(* Every frame links to the one before it, the first to program scope, and *)
(* lies wholly below all the frames that were active when it was made.     *)
Linked ==
  /\ \A k \in 1 .. Depth :
       frames[k].topsp = IF k = 1 THEN ProgramTop ELSE frames[k - 1].base
  /\ \A i, j \in 1 .. Depth : i < j => frames[j].top <= frames[i].base

(* The registers describe the newest frame.                                *)
RegistersMatch ==
  /\ program_stack.topsp = IF Depth = 0 THEN ProgramTop ELSE frames[Depth].base
  /\ program_stack.top + program_stack.total_actuals <= program_stack.topsp

(* No step of any function, however deep, damages the environment of any   *)
(* active function: local, formal and program variables, pushed arguments  *)
(* and newer environments all live in other cells.                         *)
EnvironmentsIntact ==
  \A k \in 1 .. Depth : EnvironmentHolds(frames[k]) /\ FrameFits(frames[k])

ChainInv == RegistersMatch /\ Linked /\ EnvironmentsIntact

(* The assertions of restore_environment and get_env_value never fire: at  *)
(* every point where a function could return, what it needs is there.      *)
NeverLosesEnvironment ==
  /\ outcome # "assert_env"
  /\ InFunction => ~RestoreAsserts(program_stack)

(* A return undoes its call: the registers become what the caller had      *)
(* before it pushed the first argument, and execution goes on after the    *)
(* call (Program_stack.h:75-82).                                           *)
ReturnRestoresCaller ==
  [][Depth' < Depth =>
       LET f == frames[Depth]
       IN  /\ pc' = f.ret
           /\ program_stack'.top = f.top
           /\ program_stack'.topsp = f.topsp
           /\ program_stack'.total_actuals = 0]_hvars

(* Free cells own no memory.  allocate_memcells and save_environment hand  *)
(* cells out without clearing them, so a string or table left in a free    *)
(* cell would never be released, and its table never freed.                *)
FreeCellsOwnNothing ==
  \A i \in Indices :
    i <= program_stack.top => program_stack.stack[i].type \notin Resource

(* A claim of AVM.h:45: whatever goes wrong in run() is reported as an     *)
(* alpha_runtime_error.                                                    *)
StopsByRuntimeError == outcome \in {"running", "runtime_error"}

-----------------------------------------------------------------------------
(* The refinement: the cells between two environments are the arguments    *)
(* and locals of an activation record.                                     *)
CellsDown(first, last) ==
  [i \in 1 .. first - last + 1 |-> program_stack.stack[first - i + 1]]

CellsUp(first, last) ==
  [i \in 1 .. last - first + 1 |-> program_stack.stack[first + i - 1]]

(* The lowest cell of the k-th frame's locals.                             *)
LastLocal(k) ==
  IF k = Depth THEN program_stack.top + program_stack.total_actuals + 1
                     ELSE frames[k + 1].top + 1

RecordOf(k) ==
  LET f == frames[k]
  IN  [ret     |-> f.ret,
       actuals |-> CellsUp(f.base + AVM_ENV_SIZE + 1, f.top),
       locals  |-> CellsDown(f.base, LastLocal(k))]

Records == INSTANCE ActivationRecords WITH
  NrProgramVars <- TotalProgramVars,
  globals <- CellsDown(AVM_STACK_SIZE - 1, ProgramTop + 1),
  records <- [k \in 1 .. Depth |-> RecordOf(k)],
  pending <- CellsUp(program_stack.top + 1,
                     program_stack.top + program_stack.total_actuals)

(* The stack of cells implements the stack of activation records.          *)
ImplementsRecords == Records!Spec
=============================================================================
