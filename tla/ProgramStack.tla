---------------------------- MODULE ProgramStack ----------------------------
(***************************************************************************)
(* The runtime stack of the virtual machine (Program_stack.h,              *)
(* Program_stack.cpp) as operators on the object's fields.  The stack      *)
(* grows towards index 0; `top' is the next free cell and `topsp' the      *)
(* first local of the active function.  A method that throws or asserts    *)
(* has a predicate of its own (Overflows, ...Asserts): the caller stops    *)
(* the machine when it holds and uses the method's result when it does not *)
(***************************************************************************)
EXTENDS Memcells, Sequences

CONSTANTS
  AVM_STACK_SIZE,   \* cells of the stack (4096 in the code)
  TotalProgramVars, \* total_program_vars, read from the binary's header
  UIntRange         \* 2^w for the unsigned int that indices are compared in

ASSUME StackAssumption ==
  /\ AVM_STACK_SIZE \in Nat
  /\ TotalProgramVars \in 0 .. AVM_STACK_SIZE
  /\ UIntRange \in Nat
  /\ UIntRange > AVM_STACK_SIZE

AVM_ENV_SIZE         == 4
SAVED_TOPSP_OFFSET   == 1
SAVED_TOP_OFFSET     == 2
SAVED_PC_OFFSET      == 3
SAVED_TOTAL_ACTUALS  == 4

Indices == 0 .. AVM_STACK_SIZE - 1

(* The top of a stack on which only the program variables are allocated.   *)
ProgramTop == AVM_STACK_SIZE - TotalProgramVars - 1

(* A conversion of int to unsigned int.                                    *)
AsUnsigned(n) == IF n < 0 THEN n + UIntRange ELSE n

StackObject ==
  [stack                : [Indices -> Memcell],
   top                  : -1 .. AVM_STACK_SIZE - 1,
   topsp                : -1 .. AVM_STACK_SIZE - 1,
   total_actuals        : Nat,
   fcall_depth          : Nat,
   saved_pointers_stack : Seq(Int \X Int)]

(* The constructor. *)
NewStack ==
  [stack                |-> [i \in Indices |-> Undef],
   top                  |-> ProgramTop,
   topsp                |-> ProgramTop,
   total_actuals        |-> 0,
   fcall_depth          |-> 0,
   saved_pointers_stack |-> << >>]

(* Mutant of Overflows: the comparison is off by one.                      *)
OverflowsLate(s, n) == n > s.top + 2

(* allocate_memcells throws "Stack Overflow" when fewer than n cells are   *)
(* free; it never touches the cells it hands out.                          *)
Overflows(s, n) == n > s.top + 1

AllocateMemcells(s, n) == [s EXCEPT !.top = @ - n]

(* Mutant of PushActualArg: the argument is not counted.                   *)
PushActualArgUncounted(s, cell) ==
  [s EXCEPT !.stack[s.top] = cell, !.top = @ - 1]

(* push_actual_arg.  The cell at the old top is free, so that assign() has *)
(* nothing to release: it makes the cell a copy of the argument.           *)
PushActualArg(s, cell) ==
  [s EXCEPT !.stack         = [@ EXCEPT ![s.top] = cell],
            !.top           = @ - 1,
            !.total_actuals = @ + 1]

(* save_environment: four number cells below the actual arguments hold     *)
(* topsp, the top without the arguments, the return address and the number *)
(* of arguments; the callee's first local will be the cell under them.     *)
SaveEnvironment(s, pc) ==
  LET base == s.top - AVM_ENV_SIZE
  IN  [s EXCEPT !.stack = [i \in Indices |->
                  CASE i = base + SAVED_TOPSP_OFFSET  -> Number(s.topsp)
                    [] i = base + SAVED_TOP_OFFSET    -> Number(s.top + s.total_actuals)
                    [] i = base + SAVED_PC_OFFSET     -> Number(pc + 1)
                    [] i = base + SAVED_TOTAL_ACTUALS -> Number(s.total_actuals)
                    [] OTHER                          -> s.stack[i]],
                !.top           = base,
                !.topsp         = base,
                !.total_actuals = 0,
                !.fcall_depth   = @ + 1]

(* get_env_value: the cell must hold a non-negative whole number.          *)
EnvValueAsserts(s, idx) ==
  \/ idx \notin Indices
  \/ s.stack[idx].type # "number"
  \/ s.stack[idx].value < 0

EnvValue(s, offset) == s.stack[s.topsp + offset].value

(* restore_environment, split into the pc it returns and the object it     *)
(* leaves.  The loop clears the cells old_top + 1 .. top.                  *)
RestoreAsserts(s) ==
  \/ s.fcall_depth = 0
  \/ s.saved_pointers_stack # << >>
  \/ \E offset \in {SAVED_PC_OFFSET, SAVED_TOP_OFFSET, SAVED_TOPSP_OFFSET} :
       EnvValueAsserts(s, s.topsp + offset)

SavedPc(s) == EnvValue(s, SAVED_PC_OFFSET)

(* Mutant of RestoreEnvironment: topsp is restored before the saved top is *)
(* read, which then comes from the caller's environment.                   *)
RestoreEnvironmentSwapped(s) ==
  LET topsp == EnvValue(s, SAVED_TOPSP_OFFSET)
      top   == IF topsp + SAVED_TOP_OFFSET \in Indices
               THEN s.stack[topsp + SAVED_TOP_OFFSET].value ELSE topsp
  IN  [s EXCEPT !.top = top, !.topsp = topsp, !.fcall_depth = @ - 1]

(* Mutant of RestoreEnvironment: the loop stops before the saved top.      *)
RestoreEnvironmentKeepingLast(s) ==
  LET top == EnvValue(s, SAVED_TOP_OFFSET)
  IN  [s EXCEPT !.stack = [i \in Indices |->
                             IF i \in s.top + 1 .. top - 1 THEN Clear(s.stack[i])
                                                           ELSE s.stack[i]],
                !.top         = top,
                !.topsp       = EnvValue(s, SAVED_TOPSP_OFFSET),
                !.fcall_depth = @ - 1]

RestoreEnvironment(s) ==
  LET top == EnvValue(s, SAVED_TOP_OFFSET)
  IN  [s EXCEPT !.stack = [i \in Indices |->
                             IF i \in s.top + 1 .. top THEN Clear(s.stack[i])
                                                       ELSE s.stack[i]],
                !.top         = top,
                !.topsp       = EnvValue(s, SAVED_TOPSP_OFFSET),
                !.fcall_depth = @ - 1]

(* get_total_actuals reads the saved environment of the active function.   *)
TotalActuals(s) == EnvValue(s, SAVED_TOTAL_ACTUALS)

(* assert_index compares the int `top' with an unsigned index.             *)
AssertIndex(s, idx) == AsUnsigned(s.top) < idx /\ idx < AVM_STACK_SIZE

(* Mutants: the first local and the first argument are each one cell off,  *)
(* inside the environment.                                                 *)
LocalVarIndexOff(s, offset)  == AsUnsigned(s.topsp - offset + 1)
ActualArgIndexOff(s, offset) == AsUnsigned(s.topsp + AVM_ENV_SIZE + offset)

ProgramVarIndex(offset)   == AVM_STACK_SIZE - 1 - offset
LocalVarIndex(s, offset)  == AsUnsigned(s.topsp - offset)
ActualArgIndex(s, offset) == AsUnsigned(s.topsp + AVM_ENV_SIZE + 1 + offset)

(* move_up and move_down visit the caller's record without restoring it.   *)
MoveUp(s) ==
  [s EXCEPT !.saved_pointers_stack = Append(@, <<s.top, s.topsp>>),
            !.top                  = EnvValue(s, SAVED_TOP_OFFSET),
            !.topsp                = EnvValue(s, SAVED_TOPSP_OFFSET)]

MoveDown(s) ==
  LET pointers == s.saved_pointers_stack[Len(s.saved_pointers_stack)]
  IN  [s EXCEPT !.saved_pointers_stack = SubSeq(@, 1, Len(@) - 1),
                !.top                  = pointers[1],
                !.topsp                = pointers[2]]
=============================================================================
