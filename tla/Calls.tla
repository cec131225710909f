-------------------------------- MODULE Calls --------------------------------
(***************************************************************************)
(* The calling sequence of the virtual machine: the instructions of        *)
(* AVM/dispatcher/functions.cpp (pusharg, call, funcenter, funcexit), the  *)
(* assign and jump of dispatcher/misc.cpp, the library functions that walk *)
(* the stack (builtin_funcs/functions.cpp) and the operand translation and *)
(* cycle of AVM.cpp, over the Program_stack.                               *)
(*                                                                         *)
(* The program is the most general one the code generator can emit: at     *)
(* each body address any instruction may stand, with any operand that the  *)
(* enclosing function may name.  What the generator guarantees is in the   *)
(* guards: a funcenter stands at each function's address and is reached    *)
(* only by a call, local offsets are below the frame's locals, formals are *)
(* named only inside functions, a function does not return between a       *)
(* pusharg and its call, and no call is directly followed by a funcexit    *)
(* (an assign from retval stands between them).                            *)
(***************************************************************************)
EXTENDS ProgramStack

CONSTANTS
  BodyAddresses, \* the addresses of instructions other than funcenter
  StartAddress,  \* where the program scope starts executing
  UserFuncs,     \* address of a function's funcenter -> number of its locals
  NrFormals,     \* formals a function may declare
  MaxActuals,    \* bound of the model: arguments of one call
  Literals,      \* the cells the constants pool can load into a register
  Functor,       \* table -> what get_elem("()") finds in it, Undef if nothing
  LibNames,      \* the strings and libfuncs that name_to_libfunc_map knows
  Argument,      \* the libfunc "argument"
  TotalArguments,\* the libfunc "totalarguments"
  LibResults     \* what the other library functions may leave in retval

(* The cells a program can hold: a userfunc names a funcenter, a table one *)
(* of the tables there are.                                                *)
Cell ==
  {c \in Memcell : /\ c.type = "userfunc" => c.value \in DOMAIN UserFuncs
                   /\ c.type = "table"    => c.value \in DOMAIN Functor}

ASSUME CallsAssumption ==
  /\ BodyAddresses \subseteq Nat
  /\ StartAddress \in BodyAddresses
  /\ DOMAIN UserFuncs \subseteq Nat
  /\ \A f \in DOMAIN UserFuncs : UserFuncs[f] \in Nat /\ f + 1 \in BodyAddresses
  /\ DOMAIN UserFuncs \cap BodyAddresses = {}
  /\ NrFormals \in Nat
  /\ MaxActuals \in Nat
  /\ Literals \subseteq Cell
  /\ \A t \in DOMAIN Functor : t \in Int /\ Functor[t] \in Cell
  /\ {Argument, TotalArguments} \subseteq LibNames
  /\ Argument # TotalArguments
  /\ LibResults \subseteq Cell

VARIABLES
  program_stack, \* the Program_stack object
  retval,        \* the register of the last returned value
  pc,            \* address of the next instruction
  outcome        \* "running", or how the machine stopped

vars == <<program_stack, retval, pc, outcome>>

(* How the machine can stop: by the alpha_runtime_error that an            *)
(* internal_error becomes, by an std::out_of_range nobody catches, or by   *)
(* one of three groups of assertions.                                      *)
Outcomes ==
  {"running", "runtime_error", "out_of_range",
   "assert_index", "assert_actuals", "assert_env"}

-----------------------------------------------------------------------------
(* Operands: AVM::translate_operand.                                       *)

InFunction == program_stack.fcall_depth > 0

(* The locals of the active frame; pending arguments lie under them.       *)
FrameLocals ==
  program_stack.topsp - program_stack.top - program_stack.total_actuals

Variable(mode, offset) == [mode |-> mode, offset |-> offset]

Variables ==
       {Variable("program", o) : o \in 0 .. TotalProgramVars - 1}
  \cup {Variable("local", o)   : o \in IF InFunction THEN 0 .. FrameLocals - 1 ELSE {}}
  \cup {Variable("formal", o)  : o \in IF InFunction THEN 0 .. NrFormals - 1 ELSE {}}

LValues  == Variables \cup {[mode |-> "retval"]}
Operands == LValues \cup {[mode |-> "constant", cell |-> c] : c \in Literals}

IndexOf(o) ==
  CASE o.mode = "program" -> ProgramVarIndex(o.offset)
    [] o.mode = "local"   -> LocalVarIndex(program_stack, o.offset)
    [] o.mode = "formal"  -> ActualArgIndex(program_stack, o.offset)

(* The assertion, if any, that translating the operand trips.              *)
OperandFault(o) ==
  IF o.mode \notin {"program", "local", "formal"} THEN "running"
  ELSE IF /\ o.mode = "formal"
          /\ EnvValueAsserts(program_stack, program_stack.topsp + SAVED_TOTAL_ACTUALS)
       THEN "assert_env"
  ELSE IF o.mode = "formal" /\ o.offset >= TotalActuals(program_stack)
       THEN "assert_actuals"
  ELSE IF \/ ~AssertIndex(program_stack, IndexOf(o))
          \/ /\ o.mode = "local"
             /\ AsUnsigned(program_stack.top) >=
                  AsUnsigned(AVM_STACK_SIZE - TotalProgramVars - AVM_ENV_SIZE)
       THEN "assert_index"
  ELSE "running"

OperandOK(o) == OperandFault(o) = "running"

CellOf(o) ==
  CASE o.mode = "retval"   -> retval
    [] o.mode = "constant" -> o.cell
    [] OTHER               -> program_stack.stack[IndexOf(o)]

(* An instruction leaves a cell in the variable or register lv.            *)
Store(lv, cell) ==
  IF lv.mode = "retval"
  THEN retval' = cell /\ UNCHANGED program_stack
  ELSE /\ program_stack' = [program_stack EXCEPT !.stack[IndexOf(lv)] = cell]
       /\ UNCHANGED retval

-----------------------------------------------------------------------------
(* The end of a cycle: pc advances unless the instruction changed it.      *)
AfterCycle(target) == IF target = pc THEN pc + 1 ELSE target

Stop(how) == outcome' = how /\ UNCHANGED <<program_stack, retval, pc>>

Running == outcome = "running"
InBody  == Running /\ pc \in BodyAddresses
Falls   == InBody /\ pc + 1 \in BodyAddresses

-----------------------------------------------------------------------------
(* Library functions, run on the stack s that save_environment left.       *)

FirstActual(s) == s.stack[ActualArgIndex(s, 0)]

(* libfunc_argument throws internal_error unless it is given one whole     *)
(* number, below the number of arguments of the caller if there is one.    *)
ArgumentAccepts(s) ==
  /\ TotalActuals(s) = 1
  /\ FirstActual(s).type = "number"
  /\ FirstActual(s).value >= 0
  /\ s.fcall_depth > 1 => FirstActual(s).value < TotalActuals(MoveUp(s))

(* Mutant of ArgumentResult: argument() reads its own frame.               *)
ArgumentResultUnmoved(s) ==
  IF s.fcall_depth = 1 THEN Nil
  ELSE s.stack[ActualArgIndex(s, FirstActual(s).value)]

ArgumentResult(s) ==
  IF s.fcall_depth = 1 THEN Nil
  ELSE LET caller == MoveUp(s)
       IN  caller.stack[ActualArgIndex(caller, FirstActual(s).value)]

(* libfunc_totalarguments. *)
TotalArgumentsResult(s) ==
  IF s.fcall_depth = 1 THEN Nil ELSE Number(TotalActuals(MoveUp(s)))

(* A library function that reads its arguments trips assert_index when     *)
(* save_environment took the last cell; argument() counts them first.      *)
LibMayAssert(name, s) ==
  /\ name # TotalArguments
  /\ TotalActuals(s) > 0
  /\ name = Argument => TotalActuals(s) = 1
  /\ ~AssertIndex(s, ActualArgIndex(s, 0))

(* The functions other than these two may reject what they are given.      *)
LibMayThrow(name, s) ==
  CASE name = Argument       -> ~LibMayAssert(name, s) /\ ~ArgumentAccepts(s)
    [] name = TotalArguments -> FALSE
    [] OTHER                 -> TRUE

LibMayReturn(name, s) ==
  name = Argument => ~LibMayAssert(name, s) /\ ArgumentAccepts(s)

LibResult(name, s) ==
  CASE name = Argument       -> {ArgumentResult(s)}
    [] name = TotalArguments -> {TotalArgumentsResult(s)}
    [] OTHER                 -> LibResults

(* The stack the function leaves: these two move to their caller's record  *)
(* and back.                                                               *)
LibStack(name, s) ==
  IF name \in {Argument, TotalArguments} /\ s.fcall_depth > 1
  THEN MoveDown(MoveUp(s)) ELSE s

-----------------------------------------------------------------------------
(* Instructions.                                                           *)

(* execute_call follows one functor: the "()" entry of a table replaces    *)
(* the callee if it is a function, and the table stays the callee if not.  *)
Callee(o) ==
  LET func == CellOf(o)
  IN  IF /\ func.type = "table"
         /\ Functor[func.value].type \in {"userfunc", "libfunc"}
      THEN Functor[func.value] ELSE func

PushArg(arg) ==
  /\ Falls
  /\ OperandOK(arg)
  /\ program_stack.total_actuals < MaxActuals
  /\ ~Overflows(program_stack, 1)
  /\ program_stack' = PushActualArg(program_stack, CellOf(arg))
  /\ pc' = pc + 1
  /\ UNCHANGED <<retval, outcome>>

CallUserFunc(func) ==
  /\ Falls
  /\ OperandOK(func)
  /\ ~Overflows(program_stack, AVM_ENV_SIZE)
  /\ Callee(func).type = "userfunc"
  /\ program_stack' = SaveEnvironment(program_stack, pc)
  /\ pc' = AfterCycle(Callee(func).value)
  /\ UNCHANGED <<retval, outcome>>

(* The library function runs between save_environment and                  *)
(* restore_environment of the same cycle; a string names it as well.       *)
CallLibFunc(func) ==
  LET callee == Callee(func)
      saved  == SaveEnvironment(program_stack, pc)
  IN  /\ Falls
      /\ OperandOK(func)
      /\ ~Overflows(program_stack, AVM_ENV_SIZE)
      /\ callee.type \in {"string", "libfunc"}
      /\ callee.value \in LibNames
      /\ LibMayReturn(callee.value, saved)
      /\ retval' \in LibResult(callee.value, saved)
      /\ program_stack' = RestoreEnvironment(LibStack(callee.value, saved))
      /\ pc' = AfterCycle(SavedPc(LibStack(callee.value, saved)))
      /\ UNCHANGED outcome

(* The library function throws, the callee is no function, or the string   *)
(* is not the name of a library function.                                  *)
CallFails(func) ==
  LET callee == Callee(func)
      saved  == SaveEnvironment(program_stack, pc)
  IN  /\ InBody
      /\ OperandOK(func)
      /\ ~Overflows(program_stack, AVM_ENV_SIZE)
      /\ \/ /\ callee.type \in {"string", "libfunc"}
            /\ callee.value \in LibNames
            /\ \/ LibMayThrow(callee.value, saved) /\ Stop("runtime_error")
               \/ LibMayAssert(callee.value, saved) /\ Stop("assert_index")
         \/ /\ callee.type \in {"string", "libfunc"}
            /\ callee.value \notin LibNames
            /\ Stop("out_of_range")
         \/ /\ callee.type \notin {"string", "libfunc", "userfunc"}
            /\ Stop("runtime_error")

FuncEnter ==
  /\ Running
  /\ pc \in DOMAIN UserFuncs
  /\ ~Overflows(program_stack, UserFuncs[pc])
  /\ program_stack' = AllocateMemcells(program_stack, UserFuncs[pc])
  /\ pc' = pc + 1
  /\ UNCHANGED <<retval, outcome>>

FuncExit ==
  /\ InBody
  /\ InFunction
  /\ program_stack.total_actuals = 0
  /\ SavedPc(program_stack) # pc
  /\ program_stack' = RestoreEnvironment(program_stack)
  /\ pc' = AfterCycle(SavedPc(program_stack))
  /\ UNCHANGED <<retval, outcome>>

Assign(lv, rv) ==
  /\ Falls
  /\ OperandOK(lv)
  /\ OperandOK(rv)
  /\ Store(lv, CellOf(rv))
  /\ pc' = pc + 1
  /\ UNCHANGED outcome

(* execute_newtable.  What a program stores in the table is abstracted to  *)
(* the one entry that a call looks up.                                     *)
NewTable(lv, table) ==
  /\ Falls
  /\ OperandOK(lv)
  /\ Store(lv, TableRef(table))
  /\ pc' = pc + 1
  /\ UNCHANGED outcome

(* A jump to itself falls through: execute_cycle cannot tell it from an    *)
(* instruction that left pc alone.                                         *)
Jump(label) ==
  /\ InBody
  /\ pc' = AfterCycle(label)
  /\ pc' \in BodyAddresses
  /\ UNCHANGED <<program_stack, retval, outcome>>

(* Any instruction whose operand cannot be translated.                     *)
OperandFails(o) ==
  /\ InBody
  /\ ~OperandOK(o)
  /\ Stop(OperandFault(o))

(* pusharg, call and funcenter are the instructions that allocate.         *)
StackOverflow ==
  /\ Running
  /\ \/ pc \in BodyAddresses /\ Overflows(program_stack, AVM_ENV_SIZE)
     \/ pc \in DOMAIN UserFuncs /\ Overflows(program_stack, UserFuncs[pc])
  /\ Stop("runtime_error")

-----------------------------------------------------------------------------
Init ==
  /\ program_stack = NewStack
  /\ retval  = Undef
  /\ pc      = StartAddress
  /\ outcome = "running"

Next ==
  \/ \E o \in Operands : \/ PushArg(o)
                         \/ CallUserFunc(o)
                         \/ CallLibFunc(o)
                         \/ CallFails(o)
                         \/ OperandFails(o)
  \/ \E lv \in LValues, rv \in Operands : Assign(lv, rv)
  \/ \E lv \in LValues, table \in DOMAIN Functor : NewTable(lv, table)
  \/ FuncEnter
  \/ FuncExit
  \/ \E label \in BodyAddresses : Jump(label)
  \/ StackOverflow

Spec == Init /\ [][Next]_vars
=============================================================================
