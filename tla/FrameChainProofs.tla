-------------------------- MODULE FrameChainProofs --------------------------
(***************************************************************************)
(* Proofs about FrameChain for every size of the stack, every set of       *)
(* functions and every program: the environment chain is never damaged.    *)
(* The inductive invariant is IInv; each action has a lemma that preserves *)
(* it, and these lemmas rest on two facts: where an instruction may write  *)
(* (OperandCell), and that a step which leaves the environment cells and   *)
(* topsp alone keeps the chain (SameFrames).                               *)
(*                                                                         *)
(* The second half shows that the stack of cells implements the stack of   *)
(* activation records, which FrameChain states as ImplementsRecords.  Each *)
(* value of the records is read off a region of the stack.  The regions    *)
(* are disjoint (Regions), an operand is a value of the newest record      *)
(* (OperandMaps), and a step that leaves a region's cells and bounds alone *)
(* leaves its values alone (SameRecord, SameGlobals).                      *)
(***************************************************************************)
EXTENDS FrameChain, SequenceTheorems, TLAPS

(* outcome is a conjunct because the actions could otherwise start from a  *)
(* state that has already tripped an assertion of the environment.         *)
IInv == TypeOK /\ ChainInv /\ outcome # "assert_env"

-----------------------------------------------------------------------------
(* Types of the fields, once and for all. *)
LEMMA StackFields ==
  ASSUME TypeOK
  PROVE  /\ program_stack.stack \in [Indices -> Cell]
         /\ program_stack.top \in -1 .. AVM_STACK_SIZE - 1
         /\ program_stack.topsp \in -1 .. AVM_STACK_SIZE - 1
         /\ program_stack.total_actuals \in Nat
         /\ Depth \in Nat
         /\ program_stack.saved_pointers_stack = << >>
         /\ frames \in [1 .. Depth -> Frame]
  BY DEF TypeOK, StackObject, Depth

(* The arithmetic of a frame. *)
LEMMA FrameArithmetic ==
  ASSUME TypeOK, ChainInv, NEW k \in 1 .. Depth
  PROVE  /\ frames[k].base \in Int
         /\ frames[k].args \in Nat
         /\ frames[k].ret \in BodyAddresses
         /\ frames[k].top \in Int
         /\ frames[k].topsp \in Int
         /\ frames[k].base >= -1
         /\ frames[k].top = frames[k].base + 4 + frames[k].args
         /\ frames[k].top <= frames[k].topsp
         /\ frames[k].topsp <= ProgramTop
  <1>1. frames[k] \in Frame
    BY StackFields
  <1>2. FrameFits(frames[k])
    BY DEF ChainInv, EnvironmentsIntact
  <1> QED
    BY <1>1, <1>2 DEF Frame, FrameFits, AVM_ENV_SIZE

(* The environment cells of a frame and what they hold.                    *)
LEMMA EnvironmentCells ==
  ASSUME TypeOK, ChainInv, NEW k \in 1 .. Depth
  PROVE  /\ \A i \in 1 .. 4 : frames[k].base + i \in Indices
         /\ program_stack.stack[frames[k].base + 1] = Number(frames[k].topsp)
         /\ program_stack.stack[frames[k].base + 2] = Number(frames[k].top)
         /\ program_stack.stack[frames[k].base + 3] = Number(frames[k].ret)
         /\ program_stack.stack[frames[k].base + 4] = Number(frames[k].args)
  <1>1. EnvironmentHolds(frames[k])
    BY DEF ChainInv, EnvironmentsIntact
  <1>2. \A i \in 1 .. 4 : frames[k].base + i \in Indices
    BY FrameArithmetic, StackAssumption DEF ProgramTop, Indices
  <1> QED
    BY <1>1, <1>2 DEF EnvironmentHolds, SAVED_TOPSP_OFFSET, SAVED_TOP_OFFSET,
                      SAVED_PC_OFFSET, SAVED_TOTAL_ACTUALS

(* Inside a function, every value that get_env_value may be asked for is   *)
(* there: restore_environment asserts nothing and reads the newest frame.  *)
LEMMA NewestFrame ==
  ASSUME TypeOK, ChainInv, InFunction
  PROVE  /\ Depth \in 1 .. Depth
         /\ program_stack.topsp = frames[Depth].base
         /\ \A i \in 1 .. 4 : ~EnvValueAsserts(program_stack, program_stack.topsp + i)
         /\ EnvValue(program_stack, 1) = frames[Depth].topsp
         /\ EnvValue(program_stack, 2) = frames[Depth].top
         /\ EnvValue(program_stack, 3) = frames[Depth].ret
         /\ EnvValue(program_stack, 4) = frames[Depth].args
         /\ ~RestoreAsserts(program_stack)
  <1>1. Depth \in 1 .. Depth
    BY StackFields DEF InFunction, Depth
  <1>2. program_stack.topsp = frames[Depth].base
    BY <1>1 DEF ChainInv, RegistersMatch
  <1>3. frames[Depth].ret \in Nat
    BY <1>1, FrameArithmetic, CallsAssumption
  <1>4. /\ frames[Depth].topsp >= 0
        /\ frames[Depth].top >= 0
        /\ frames[Depth].args >= 0
        /\ frames[Depth].ret >= 0
    BY <1>1, <1>3, FrameArithmetic
  <1>5. /\ \A i \in 1 .. 4 : frames[Depth].base + i \in Indices
        /\ program_stack.stack[frames[Depth].base + 1] = Number(frames[Depth].topsp)
        /\ program_stack.stack[frames[Depth].base + 2] = Number(frames[Depth].top)
        /\ program_stack.stack[frames[Depth].base + 3] = Number(frames[Depth].ret)
        /\ program_stack.stack[frames[Depth].base + 4] = Number(frames[Depth].args)
    BY <1>1, EnvironmentCells
  <1>6. \A i \in 1 .. 4 : ~EnvValueAsserts(program_stack, program_stack.topsp + i)
    <2>1. \A n : n >= 0 /\ n \in Int => ~(Number(n).type # "number" \/ Number(n).value < 0)
      BY DEF Number
    <2>2. \A i \in 1 .. 4 : i = 1 \/ i = 2 \/ i = 3 \/ i = 4
      OBVIOUS
    <2> QED
      BY <1>1, <1>2, <1>3, <1>4, <1>5, <2>1, <2>2, FrameArithmetic DEF EnvValueAsserts
  <1>7. /\ EnvValue(program_stack, 1) = frames[Depth].topsp
        /\ EnvValue(program_stack, 2) = frames[Depth].top
        /\ EnvValue(program_stack, 3) = frames[Depth].ret
        /\ EnvValue(program_stack, 4) = frames[Depth].args
    BY <1>2, <1>5 DEF EnvValue, Number
  <1>8. ~RestoreAsserts(program_stack)
    BY <1>6, StackFields DEF RestoreAsserts, InFunction, SAVED_TOPSP_OFFSET,
                             SAVED_TOP_OFFSET, SAVED_PC_OFFSET
  <1> QED
    BY <1>1, <1>2, <1>6, <1>7, <1>8

-----------------------------------------------------------------------------
(* The operands of an instruction. *)
LEMMA TopspBelowProgram ==
  ASSUME TypeOK, ChainInv
  PROVE  /\ program_stack.topsp <= ProgramTop
         /\ program_stack.top + program_stack.total_actuals <= program_stack.topsp
  <1>1. CASE Depth = 0
    BY <1>1, StackFields, StackAssumption DEF ChainInv, RegistersMatch, ProgramTop
  <1>2. CASE Depth # 0
    <2>1. Depth \in 1 .. Depth
      BY <1>2, StackFields
    <2> QED
      BY <1>2, <2>1, FrameArithmetic, StackAssumption
         DEF ChainInv, RegistersMatch, ProgramTop
  <1> QED
    BY <1>1, <1>2

(* Every frame's environment lies between topsp and the program variables, *)
(* and over the arguments of the newest frame unless it is its own.        *)
LEMMA EnvironmentPlace ==
  ASSUME TypeOK, ChainInv, NEW k \in 1 .. Depth
  PROVE  /\ frames[k].base >= program_stack.topsp
         /\ frames[k].base + 4 <= ProgramTop
         /\ k # Depth => frames[k].base >= frames[Depth].top
  <1>1. Depth \in 1 .. Depth
    BY StackFields
  <1>2. program_stack.topsp = frames[Depth].base
    BY <1>1 DEF ChainInv, RegistersMatch
  <1>3. k # Depth => frames[k].base >= frames[Depth].top
    <2>1. k # Depth => k < Depth
      BY <1>1
    <2>2. k < Depth => frames[Depth].top <= frames[k].base
      BY <1>1 DEF ChainInv, Linked
    <2> QED
      BY <1>1, <2>1, <2>2, FrameArithmetic
  <1>4. /\ frames[k].base \in Int /\ frames[k].args \in Nat
        /\ frames[k].top = frames[k].base + 4 + frames[k].args
        /\ frames[k].top <= frames[k].topsp
        /\ frames[k].topsp <= ProgramTop
        /\ frames[k].topsp \in Int
    BY FrameArithmetic
  <1>5. /\ frames[Depth].base \in Int /\ frames[Depth].args \in Nat
        /\ frames[Depth].top = frames[Depth].base + 4 + frames[Depth].args
    BY <1>1, FrameArithmetic
  <1>6. frames[k].base >= program_stack.topsp
    BY <1>2, <1>3, <1>4, <1>5
  <1>7. frames[k].base + 4 <= ProgramTop
    BY <1>4, StackAssumption DEF ProgramTop
  <1> QED
    BY <1>3, <1>6, <1>7

(* In terms of the registers: every environment lies above the free cells. *)
LEMMA FramesAboveTop ==
  ASSUME TypeOK, ChainInv, NEW k \in 1 .. Depth
  PROVE  /\ program_stack.top \in Int
         /\ program_stack.topsp \in Int
         /\ frames[k].base \in Int
         /\ frames[k].base >= program_stack.topsp
         /\ frames[k].base >= program_stack.top + program_stack.total_actuals
         /\ frames[k].base >= program_stack.top
  <1>1. /\ program_stack.top \in Int
        /\ program_stack.topsp \in Int
        /\ program_stack.total_actuals \in Nat
    BY StackFields
  <1>2. frames[k].base \in Int
    BY FrameArithmetic
  <1>3. frames[k].base >= program_stack.topsp
    BY EnvironmentPlace
  <1>4. program_stack.top + program_stack.total_actuals <= program_stack.topsp
    BY TopspBelowProgram
  <1> QED
    BY <1>1, <1>2, <1>3, <1>4

(* A variable an instruction may name is a cell of the stack, above top,   *)
(* and never a cell of an environment.                                     *)
LEMMA OperandCell ==
  ASSUME TypeOK, ChainInv, NEW o \in Variables, OperandOK(o)
  PROVE  /\ IndexOf(o) \in Indices
         /\ IndexOf(o) > program_stack.top
         /\ \A k \in 1 .. Depth, i \in 1 .. 4 : IndexOf(o) # frames[k].base + i
  <1>1. CASE /\ o.mode = "program"
             /\ o.offset \in 0 .. TotalProgramVars - 1
    <2>1. IndexOf(o) = AVM_STACK_SIZE - 1 - o.offset
      BY <1>1 DEF IndexOf, ProgramVarIndex
    <2>2. IndexOf(o) \in Indices /\ IndexOf(o) > ProgramTop
      BY <1>1, <2>1, StackAssumption DEF Indices, ProgramTop
    <2>3. \A k \in 1 .. Depth, i \in 1 .. 4 : IndexOf(o) # frames[k].base + i
      BY <2>2, EnvironmentPlace, FrameArithmetic, StackAssumption
         DEF ProgramTop, Indices
    <2> QED
      BY <2>2, <2>3, TopspBelowProgram, StackFields, StackAssumption, SMTT(30)
         DEF ProgramTop, Indices
  <1>2. CASE /\ o.mode = "local"
             /\ InFunction
             /\ o.offset \in 0 .. FrameLocals - 1
    <2>1. program_stack.topsp - o.offset > program_stack.top
      BY <1>2, StackFields DEF FrameLocals
    <2>2. IndexOf(o) = program_stack.topsp - o.offset
      BY <1>2, <2>1, StackFields DEF IndexOf, LocalVarIndex, AsUnsigned
    <2>3. IndexOf(o) \in Indices
      BY <1>2, <2>1, <2>2, StackFields, StackAssumption, SMTT(30) DEF Indices
    <2>4. \A k \in 1 .. Depth, i \in 1 .. 4 : IndexOf(o) # frames[k].base + i
      <3> SUFFICES ASSUME NEW k \in 1 .. Depth, NEW i \in 1 .. 4
                   PROVE  IndexOf(o) # frames[k].base + i
        OBVIOUS
      <3>1. frames[k].base \in Int /\ frames[k].base >= program_stack.topsp
        BY EnvironmentPlace, FrameArithmetic
      <3>2. program_stack.topsp \in Int /\ o.offset \in Nat
        BY <1>2, StackFields DEF FrameLocals
      <3> QED
        BY <2>2, <3>1, <3>2
    <2> QED
      BY <2>1, <2>2, <2>3, <2>4
  <1>3. CASE /\ o.mode = "formal"
             /\ InFunction
             /\ o.offset \in 0 .. NrFormals - 1
    <2> DEFINE f == frames[Depth]
    <2>1. o.offset < f.args /\ o.offset \in Nat
      BY <1>3, NewestFrame, CallsAssumption, FrameArithmetic
         DEF OperandOK, OperandFault, TotalActuals, SAVED_TOTAL_ACTUALS
    <2>2. /\ f.base \in Int /\ f.args \in Nat /\ f.base >= -1
          /\ f.top = f.base + 4 + f.args
          /\ f.top <= ProgramTop
          /\ program_stack.topsp = f.base
      BY <1>3, NewestFrame, FrameArithmetic, StackAssumption DEF ProgramTop
    <2>3. IndexOf(o) = f.base + 5 + o.offset
      BY <1>3, <2>1, <2>2 DEF IndexOf, ActualArgIndex, AsUnsigned, AVM_ENV_SIZE
    <2>4. IndexOf(o) \in Indices /\ IndexOf(o) <= f.top /\ IndexOf(o) > f.base + 4
      BY <2>1, <2>2, <2>3, StackAssumption DEF Indices, ProgramTop
    <2>5. ASSUME NEW k \in 1 .. Depth, NEW i \in 1 .. 4
          PROVE  IndexOf(o) # frames[k].base + i
      <3>1. CASE k = Depth
        BY <2>2, <2>4, <3>1
      <3>2. CASE k # Depth
        BY <2>2, <2>4, <3>2, EnvironmentPlace, FrameArithmetic DEF Indices
      <3> QED
        BY <3>1, <3>2
    <2>6. IndexOf(o) > program_stack.top
      BY <2>2, <2>4, TopspBelowProgram, StackFields DEF Indices
    <2> QED
      BY <2>4, <2>5, <2>6
  <1> QED
    BY <1>1, <1>2, <1>3 DEF Variables, Variable

(* What an operand holds is a value of the program. *)
LEMMA OperandType ==
  ASSUME TypeOK, ChainInv, NEW o \in Operands, OperandOK(o)
  PROVE  CellOf(o) \in Cell
  <1>1. CASE o \in Variables
    <2>1. o.mode \notin {"retval", "constant"}
      BY <1>1 DEF Variables, Variable
    <2> QED
      BY <1>1, <2>1, OperandCell, StackFields DEF CellOf
  <1>2. CASE o = [mode |-> "retval"]
    BY <1>2 DEF CellOf, TypeOK
  <1>3. CASE \E c \in Literals : o = [mode |-> "constant", cell |-> c]
    BY <1>3, CallsAssumption DEF CellOf
  <1> QED
    BY <1>1, <1>2, <1>3 DEF Operands, LValues

-----------------------------------------------------------------------------
(* A step that calls nothing and returns from nothing, and leaves topsp    *)
(* and the environment cells alone, keeps the chain.                       *)
LEMMA SameFrames ==
  ASSUME TypeOK, ChainInv,
         frames' = frames,
         Depth' = Depth,
         program_stack'.topsp = program_stack.topsp,
         program_stack'.top + program_stack'.total_actuals <= program_stack'.topsp,
         \A k \in 1 .. Depth, i \in 1 .. 4 :
           program_stack'.stack[frames[k].base + i] = program_stack.stack[frames[k].base + i]
  PROVE  ChainInv'
  <1>1. RegistersMatch'
    BY StackFields DEF ChainInv, RegistersMatch, ProgramTop
  <1>2. Linked'
    BY StackFields DEF ChainInv, Linked, ProgramTop
  <1>3. ASSUME NEW k \in 1 .. Depth
        PROVE  EnvironmentHolds(frames[k])' /\ FrameFits(frames[k])'
    <2>1. /\ EnvironmentHolds(frames[k])
          /\ FrameFits(frames[k])
      BY DEF ChainInv, EnvironmentsIntact
    <2>2. EnvironmentHolds(frames[k])'
      BY <2>1 DEF EnvironmentHolds, SAVED_TOPSP_OFFSET, SAVED_TOP_OFFSET,
                  SAVED_PC_OFFSET, SAVED_TOTAL_ACTUALS
    <2> QED
      BY <2>1, <2>2 DEF FrameFits, ProgramTop, AVM_ENV_SIZE
  <1> QED
    BY <1>1, <1>2, <1>3 DEF ChainInv, EnvironmentsIntact

(* RecordFrames when the depth does not change. *)
LEMMA FramesUnchanged ==
  ASSUME TypeOK, RecordFrames, Depth' = Depth
  PROVE  frames' = frames
  BY StackFields DEF RecordFrames

(* A step that stores a typed cell in a variable keeps the invariant.      *)
LEMMA StoreKeeps ==
  ASSUME IInv, RecordFrames,
         NEW lv \in LValues, OperandOK(lv),
         NEW cell \in Cell, Store(lv, cell),
         Falls, pc' = pc + 1, UNCHANGED outcome
  PROVE  IInv'
  <1> USE DEF IInv
  <1>1. CASE lv = [mode |-> "retval"]
    <2>1. retval' = cell /\ UNCHANGED program_stack
      BY <1>1 DEF Store
    <2>2. frames' = frames
      BY <2>1, FramesUnchanged DEF Depth
    <2>3. TypeOK'
      BY <2>1, <2>2 DEF TypeOK, Depth, Falls
    <2>4. ChainInv'
      BY <2>1, <2>2 DEF ChainInv, RegistersMatch, Linked, EnvironmentsIntact,
                        EnvironmentHolds, FrameFits, Depth
    <2> QED
      BY <2>3, <2>4
  <1>2. CASE lv \in Variables
    <2>1. lv.mode # "retval"
      BY <1>2 DEF Variables, Variable
    <2>2. /\ program_stack' = [program_stack EXCEPT !.stack[IndexOf(lv)] = cell]
          /\ UNCHANGED retval
      BY <2>1 DEF Store
    <2>3. /\ Depth' = Depth
          /\ program_stack'.topsp = program_stack.topsp
          /\ program_stack'.top = program_stack.top
          /\ program_stack'.total_actuals = program_stack.total_actuals
          /\ program_stack'.stack = [program_stack.stack EXCEPT ![IndexOf(lv)] = cell]
          /\ program_stack'.saved_pointers_stack = << >>
          /\ program_stack' \in StackObject
      <3>1. program_stack \in StackObject /\ cell \in Memcell
        BY DEF TypeOK, Cell
      <3>2. IndexOf(lv) \in Indices
        BY <1>2, OperandCell
      <3> QED
        BY <2>2, <3>1, <3>2, StackFields DEF StackObject, Depth
    <2>4. frames' = frames
      BY <2>3, FramesUnchanged
    <2>5. TypeOK'
      BY <2>2, <2>3, <2>4, StackFields DEF TypeOK, Falls
    <2>6. \A k \in 1 .. Depth, i \in 1 .. 4 :
            program_stack'.stack[frames[k].base + i] = program_stack.stack[frames[k].base + i]
      BY <1>2, <2>3, OperandCell, EnvironmentCells, StackFields
    <2>7. ChainInv'
      BY <2>3, <2>4, <2>6, SameFrames, TopspBelowProgram
    <2> QED
      BY <2>5, <2>7
  <1> QED
    BY <1>1, <1>2 DEF LValues

-----------------------------------------------------------------------------
(* One lemma for each action that touches the stack's registers.           *)
LEMMA PushArgKeeps ==
  ASSUME IInv, RecordFrames, NEW arg \in Operands, PushArg(arg)
  PROVE  IInv'
  <1> USE DEF IInv
  <1> DEFINE cell == CellOf(arg)
             s    == program_stack
  <1>1. cell \in Cell
    BY OperandType DEF PushArg
  <1>2. s.top \in Indices
    BY StackFields DEF PushArg, Overflows, Indices
  <1>3. /\ Depth' = Depth
        /\ program_stack'.topsp = s.topsp
        /\ program_stack'.top = s.top - 1
        /\ program_stack'.total_actuals = s.total_actuals + 1
        /\ program_stack'.stack = [s.stack EXCEPT ![s.top] = cell]
        /\ program_stack'.saved_pointers_stack = << >>
        /\ program_stack' \in StackObject
    <2>1. s \in StackObject /\ cell \in Memcell
      BY <1>1 DEF TypeOK, Cell
    <2>2. s.top - 1 \in -1 .. AVM_STACK_SIZE - 1 /\ s.total_actuals + 1 \in Nat
      BY <1>2, StackFields, StackAssumption DEF Indices
    <2> QED
      BY <1>2, <2>1, <2>2, StackFields DEF StackObject, Depth, PushArg, PushActualArg
  <1>4. frames' = frames
    BY <1>3, FramesUnchanged
  <1>5. TypeOK'
    BY <1>1, <1>3, <1>4, StackFields DEF TypeOK, PushArg, Falls
  <1>6. ASSUME NEW k \in 1 .. Depth, NEW i \in 1 .. 4
        PROVE  program_stack'.stack[frames[k].base + i] = s.stack[frames[k].base + i]
    <2>1. frames[k].base + i > s.top
      BY FramesAboveTop
    <2> QED
      BY <1>3, <2>1, EnvironmentCells, StackFields
  <1>7. ChainInv'
    BY <1>3, <1>4, <1>6, SameFrames, TopspBelowProgram, StackFields
  <1> QED
    BY <1>5, <1>7 DEF PushArg

LEMMA FuncEnterKeeps ==
  ASSUME IInv, RecordFrames, FuncEnter
  PROVE  IInv'
  <1> USE DEF IInv
  <1> DEFINE s == program_stack
             n == UserFuncs[pc]
  <1>1. n \in Nat /\ s.top - n \in -1 .. AVM_STACK_SIZE - 1
    <2>1. n \in Nat /\ ~(n > s.top + 1)
      BY CallsAssumption DEF FuncEnter, Overflows
    <2> QED
      BY <2>1, StackFields, StackAssumption
  <1>2. program_stack' = [s EXCEPT !.top = s.top - n]
    BY DEF FuncEnter, AllocateMemcells
  <1>3. /\ Depth' = Depth
        /\ program_stack'.topsp = s.topsp
        /\ program_stack'.top = s.top - n
        /\ program_stack'.total_actuals = s.total_actuals
        /\ program_stack'.stack = s.stack
        /\ program_stack'.saved_pointers_stack = << >>
        /\ program_stack' \in StackObject
    BY <1>1, <1>2 DEF TypeOK, StackObject, Depth
  <1>4. frames' = frames
    BY <1>3, FramesUnchanged
  <1>5. TypeOK'
    BY <1>3, <1>4, CallsAssumption DEF TypeOK, FuncEnter
  <1>6. ChainInv'
    BY <1>1, <1>3, <1>4, SameFrames, TopspBelowProgram, StackFields
  <1> QED
    BY <1>5, <1>6 DEF FuncEnter

(* The object that save_environment leaves. *)
LEMMA SavedFields ==
  ASSUME TypeOK, ChainInv, Falls, ~Overflows(program_stack, AVM_ENV_SIZE)
  PROVE  LET s    == SaveEnvironment(program_stack, pc)
             base == program_stack.top - 4
         IN  /\ s.top = base
             /\ s.topsp = base
             /\ s.total_actuals = 0
             /\ s.fcall_depth = Depth + 1
             /\ s.saved_pointers_stack = << >>
             /\ s.stack \in [Indices -> Cell]
             /\ \A i \in Indices : i <= base \/ i > base + 4
                                  => s.stack[i] = program_stack.stack[i]
             /\ s.stack[base + 1] = Number(program_stack.topsp)
             /\ s.stack[base + 2] = Number(program_stack.top + program_stack.total_actuals)
             /\ s.stack[base + 3] = Number(pc + 1)
             /\ s.stack[base + 4] = Number(program_stack.total_actuals)
             /\ base >= -1
             /\ s \in StackObject
  <1> DEFINE ps   == program_stack
             s    == SaveEnvironment(ps, pc)
             base == ps.top - 4
             saved(i) == CASE i = base + 1 -> Number(ps.topsp)
                           [] i = base + 2 -> Number(ps.top + ps.total_actuals)
                           [] i = base + 3 -> Number(pc + 1)
                           [] i = base + 4 -> Number(ps.total_actuals)
                           [] OTHER        -> ps.stack[i]
  <1>1. base >= -1 /\ base \in Int /\ base \in -1 .. AVM_STACK_SIZE - 1
    BY StackFields, StackAssumption DEF Overflows, AVM_ENV_SIZE
  <1>2. pc + 1 \in Int
    BY CallsAssumption DEF Falls, InBody
  <1>3. s = [ps EXCEPT !.stack = [i \in Indices |-> saved(i)],
                       !.top = base, !.topsp = base, !.total_actuals = 0,
                       !.fcall_depth = ps.fcall_depth + 1]
    BY DEF SaveEnvironment, AVM_ENV_SIZE, SAVED_TOPSP_OFFSET, SAVED_TOP_OFFSET,
           SAVED_PC_OFFSET, SAVED_TOTAL_ACTUALS
  <1> HIDE DEF s
  <1>4. ps \in StackObject
    BY DEF TypeOK
  <1>5. /\ s.top = base
        /\ s.topsp = base
        /\ s.total_actuals = 0
        /\ s.fcall_depth = Depth + 1
        /\ s.saved_pointers_stack = << >>
        /\ s.stack = [i \in Indices |-> saved(i)]
    BY <1>3, <1>4, StackFields DEF StackObject, Depth
  <1>6. \A i \in 1 .. 4 : base + i \in Indices
    <2>1. ps.top \in Int /\ ps.top <= AVM_STACK_SIZE - 1 /\ base + 4 = ps.top
      BY StackFields, StackAssumption
    <2> HIDE DEF base
    <2> QED
      BY <1>1, <2>1, StackAssumption DEF Indices
  <1>7. /\ s.stack[base + 1] = Number(ps.topsp)
        /\ s.stack[base + 2] = Number(ps.top + ps.total_actuals)
        /\ s.stack[base + 3] = Number(pc + 1)
        /\ s.stack[base + 4] = Number(ps.total_actuals)
    <2>1. \A i \in 1 .. 4 : s.stack[base + i] = saved(base + i)
      BY <1>5, <1>6
    <2>2. /\ saved(base + 1) = Number(ps.topsp)
          /\ saved(base + 2) = Number(ps.top + ps.total_actuals)
          /\ saved(base + 3) = Number(pc + 1)
          /\ saved(base + 4) = Number(ps.total_actuals)
      BY <1>1
    <2> HIDE DEF base, saved
    <2> QED
      BY <2>1, <2>2
  <1>8. \A i \in Indices : i <= base \/ i > base + 4 => s.stack[i] = ps.stack[i]
    BY <1>1, <1>5 DEF Indices
  <1>9. \A i \in Indices : saved(i) \in Cell
    <2>1. \A n \in Int : Number(n) \in Cell
      BY DEF Number, Cell, Memcell, MemcellType
    <2>2. /\ ps.topsp \in Int
          /\ ps.top + ps.total_actuals \in Int
          /\ ps.total_actuals \in Int
      BY StackFields, StackAssumption
    <2> QED
      BY <1>2, <2>1, <2>2, StackFields
  <1>10. s.stack \in [Indices -> Cell]
    BY <1>5, <1>9
  <1>11. s \in StackObject
    <2>1. [i \in Indices |-> saved(i)] \in [Indices -> Memcell]
      BY <1>9 DEF Cell
    <2>2. ps.fcall_depth + 1 \in Nat
      BY StackFields DEF Depth
    <2> QED
      BY <1>1, <1>3, <1>4, <2>1, <2>2 DEF StackObject
  <1> QED
    BY <1>1, <1>5, <1>7, <1>8, <1>10, <1>11 DEF s

(* A call links a new frame under the newest one. *)
LEMMA CallUserFuncKeeps ==
  ASSUME IInv, RecordFrames, NEW func \in Operands, CallUserFunc(func)
  PROVE  IInv'
  <1> USE DEF IInv
  <1> DEFINE ps   == program_stack
             s    == SaveEnvironment(ps, pc)
             base == ps.top - 4
             f    == FrameOfCall
  <1>1. /\ program_stack' = s
        /\ Callee(func).type = "userfunc"
        /\ Falls
        /\ ~Overflows(ps, AVM_ENV_SIZE)
    BY DEF CallUserFunc
  <1>2. /\ s.top = base
        /\ s.topsp = base
        /\ s.total_actuals = 0
        /\ s.fcall_depth = Depth + 1
        /\ s.saved_pointers_stack = << >>
        /\ s.stack \in [Indices -> Cell]
        /\ \A i \in Indices : i <= base \/ i > base + 4 => s.stack[i] = ps.stack[i]
        /\ s.stack[base + 1] = Number(ps.topsp)
        /\ s.stack[base + 2] = Number(ps.top + ps.total_actuals)
        /\ s.stack[base + 3] = Number(pc + 1)
        /\ s.stack[base + 4] = Number(ps.total_actuals)
        /\ base >= -1
        /\ s \in StackObject
    BY <1>1, SavedFields
  <1> HIDE DEF s
  <1>3. Depth' = Depth + 1 /\ Depth \in Nat
    BY <1>1, <1>2, StackFields DEF Depth
  <1>4. frames' = [k \in 1 .. Depth + 1 |-> IF k <= Depth THEN frames[k] ELSE f]
    BY <1>3 DEF RecordFrames
  <1>5. /\ f.base = base
        /\ f.topsp = ps.topsp
        /\ f.top = ps.top + ps.total_actuals
        /\ f.ret = pc + 1
        /\ f.args = ps.total_actuals
        /\ f \in Frame
    BY <1>1, StackFields, StackAssumption
       DEF FrameOfCall, Frame, Falls, AVM_ENV_SIZE
  <1> HIDE DEF f
  <1>6. /\ \A k \in 1 .. Depth : frames'[k] = frames[k]
        /\ frames'[Depth + 1] = f
        /\ \A k \in 1 .. Depth + 1 : k \in 1 .. Depth \/ k = Depth + 1
    BY <1>3, <1>4
  <1>7. TypeOK'
    <2>1. frames' \in [1 .. Depth + 1 -> Frame]
      BY <1>3, <1>4, <1>5, StackFields
    <2>2. Callee(func).value \in DOMAIN UserFuncs
      <3>1. CellOf(func) \in Cell
        BY OperandType DEF CallUserFunc
      <3>2. Callee(func) \in Cell
        BY <3>1, CallsAssumption DEF Callee, Cell
      <3> QED
        BY <1>1, <3>2 DEF Cell
    <2>3. pc' \in BodyAddresses \cup DOMAIN UserFuncs
      BY <2>2 DEF CallUserFunc, AfterCycle, Falls
    <2> QED
      BY <1>1, <1>2, <1>3, <2>1, <2>3 DEF TypeOK, CallUserFunc
  <1>8. RegistersMatch'
    BY <1>1, <1>2, <1>3, <1>5, <1>6, StackFields, StackAssumption, SMTT(30)
       DEF RegistersMatch
  <1>9. Linked'
    <2>1. \A k \in 1 .. Depth + 1 :
            frames'[k].topsp = IF k = 1 THEN ProgramTop ELSE frames'[k - 1].base
      <3>1. ASSUME NEW k \in 1 .. Depth
            PROVE  frames'[k].topsp = IF k = 1 THEN ProgramTop ELSE frames'[k - 1].base
        BY <1>3, <1>6 DEF ChainInv, Linked
      <3>2. f.topsp = IF Depth + 1 = 1 THEN ProgramTop ELSE frames'[Depth].base
        BY <1>3, <1>5, <1>6 DEF ChainInv, RegistersMatch
      <3> QED
        BY <1>3, <1>6, <3>1, <3>2
    <2>2. \A i, j \in 1 .. Depth + 1 : i < j => frames'[j].top <= frames'[i].base
      <3>1. ASSUME NEW i \in 1 .. Depth
            PROVE  f.top <= frames[i].base
        BY <1>5, FramesAboveTop
      <3>2. \A i, j \in 1 .. Depth : i < j => frames[j].top <= frames[i].base
        BY DEF ChainInv, Linked
      <3> QED
        BY <1>3, <1>6, <3>1, <3>2
    <2> QED
      BY <1>3, <2>1, <2>2 DEF Linked, ProgramTop
  <1>10. ASSUME NEW k \in 1 .. Depth + 1
         PROVE  EnvironmentHolds(frames[k])' /\ FrameFits(frames[k])'
    <2>1. CASE k \in 1 .. Depth
      <3>1. EnvironmentHolds(frames[k]) /\ FrameFits(frames[k]) /\ frames'[k] = frames[k]
        BY <1>6, <2>1 DEF ChainInv, EnvironmentsIntact
      <3>2. \A i \in 1 .. 4 : program_stack'.stack[frames[k].base + i]
                                 = ps.stack[frames[k].base + i]
        <4>1. frames[k].base >= ps.top /\ frames[k].base \in Int
          BY <2>1, FramesAboveTop
        <4>2. \A i \in 1 .. 4 : frames[k].base + i \in Indices /\ frames[k].base + i > base + 4
          <5>1. \A i \in 1 .. 4 : frames[k].base + i \in Indices
            BY <2>1, EnvironmentCells
          <5>2. ps.top \in Int /\ base + 4 = ps.top
            BY StackFields, StackAssumption
          <5>3. \A i \in 1 .. 4 : frames[k].base + i > ps.top
            BY <4>1, <5>2
          <5> QED
            BY <5>1, <5>2, <5>3
        <4> QED
          BY <1>1, <1>2, <4>2
      <3> QED
        BY <3>1, <3>2 DEF EnvironmentHolds, FrameFits, SAVED_TOPSP_OFFSET, SAVED_TOP_OFFSET,
                          SAVED_PC_OFFSET, SAVED_TOTAL_ACTUALS, ProgramTop, AVM_ENV_SIZE
    <2>2. CASE k = Depth + 1
      <3>1. EnvironmentHolds(frames[k])'
        <4>1. frames'[k] = f /\ program_stack' = s
          BY <1>1, <1>6, <2>2
        <4> QED
        BY <1>2, <1>5, <4>1
           DEF EnvironmentHolds, SAVED_TOPSP_OFFSET, SAVED_TOP_OFFSET, SAVED_PC_OFFSET,
               SAVED_TOTAL_ACTUALS
      <3>2. FrameFits(frames[k])'
        <4>1. frames'[k] = f
          BY <1>6, <2>2
        <4>2. FrameFits(f)
          BY <1>2, <1>5, TopspBelowProgram, StackFields, StackAssumption
             DEF FrameFits, ProgramTop, AVM_ENV_SIZE
        <4> QED
          BY <4>1, <4>2 DEF FrameFits, ProgramTop, AVM_ENV_SIZE
      <3> QED
        BY <3>1, <3>2
    <2> QED
      BY <1>6, <2>1, <2>2
  <1>11. ChainInv'
    BY <1>3, <1>8, <1>9, <1>10 DEF ChainInv, EnvironmentsIntact
  <1> QED
    BY <1>7, <1>11 DEF CallUserFunc

-----------------------------------------------------------------------------
(* The object that restore_environment leaves, whatever stack it works on. *)
LEMMA RestoredFields ==
  ASSUME NEW s \in StackObject,
         s.stack \in [Indices -> Cell],
         s.saved_pointers_stack = << >>,
         s.fcall_depth > 0,
         EnvValue(s, 1) \in -1 .. AVM_STACK_SIZE - 1,
         EnvValue(s, 2) \in -1 .. AVM_STACK_SIZE - 1
  PROVE  LET r == RestoreEnvironment(s)
         IN  /\ r.top = EnvValue(s, 2)
             /\ r.topsp = EnvValue(s, 1)
             /\ r.total_actuals = s.total_actuals
             /\ r.fcall_depth = s.fcall_depth - 1
             /\ r.saved_pointers_stack = << >>
             /\ \A i \in Indices :
                  r.stack[i] = IF i \in s.top + 1 .. EnvValue(s, 2)
                               THEN Clear(s.stack[i]) ELSE s.stack[i]
             /\ r.stack \in [Indices -> Cell]
             /\ r \in StackObject
  <1> DEFINE r     == RestoreEnvironment(s)
             stack == [i \in Indices |->
                         IF i \in s.top + 1 .. EnvValue(s, 2) THEN Clear(s.stack[i])
                                                              ELSE s.stack[i]]
  <1>1. r = [s EXCEPT !.stack = stack, !.top = EnvValue(s, 2), !.topsp = EnvValue(s, 1),
                      !.fcall_depth = s.fcall_depth - 1]
    BY DEF RestoreEnvironment, SAVED_TOPSP_OFFSET, SAVED_TOP_OFFSET
  <1> HIDE DEF r
  <1>2. stack \in [Indices -> Cell]
    <2>1. \A c \in Cell : Clear(c) \in Cell
      BY DEF Clear, Cell, Memcell, MemcellType, Undef
    <2> QED
      BY <2>1
  <1>3. stack \in [Indices -> Memcell]
    BY <1>2 DEF Cell
  <1>4. \A i \in Indices :
          stack[i] = IF i \in s.top + 1 .. EnvValue(s, 2)
                     THEN Clear(s.stack[i]) ELSE s.stack[i]
    OBVIOUS
  <1> HIDE DEF stack
  <1>5. s.fcall_depth - 1 \in Nat
    BY DEF StackObject
  <1>6. /\ r.top = EnvValue(s, 2)
        /\ r.topsp = EnvValue(s, 1)
        /\ r.total_actuals = s.total_actuals
        /\ r.fcall_depth = s.fcall_depth - 1
        /\ r.saved_pointers_stack = << >>
        /\ r.stack = stack
    BY <1>1 DEF StackObject
  <1>7. r \in StackObject
    BY <1>1, <1>3, <1>5 DEF StackObject
  <1> QED
    BY <1>2, <1>4, <1>6, <1>7 DEF r

LEMMA FuncExitKeeps ==
  ASSUME IInv, RecordFrames, FuncExit
  PROVE  /\ IInv'
         /\ pc' = frames[Depth].ret
         /\ program_stack'.top = frames[Depth].top
         /\ program_stack'.topsp = frames[Depth].topsp
         /\ program_stack'.total_actuals = 0
         /\ Depth' = Depth - 1
         /\ \A k \in 1 .. Depth' : frames'[k] = frames[k]
         /\ \A i \in Indices : i > frames[Depth].top
                              => program_stack'.stack[i] = program_stack.stack[i]
  <1> USE DEF IInv
  <1> DEFINE ps == program_stack
             r  == RestoreEnvironment(ps)
             f  == frames[Depth]
  <1>1. /\ Depth \in 1 .. Depth
        /\ EnvValue(ps, 1) = f.topsp
        /\ EnvValue(ps, 2) = f.top
        /\ EnvValue(ps, 3) = f.ret
    BY NewestFrame DEF FuncExit
  <1>2. /\ f.top \in -1 .. AVM_STACK_SIZE - 1
        /\ f.topsp \in -1 .. AVM_STACK_SIZE - 1
        /\ f.ret \in BodyAddresses
        /\ f.top <= f.topsp
    BY <1>1, FrameArithmetic, StackAssumption DEF ProgramTop
  <1>3. /\ ps \in StackObject
        /\ ps.fcall_depth > 0
        /\ ps.total_actuals = 0
        /\ program_stack' = r
    BY DEF TypeOK, FuncExit, InFunction
  <1>4. /\ r.top = f.top
        /\ r.topsp = f.topsp
        /\ r.total_actuals = 0
        /\ r.fcall_depth = Depth - 1
        /\ r.saved_pointers_stack = << >>
        /\ \A i \in Indices : i \notin ps.top + 1 .. f.top => r.stack[i] = ps.stack[i]
        /\ r.stack \in [Indices -> Cell]
        /\ r \in StackObject
    <2>1. /\ ps.stack \in [Indices -> Cell]
          /\ ps.saved_pointers_stack = << >>
      BY StackFields
    <2> QED
      BY <1>1, <1>2, <1>3, <2>1, RestoredFields DEF Depth
  <1> HIDE DEF r
  <1>5. Depth' = Depth - 1 /\ Depth \in Nat
    BY <1>3, <1>4, StackFields DEF Depth
  <1>6. frames' = [k \in 1 .. Depth - 1 |-> frames[k]]
    BY <1>5 DEF RecordFrames
  <1>7. \A k \in 1 .. Depth - 1 : frames'[k] = frames[k] /\ k \in 1 .. Depth
    BY <1>5, <1>6
  <1>8. pc' = f.ret
    BY <1>1 DEF FuncExit, AfterCycle, SavedPc, SAVED_PC_OFFSET
  <1>9. TypeOK'
    <2>1. frames' \in [1 .. Depth - 1 -> Frame]
      BY <1>5, <1>6, StackFields
    <2> QED
      BY <1>2, <1>3, <1>4, <1>5, <1>8, <2>1 DEF TypeOK, FuncExit
  <1>10. RegistersMatch'
    <2>1. f.topsp = IF Depth = 1 THEN ProgramTop ELSE frames[Depth - 1].base
      BY <1>1 DEF ChainInv, Linked
    <2>2. f.topsp = IF Depth - 1 = 0 THEN ProgramTop ELSE frames'[Depth - 1].base
      BY <1>1, <1>5, <1>7, <2>1
    <2> QED
      BY <1>2, <1>3, <1>4, <1>5, <2>2, StackAssumption DEF RegistersMatch, ProgramTop
  <1>11. Linked'
    <2>1. \A k \in 1 .. Depth - 1 :
            frames'[k].topsp = IF k = 1 THEN ProgramTop ELSE frames'[k - 1].base
      BY <1>5, <1>7 DEF ChainInv, Linked
    <2>2. \A i, j \in 1 .. Depth - 1 : i < j => frames'[j].top <= frames'[i].base
      BY <1>5, <1>7 DEF ChainInv, Linked
    <2> QED
      BY <1>5, <2>1, <2>2 DEF Linked, ProgramTop
  <1>12. ASSUME NEW k \in 1 .. Depth - 1
         PROVE  EnvironmentHolds(frames[k])' /\ FrameFits(frames[k])'
    <2>1. EnvironmentHolds(frames[k]) /\ FrameFits(frames[k]) /\ frames'[k] = frames[k]
      BY <1>7 DEF ChainInv, EnvironmentsIntact
    <2>2. frames[k].base >= f.top /\ frames[k].base \in Int
      BY <1>1, <1>5, <1>7, EnvironmentPlace, FrameArithmetic
    <2>3. \A i \in 1 .. 4 : frames[k].base + i \in Indices
      BY <1>7, EnvironmentCells
    <2>4. \A i \in 1 .. 4 : frames[k].base + i > f.top
      BY <1>2, <2>2, StackAssumption
    <2>5. \A i \in 1 .. 4 : program_stack'.stack[frames[k].base + i]
                              = ps.stack[frames[k].base + i]
      <3>1. ps.top \in Int /\ f.top \in Int
        BY <1>2, StackFields, StackAssumption
      <3>2. \A i \in 1 .. 4 : frames[k].base + i \notin ps.top + 1 .. f.top
        BY <2>2, <2>4, <3>1
      <3>3. \A j \in Indices : j \notin ps.top + 1 .. f.top
                               => program_stack'.stack[j] = ps.stack[j]
        BY <1>3, <1>4
      <3> QED
        BY <2>3, <3>2, <3>3
    <2> QED
      BY <2>1, <2>5 DEF EnvironmentHolds, FrameFits, SAVED_TOPSP_OFFSET, SAVED_TOP_OFFSET,
                        SAVED_PC_OFFSET, SAVED_TOTAL_ACTUALS, ProgramTop, AVM_ENV_SIZE
  <1>13. ChainInv'
    BY <1>5, <1>10, <1>11, <1>12 DEF ChainInv, EnvironmentsIntact
  <1>14. ASSUME NEW i \in Indices, i > f.top
         PROVE  program_stack'.stack[i] = ps.stack[i]
    <2>1. i \notin ps.top + 1 .. f.top
      BY <1>2, <1>14 DEF Indices
    <2> QED
      BY <1>3, <1>4, <2>1
  <1> QED
    BY <1>3, <1>4, <1>5, <1>7, <1>8, <1>9, <1>13, <1>14 DEF FuncExit

(* save_environment followed by restore_environment, as a library call     *)
(* does, leaves the caller's registers as they were before the arguments.  *)
LEMMA LibCallRestores ==
  ASSUME IInv, Falls, ~Overflows(program_stack, AVM_ENV_SIZE)
  PROVE  LET s == SaveEnvironment(program_stack, pc)
             r == RestoreEnvironment(s)
         IN  /\ r.top = program_stack.top + program_stack.total_actuals
             /\ r.topsp = program_stack.topsp
             /\ r.total_actuals = 0
             /\ r.fcall_depth = Depth
             /\ r.saved_pointers_stack = << >>
             /\ \A i \in Indices : i > program_stack.top + program_stack.total_actuals
                                  => r.stack[i] = program_stack.stack[i]
             /\ r.stack \in [Indices -> Cell]
             /\ r \in StackObject
             /\ SavedPc(s) = pc + 1
  <1> USE DEF IInv
  <1> DEFINE ps   == program_stack
             s    == SaveEnvironment(ps, pc)
             r    == RestoreEnvironment(s)
             base == ps.top - 4
             oldtop == ps.top + ps.total_actuals
  <1>1. /\ s.top = base
        /\ s.topsp = base
        /\ s.total_actuals = 0
        /\ s.fcall_depth = Depth + 1
        /\ s.saved_pointers_stack = << >>
        /\ s.stack \in [Indices -> Cell]
        /\ \A i \in Indices : i <= base \/ i > base + 4 => s.stack[i] = ps.stack[i]
        /\ s.stack[base + 1] = Number(ps.topsp)
        /\ s.stack[base + 2] = Number(oldtop)
        /\ s.stack[base + 3] = Number(pc + 1)
        /\ base >= -1
        /\ s \in StackObject
    BY SavedFields
  <1> HIDE DEF s
  <1>2. /\ EnvValue(s, 1) = ps.topsp
        /\ EnvValue(s, 2) = oldtop
        /\ EnvValue(s, 3) = pc + 1
    BY <1>1 DEF EnvValue, Number
  <1>3. /\ ps.top \in Int /\ ps.topsp \in Int /\ oldtop \in Int
        /\ ps.topsp \in -1 .. AVM_STACK_SIZE - 1
        /\ oldtop \in -1 .. AVM_STACK_SIZE - 1
        /\ oldtop <= ps.topsp
        /\ base + 4 <= ps.topsp
        /\ base + 4 <= oldtop
    BY StackFields, TopspBelowProgram, StackAssumption
  <1>4. s.fcall_depth > 0
    BY <1>1, StackFields
  <1>5. /\ r.top = EnvValue(s, 2)
        /\ r.topsp = EnvValue(s, 1)
        /\ r.total_actuals = s.total_actuals
        /\ r.fcall_depth = s.fcall_depth - 1
        /\ r.saved_pointers_stack = << >>
        /\ \A i \in Indices :
             r.stack[i] = IF i \in s.top + 1 .. EnvValue(s, 2)
                          THEN Clear(s.stack[i]) ELSE s.stack[i]
        /\ r.stack \in [Indices -> Cell]
        /\ r \in StackObject
    <2>1. /\ EnvValue(s, 1) \in -1 .. AVM_STACK_SIZE - 1
          /\ EnvValue(s, 2) \in -1 .. AVM_STACK_SIZE - 1
      BY <1>2, <1>3
    <2> QED
      BY <1>1, <1>4, <2>1, RestoredFields
  <1> HIDE DEF r
  <1>6. ASSUME NEW i \in Indices, i > oldtop
        PROVE  r.stack[i] = ps.stack[i]
    <2>1. i \notin s.top + 1 .. EnvValue(s, 2)
      BY <1>2, <1>3, <1>6 DEF Indices
    <2>2. s.stack[i] = ps.stack[i]
      BY <1>1, <1>3, <1>6 DEF Indices
    <2> QED
      BY <1>5, <2>1, <2>2
  <1>7. r.fcall_depth = Depth
    BY <1>1, <1>5, StackFields
  <1> QED
    BY <1>1, <1>2, <1>5, <1>6, <1>7 DEF s, r, SavedPc, SAVED_PC_OFFSET

(* The value a library function leaves is a value of the program: what     *)
(* argument() returns is an actual argument of the newest frame.           *)
LEMMA LibResultType ==
  ASSUME IInv, Falls, ~Overflows(program_stack, AVM_ENV_SIZE),
         NEW name, LibMayReturn(name, SaveEnvironment(program_stack, pc)),
         NEW cell \in LibResult(name, SaveEnvironment(program_stack, pc))
  PROVE  cell \in Cell
  <1> USE DEF IInv
  <1> DEFINE ps   == program_stack
             s    == SaveEnvironment(ps, pc)
             base == ps.top - 4
             c    == MoveUp(s)
  <1>1. /\ s.topsp = base
        /\ s.fcall_depth = Depth + 1
        /\ s.stack \in [Indices -> Cell]
        /\ \A i \in Indices : i > base + 4 => s.stack[i] = ps.stack[i]
        /\ s.stack[base + 1] = Number(ps.topsp)
        /\ s.stack[base + 4] = Number(ps.total_actuals)
        /\ base >= -1
        /\ s \in StackObject
    BY SavedFields
  <1> HIDE DEF s
  <1>2. /\ ps.top \in Int /\ ps.topsp \in Int /\ ps.total_actuals \in Nat
        /\ Depth \in Nat
        /\ ps.topsp <= ProgramTop /\ base + 4 + ps.total_actuals <= ps.topsp
    BY StackFields, TopspBelowProgram, StackAssumption
  <1>3. Nil \in Cell /\ \A n \in Int : Number(n) \in Cell
    BY DEF Nil, Number, Cell, Memcell, MemcellType
  <1>4. EnvValue(s, 1) = ps.topsp
    BY <1>1 DEF EnvValue, Number
  <1>5. c.topsp = ps.topsp /\ c.stack = s.stack
    BY <1>1, <1>4 DEF MoveUp, StackObject, SAVED_TOPSP_OFFSET
  <1> HIDE DEF c
  <1>6. ASSUME Depth # 0
        PROVE  /\ TotalActuals(c) = frames[Depth].args
               /\ frames[Depth].args \in Nat
               /\ ps.topsp = frames[Depth].base
               /\ frames[Depth].base + 4 + frames[Depth].args <= ProgramTop
               /\ frames[Depth].base >= -1
               /\ frames[Depth].base \in Int
    <2>1. InFunction
      BY <1>6, <1>2 DEF InFunction, Depth
    <2>2. /\ Depth \in 1 .. Depth
          /\ ps.topsp = frames[Depth].base
      BY <2>1, NewestFrame
    <2>3. /\ frames[Depth].base + 4 \in Indices
          /\ ps.stack[frames[Depth].base + 4] = Number(frames[Depth].args)
      BY <2>2, EnvironmentCells
    <2>4. /\ frames[Depth].args \in Nat /\ frames[Depth].base \in Int
          /\ frames[Depth].base + 4 + frames[Depth].args <= ProgramTop
          /\ frames[Depth].base >= -1
      BY <2>2, FrameArithmetic, StackAssumption DEF ProgramTop
    <2>5. s.stack[ps.topsp + 4] = Number(frames[Depth].args)
      BY <1>1, <1>2, <2>2, <2>3, <2>4
    <2> QED
      BY <1>5, <2>2, <2>4, <2>5 DEF TotalActuals, EnvValue, Number, SAVED_TOTAL_ACTUALS
  <1>7. CASE name = Argument
    <2>1. ArgumentAccepts(s) /\ cell = ArgumentResult(s)
      BY <1>7, CallsAssumption DEF LibMayReturn, LibResult, s
    <2>2. CASE Depth = 0
      BY <1>1, <1>3, <2>1, <2>2 DEF ArgumentResult
    <2>3. CASE Depth # 0
      <3> DEFINE index == FirstActual(s).value
      <3>1. ps.total_actuals = 1
        BY <1>1, <2>1 DEF ArgumentAccepts, TotalActuals, EnvValue, Number,
                          SAVED_TOTAL_ACTUALS
      <3>2. ActualArgIndex(s, 0) \in Indices
        <4>1. base + 5 >= 0 /\ base + 5 <= AVM_STACK_SIZE - 1 /\ base \in Int
          BY <1>1, <1>2, <3>1, StackAssumption DEF ProgramTop
        <4>2. ActualArgIndex(s, 0) = base + 5
          BY <1>1, <4>1 DEF ActualArgIndex, AsUnsigned, AVM_ENV_SIZE
        <4> QED
          BY <4>1, <4>2, StackAssumption DEF Indices
      <3>3. index \in Int
        BY <1>1, <3>2 DEF FirstActual, Cell, Memcell
      <3>4. index >= 0 /\ index < TotalActuals(c)
        <4>1. s.fcall_depth > 1
          BY <1>1, <1>2, <2>3
        <4> QED
          BY <2>1, <4>1 DEF ArgumentAccepts, c
      <3>5. cell = c.stack[ActualArgIndex(c, index)]
        <4>1. s.fcall_depth # 1
          BY <1>1, <1>2, <2>3
        <4> QED
          BY <2>1, <4>1 DEF ArgumentResult, c
      <3> HIDE DEF index
      <3>6. ActualArgIndex(c, index) \in Indices
        BY <1>5, <1>6, <2>3, <3>3, <3>4, StackAssumption
           DEF ActualArgIndex, AsUnsigned, AVM_ENV_SIZE, Indices, ProgramTop
      <3> QED
        BY <1>1, <1>5, <3>5, <3>6
    <2> QED
      BY <2>2, <2>3
  <1>8. CASE name = TotalArguments
    <2>1. cell = TotalArgumentsResult(s)
      BY <1>8, CallsAssumption DEF LibResult, s
    <2> QED
      BY <1>1, <1>2, <1>3, <1>6, <2>1 DEF TotalArgumentsResult, c
  <1>9. CASE name # Argument /\ name # TotalArguments
    BY <1>9, CallsAssumption DEF LibResult
  <1> QED
    BY <1>7, <1>8, <1>9

(* Moving to the caller's record and back leaves the stack as it was.      *)
LEMMA MovedBack ==
  ASSUME NEW s \in StackObject, s.saved_pointers_stack = << >>
  PROVE  MoveDown(MoveUp(s)) = s
  <1> DEFINE c        == MoveUp(s)
             pointers == <<s.top, s.topsp>>
  <1>1. Append(<< >>, pointers) = <<pointers>> /\ Len(<<pointers>>) = 1
    OBVIOUS
  <1>2. SubSeq(<<pointers>>, 1, 1 - 1) = << >>
    OBVIOUS
  <1>3. c = [s EXCEPT !.saved_pointers_stack = <<pointers>>,
                      !.top                  = EnvValue(s, SAVED_TOP_OFFSET),
                      !.topsp                = EnvValue(s, SAVED_TOPSP_OFFSET)]
    BY <1>1 DEF MoveUp
  <1> HIDE DEF c
  <1>4. MoveDown(c) = [c EXCEPT !.saved_pointers_stack = << >>,
                                !.top = s.top, !.topsp = s.topsp]
    BY <1>1, <1>2, <1>3 DEF MoveDown, StackObject
  <1> DEFINE object(top, topsp, saved) ==
               [stack |-> s.stack, top |-> top, topsp |-> topsp,
                total_actuals |-> s.total_actuals, fcall_depth |-> s.fcall_depth,
                saved_pointers_stack |-> saved]
  <1>5. s = object(s.top, s.topsp, << >>)
    BY DEF StackObject
  <1> HIDE DEF pointers
  <1>6. c = object(EnvValue(s, SAVED_TOP_OFFSET), EnvValue(s, SAVED_TOPSP_OFFSET), <<pointers>>)
    BY <1>3 DEF StackObject
  <1>7. MoveDown(c) = object(s.top, s.topsp, << >>)
    BY <1>4, <1>6
  <1> QED
    BY <1>5, <1>7 DEF c

(* What a library call does to the stack and to the pc, whatever function  *)
(* it is.                                                                  *)
LEMMA CallLibFuncStep ==
  ASSUME IInv, NEW func \in Operands, CallLibFunc(func)
  PROVE  LET s == SaveEnvironment(program_stack, pc)
         IN  /\ program_stack' = RestoreEnvironment(s)
             /\ pc' = AfterCycle(SavedPc(s))
             /\ Falls /\ OperandOK(func)
             /\ ~Overflows(program_stack, AVM_ENV_SIZE)
             /\ Callee(func).type \in {"string", "libfunc"}
             /\ Callee(func).value \in LibNames
             /\ LibMayReturn(Callee(func).value, s)
             /\ retval' \in LibResult(Callee(func).value, s)
             /\ outcome' = outcome
  <1> DEFINE s    == SaveEnvironment(program_stack, pc)
             name == Callee(func).value
  <1>1. /\ program_stack' = RestoreEnvironment(LibStack(name, s))
        /\ pc' = AfterCycle(SavedPc(LibStack(name, s)))
        /\ Falls /\ OperandOK(func)
        /\ ~Overflows(program_stack, AVM_ENV_SIZE)
        /\ Callee(func).type \in {"string", "libfunc"}
        /\ name \in LibNames
        /\ LibMayReturn(name, s)
        /\ retval' \in LibResult(name, s)
        /\ outcome' = outcome
    BY DEF CallLibFunc
  <1>2. s \in StackObject /\ s.saved_pointers_stack = << >>
    BY <1>1, SavedFields DEF IInv
  <1> HIDE DEF s, name
  <1>3. LibStack(name, s) = s
    BY <1>2, MovedBack DEF LibStack
  <1> QED
    BY <1>1, <1>3 DEF s, name

LEMMA CallLibFuncKeeps ==
  ASSUME IInv, RecordFrames, NEW func \in Operands, CallLibFunc(func)
  PROVE  IInv' /\ Depth' = Depth
  <1> USE DEF IInv
  <1> DEFINE ps == program_stack
             s  == SaveEnvironment(ps, pc)
             r  == RestoreEnvironment(s)
  <1>1. /\ program_stack' = r
        /\ Falls
        /\ ~Overflows(ps, AVM_ENV_SIZE)
        /\ LibMayReturn(Callee(func).value, s)
        /\ retval' \in LibResult(Callee(func).value, s)
        /\ pc' = AfterCycle(SavedPc(s))
        /\ outcome' = outcome
    BY CallLibFuncStep
  <1>2. retval' \in Cell
    BY <1>1, LibResultType
  <1>3. /\ r.top = ps.top + ps.total_actuals
        /\ r.topsp = ps.topsp
        /\ r.total_actuals = 0
        /\ r.fcall_depth = Depth
        /\ r.saved_pointers_stack = << >>
        /\ \A i \in Indices : i > ps.top + ps.total_actuals => r.stack[i] = ps.stack[i]
        /\ r.stack \in [Indices -> Cell]
        /\ r \in StackObject
        /\ SavedPc(s) = pc + 1
    BY <1>1, LibCallRestores
  <1> HIDE DEF r, s
  <1>4. Depth' = Depth /\ frames' = frames
    BY <1>1, <1>3, FramesUnchanged DEF Depth
  <1>5. pc' \in BodyAddresses
    BY <1>1, <1>3 DEF AfterCycle, Falls
  <1>6. TypeOK'
    BY <1>1, <1>2, <1>3, <1>4, <1>5 DEF TypeOK
  <1>7. ASSUME NEW k \in 1 .. Depth, NEW i \in 1 .. 4
        PROVE  program_stack'.stack[frames[k].base + i] = ps.stack[frames[k].base + i]
    <2>1. /\ frames[k].base \in Int
          /\ frames[k].base >= ps.topsp
          /\ frames[k].base + i \in Indices
      BY EnvironmentPlace, EnvironmentCells, FrameArithmetic
    <2>2. frames[k].base + i > ps.top + ps.total_actuals
      BY FramesAboveTop, StackFields
    <2> QED
      BY <1>1, <1>3, <2>1, <2>2
  <1>8. program_stack'.top + program_stack'.total_actuals <= program_stack'.topsp
    BY <1>1, <1>3, TopspBelowProgram, StackFields, StackAssumption
  <1>9. ChainInv'
    BY <1>1, <1>3, <1>4, <1>7, <1>8, SameFrames
  <1> QED
    BY <1>1, <1>4, <1>6, <1>9

(* Steps that leave the stack alone: jumps and the ways the machine stops. *)
LEMMA StackUnchangedKeeps ==
  ASSUME IInv, RecordFrames, UNCHANGED <<program_stack, retval>>,
         pc' \in BodyAddresses \cup DOMAIN UserFuncs,
         outcome' \in Outcomes \ {"assert_env"}
  PROVE  IInv'
  <1>1. Depth' = Depth
    BY DEF Depth
  <1>2. frames' = frames
    BY <1>1, FramesUnchanged DEF IInv
  <1> QED
    BY <1>2 DEF IInv, TypeOK, Depth, ChainInv, RegistersMatch, Linked,
                EnvironmentsIntact, EnvironmentHolds, FrameFits

(* Translating an operand trips no assertion of get_env_value.             *)
LEMMA OperandFaultKinds ==
  ASSUME IInv, NEW o \in Operands
  PROVE  OperandFault(o) \in {"running", "assert_actuals", "assert_index"}
  <1>1. ASSUME o.mode = "formal", o \in Variables
        PROVE  ~EnvValueAsserts(program_stack, program_stack.topsp + SAVED_TOTAL_ACTUALS)
    <2>1. InFunction
      BY <1>1 DEF Variables, Variable
    <2> QED
      BY <2>1, NewestFrame DEF IInv, SAVED_TOTAL_ACTUALS
  <1>2. o \in Variables \/ o.mode \in {"retval", "constant"}
    BY DEF Operands, LValues
  <1> QED
    BY <1>1, <1>2 DEF OperandFault

LEMMA StopKeeps ==
  ASSUME IInv, RecordFrames,
         NEW how \in Outcomes \ {"assert_env"}, Stop(how)
  PROVE  IInv'
  BY StackUnchangedKeeps DEF IInv, TypeOK, Stop

(* The inductive step. *)
LEMMA NextKeeps ==
  ASSUME IInv, [HNext]_hvars
  PROVE  IInv'
  <1>1. CASE UNCHANGED hvars
    BY <1>1 DEF IInv, TypeOK, Depth, ChainInv, RegistersMatch, Linked,
                EnvironmentsIntact, EnvironmentHolds, FrameFits, hvars
  <1>2. CASE HNext
    <2>1. RecordFrames /\ Next
      BY <1>2 DEF HNext
    <2>2. ASSUME NEW o \in Operands, PushArg(o) PROVE IInv'
      BY <2>1, <2>2, PushArgKeeps
    <2>3. ASSUME NEW o \in Operands, CallUserFunc(o) PROVE IInv'
      BY <2>1, <2>3, CallUserFuncKeeps
    <2>4. ASSUME NEW o \in Operands, CallLibFunc(o) PROVE IInv'
      BY <2>1, <2>4, CallLibFuncKeeps
    <2>5. ASSUME NEW o \in Operands, CallFails(o) PROVE IInv'
      <3>1. Stop("runtime_error") \/ Stop("assert_index") \/ Stop("out_of_range")
        BY <2>5 DEF CallFails
      <3> QED
        BY <2>1, <3>1, StopKeeps DEF Outcomes
    <2>6. ASSUME NEW o \in Operands, OperandFails(o) PROVE IInv'
      BY <2>1, <2>6, StopKeeps, OperandFaultKinds DEF OperandFails, OperandOK, Outcomes
    <2>7. ASSUME NEW lv \in LValues, NEW rv \in Operands, Assign(lv, rv) PROVE IInv'
      BY <2>1, <2>7, OperandType, StoreKeeps DEF Assign, IInv
    <2>8. ASSUME NEW lv \in LValues, NEW table \in DOMAIN Functor, NewTable(lv, table)
          PROVE  IInv'
      <3>1. \A n \in Int : n \in DOMAIN Functor => TableRef(n) \in Cell
        BY DEF TableRef, Cell, Memcell, MemcellType
      <3>2. table \in Int
        BY CallsAssumption
      <3> QED
        BY <2>1, <2>8, <3>1, <3>2, StoreKeeps DEF NewTable
    <2>9. CASE FuncEnter
      BY <2>1, <2>9, FuncEnterKeeps
    <2>10. CASE FuncExit
      BY <2>1, <2>10, FuncExitKeeps
    <2>11. ASSUME NEW label \in BodyAddresses, Jump(label) PROVE IInv'
      BY <2>1, <2>11, StackUnchangedKeeps DEF Jump, InBody, Running, Outcomes
    <2>12. CASE StackOverflow
      BY <2>1, <2>12, StopKeeps DEF StackOverflow, Outcomes
    <2> QED
      BY <2>1, <2>2, <2>3, <2>4, <2>5, <2>6, <2>7, <2>8, <2>9, <2>10, <2>11, <2>12
         DEF Next
  <1> QED
    BY <1>1, <1>2

LEMMA InitHolds ==
  ASSUME HInit
  PROVE  IInv
  <1> USE DEF HInit, Init, NewStack
  <1>1. /\ program_stack.top = ProgramTop
        /\ program_stack.topsp = ProgramTop
        /\ program_stack.total_actuals = 0
        /\ program_stack.fcall_depth = 0
        /\ program_stack.saved_pointers_stack = << >>
        /\ program_stack.stack = [i \in Indices |-> Undef]
    OBVIOUS
  <1>2. ProgramTop \in -1 .. AVM_STACK_SIZE - 1
    BY StackAssumption DEF ProgramTop
  <1>3. Undef \in Cell /\ Undef \in Memcell
    BY DEF Undef, Cell, Memcell, MemcellType
  <1>4. program_stack \in StackObject
    <2>1. << >> \in Seq(Int \X Int)
      OBVIOUS
    <2>2. [i \in Indices |-> Undef] \in [Indices -> Memcell]
      BY <1>3
    <2> QED
      BY <1>2, <2>1, <2>2 DEF StackObject
  <1>5. frames \in [1 .. Depth -> Frame]
    <2>1. 1 .. Depth = {}
      BY <1>1 DEF Depth
    <2>2. frames = [k \in {} |-> frames[k]]
      OBVIOUS
    <2> QED
      BY <2>1, <2>2
  <1>6. TypeOK
    BY <1>1, <1>3, <1>4, <1>5, CallsAssumption DEF TypeOK, Outcomes
  <1>7. ChainInv
    BY <1>1, <1>2, StackAssumption
       DEF ChainInv, RegistersMatch, Linked, EnvironmentsIntact, Depth, ProgramTop
  <1> QED
    BY <1>6, <1>7 DEF IInv

-----------------------------------------------------------------------------
(* The inductive invariant holds in every reachable state.                 *)
THEOREM Invariance == HSpec => []IInv
  <1>1. HInit => IInv
    BY InitHolds
  <1>2. IInv /\ [HNext]_hvars => IInv'
    BY NextKeeps
  <1> QED
    BY <1>1, <1>2, PTL DEF HSpec

(* The machine's variables keep their types: pc never leaves the code and  *)
(* every callee is the address of a funcenter (execute_call's assertion).  *)
THEOREM TypeCorrect == HSpec => []TypeOK
  <1>1. IInv => TypeOK
    BY DEF IInv
  <1> QED
    BY <1>1, Invariance, PTL

(* However functions call each other, whatever they assign, and however    *)
(* full the stack is, every environment on it still holds its caller's     *)
(* registers.                                                              *)
THEOREM ChainNeverDamaged == HSpec => []ChainInv
  <1>1. IInv => ChainInv
    BY DEF IInv
  <1> QED
    BY <1>1, Invariance, PTL

(* The assertions of get_env_value and restore_environment never fire.     *)
THEOREM EnvironmentNeverLost == HSpec => []NeverLosesEnvironment
  <1>1. IInv => NeverLosesEnvironment
    BY NewestFrame DEF IInv, NeverLosesEnvironment
  <1> QED
    BY <1>1, Invariance, PTL

(* Only funcexit lowers the depth, so a lower depth is a return.           *)
LEMMA ReturnStep ==
  ASSUME IInv, HNext, Depth' < Depth
  PROVE  FuncExit /\ RecordFrames
  <1> USE DEF IInv
  <1>1. RecordFrames /\ Next
    BY DEF HNext
  <1>2. Depth \in Nat
    BY StackFields
  <1>3. ASSUME UNCHANGED program_stack PROVE FALSE
    BY <1>2, <1>3 DEF Depth
  <1>4. ASSUME NEW o \in Operands, PushArg(o) PROVE FALSE
    BY <1>2, <1>4 DEF PushArg, PushActualArg, Depth, TypeOK, StackObject
  <1>5. ASSUME NEW o \in Operands, CallUserFunc(o) PROVE FALSE
    <2>1. program_stack'.fcall_depth = Depth + 1
      BY <1>5, SavedFields DEF CallUserFunc
    <2> QED
      BY <1>2, <2>1 DEF Depth
  <1>6. ASSUME NEW o \in Operands, CallLibFunc(o) PROVE FALSE
    BY <1>1, <1>2, <1>6, CallLibFuncKeeps
  <1>7. ASSUME NEW o \in Operands, CallFails(o) PROVE FALSE
    BY <1>3, <1>7 DEF CallFails, Stop
  <1>8. ASSUME NEW o \in Operands, OperandFails(o) PROVE FALSE
    BY <1>3, <1>8 DEF OperandFails, Stop
  <1>9. ASSUME NEW lv \in LValues, NEW cell, Store(lv, cell) PROVE FALSE
    BY <1>2, <1>9 DEF Store, Depth, TypeOK, StackObject
  <1>10. ASSUME FuncEnter PROVE FALSE
    BY <1>2, <1>10 DEF FuncEnter, AllocateMemcells, Depth, TypeOK, StackObject
  <1>11. ASSUME NEW label \in BodyAddresses, Jump(label) PROVE FALSE
    BY <1>3, <1>11 DEF Jump
  <1>12. ASSUME StackOverflow PROVE FALSE
    BY <1>3, <1>12 DEF StackOverflow, Stop
  <1> QED
    BY <1>1, <1>4, <1>5, <1>6, <1>7, <1>8, <1>9, <1>10, <1>11, <1>12
       DEF Next, Assign, NewTable

(* A return gives the caller its registers back and resumes it after the   *)
(* call, for every program and every depth.                                *)
THEOREM ReturnsRestore == HSpec => ReturnRestoresCaller
  <1> DEFINE Return == Depth' < Depth =>
                         LET f == frames[Depth]
                         IN  /\ pc' = f.ret
                             /\ program_stack'.top = f.top
                             /\ program_stack'.topsp = f.topsp
                             /\ program_stack'.total_actuals = 0
  <1>1. IInv /\ [HNext]_hvars => [Return]_hvars
    <2> SUFFICES ASSUME IInv, HNext, Depth' < Depth
                 PROVE  Return
      BY DEF hvars
    <2> QED
      BY ReturnStep, FuncExitKeeps
  <1> QED
    BY <1>1, Invariance, PTL DEF HSpec, ReturnRestoresCaller

-----------------------------------------------------------------------------
(* FreeCellsOwnNothing is inductive together with IInv.                    *)
LEMMA ClearedOwnsNothing ==
  ASSUME NEW c
  PROVE  Clear(c).type \notin Resource
  BY DEF Clear, Resource, Undef

LEMMA FreeCellsStoreKeeps ==
  ASSUME IInv, FreeCellsOwnNothing,
         NEW lv \in LValues, OperandOK(lv), NEW cell, Store(lv, cell)
  PROVE  FreeCellsOwnNothing'
  <1> USE DEF IInv
  <1>1. CASE lv = [mode |-> "retval"]
    BY <1>1 DEF Store, FreeCellsOwnNothing
  <1>2. CASE lv \in Variables
    <2>1. lv.mode # "retval"
      BY <1>2 DEF Variables, Variable
    <2>2. /\ program_stack'.top = program_stack.top
          /\ program_stack'.stack = [program_stack.stack EXCEPT ![IndexOf(lv)] = cell]
      BY <2>1 DEF Store, TypeOK, StackObject
    <2>3. IndexOf(lv) > program_stack.top /\ IndexOf(lv) \in Indices
      BY <1>2, OperandCell
    <2>4. ASSUME NEW i \in Indices, i <= program_stack'.top
          PROVE  program_stack'.stack[i] = program_stack.stack[i]
      <3>1. i # IndexOf(lv)
        BY <2>2, <2>3, <2>4, StackFields, StackAssumption DEF Indices
      <3> QED
        BY <2>2, <3>1, StackFields
    <2> QED
      BY <2>2, <2>4 DEF FreeCellsOwnNothing, Indices
  <1> QED
    BY <1>1, <1>2 DEF LValues

LEMMA FreeCellsNextKeeps ==
  ASSUME IInv, FreeCellsOwnNothing, [HNext]_hvars
  PROVE  FreeCellsOwnNothing'
  <1> USE DEF IInv
  <1> DEFINE ps == program_stack
  <1>1. ps.top \in Int /\ ps.total_actuals \in Nat /\ AVM_STACK_SIZE \in Nat
    BY StackFields, StackAssumption
  <1>2. ASSUME UNCHANGED program_stack PROVE FreeCellsOwnNothing'
    BY <1>2 DEF FreeCellsOwnNothing, Indices
  <1>3. ASSUME NEW arg \in Operands, PushArg(arg) PROVE FreeCellsOwnNothing'
    <2>1. /\ ps'.top = ps.top - 1
          /\ ps'.stack = [ps.stack EXCEPT ![ps.top] = CellOf(arg)]
      BY <1>3 DEF PushArg, PushActualArg, TypeOK, StackObject
    <2>2. ASSUME NEW i \in Indices, i <= ps'.top
          PROVE  i <= ps.top /\ ps'.stack[i] = ps.stack[i]
      BY <1>1, <2>1, <2>2, StackFields DEF Indices
    <2> QED
      BY <2>2 DEF FreeCellsOwnNothing, Indices
  <1>4. ASSUME NEW func \in Operands, CallUserFunc(func) PROVE FreeCellsOwnNothing'
    <2> DEFINE s == SaveEnvironment(ps, pc)
    <2>1. /\ ps' = s
          /\ s.top = ps.top - 4
          /\ \A i \in Indices : i <= ps.top - 4 => s.stack[i] = ps.stack[i]
      BY <1>4, SavedFields DEF CallUserFunc
    <2> HIDE DEF s
    <2>2. \A i \in Indices : i <= ps'.top => i <= ps.top /\ ps'.stack[i] = ps.stack[i]
      BY <1>1, <2>1 DEF Indices
    <2> QED
      BY <2>2 DEF FreeCellsOwnNothing, Indices
  <1>5. ASSUME NEW func \in Operands, CallLibFunc(func) PROVE FreeCellsOwnNothing'
    <2> DEFINE s == SaveEnvironment(ps, pc)
               r == RestoreEnvironment(s)
    <2>1. ps' = r /\ Falls /\ ~Overflows(ps, AVM_ENV_SIZE)
      BY <1>5, CallLibFuncStep DEF IInv
    <2>2. /\ s.top = ps.top - 4
          /\ \A i \in Indices : i <= ps.top - 4 => s.stack[i] = ps.stack[i]
      BY <2>1, SavedFields
    <2>3. r.top = ps.top + ps.total_actuals
      BY <2>1, LibCallRestores
    <2>4. ASSUME NEW i \in Indices, i <= r.top
          PROVE  r.stack[i].type \notin Resource
      <3>1. EnvValue(s, 2) = r.top
        BY DEF RestoreEnvironment, SAVED_TOP_OFFSET, SaveEnvironment, TypeOK, StackObject
      <3>2. r.stack[i] = IF i \in s.top + 1 .. r.top THEN Clear(s.stack[i])
                                                     ELSE s.stack[i]
        BY <3>1 DEF RestoreEnvironment, SAVED_TOP_OFFSET, SaveEnvironment, TypeOK, StackObject
      <3>3. CASE i \in s.top + 1 .. r.top
        BY <3>2, <3>3, ClearedOwnsNothing
      <3>4. CASE i \notin s.top + 1 .. r.top
        <4>1. i <= ps.top - 4
          BY <1>1, <2>2, <2>3, <2>4, <3>4 DEF Indices
        <4>2. r.stack[i] = ps.stack[i]
          BY <2>2, <3>2, <3>4, <4>1
        <4> QED
          BY <1>1, <4>1, <4>2 DEF FreeCellsOwnNothing, Indices
      <3> QED
        BY <3>3, <3>4
    <2> HIDE DEF r
    <2> QED
      BY <2>1, <2>4 DEF FreeCellsOwnNothing, Indices
  <1>6. ASSUME FuncEnter PROVE FreeCellsOwnNothing'
    <2>1. ps'.top = ps.top - UserFuncs[pc] /\ ps'.stack = ps.stack
      BY <1>6 DEF FuncEnter, AllocateMemcells, TypeOK, StackObject
    <2>2. UserFuncs[pc] \in Nat
      BY <1>6, CallsAssumption DEF FuncEnter
    <2> QED
      BY <1>1, <2>1, <2>2 DEF FreeCellsOwnNothing, Indices
  <1>7. ASSUME FuncExit PROVE FreeCellsOwnNothing'
    <2> DEFINE r == RestoreEnvironment(ps)
    <2>1. /\ ps' = r
          /\ r.top \in Int
          /\ \A i \in Indices : r.stack[i] = IF i \in ps.top + 1 .. r.top
                                             THEN Clear(ps.stack[i]) ELSE ps.stack[i]
      <3>1. /\ EnvValue(ps, 1) = frames[Depth].topsp
            /\ EnvValue(ps, 2) = frames[Depth].top
            /\ Depth \in 1 .. Depth
            /\ ps.fcall_depth > 0
        BY <1>7, NewestFrame DEF FuncExit, InFunction
      <3>2. /\ frames[Depth].topsp \in -1 .. AVM_STACK_SIZE - 1
            /\ frames[Depth].top \in -1 .. AVM_STACK_SIZE - 1
        BY <3>1, FrameArithmetic, StackAssumption DEF ProgramTop
      <3>3. /\ ps \in StackObject
            /\ ps.stack \in [Indices -> Cell]
            /\ ps.saved_pointers_stack = << >>
        BY StackFields DEF TypeOK
      <3> QED
        BY <1>7, <3>1, <3>2, <3>3, RestoredFields DEF FuncExit
    <2> HIDE DEF r
    <2>2. ASSUME NEW i \in Indices, i <= r.top
          PROVE  r.stack[i].type \notin Resource
      <3>1. CASE i \in ps.top + 1 .. r.top
        BY <2>1, <3>1, ClearedOwnsNothing
      <3>2. CASE i \notin ps.top + 1 .. r.top
        BY <1>1, <2>1, <2>2, <3>2 DEF FreeCellsOwnNothing, Indices
      <3> QED
        BY <3>1, <3>2
    <2> QED
      BY <2>1, <2>2 DEF FreeCellsOwnNothing, Indices
  <1>8. CASE UNCHANGED hvars
    BY <1>2, <1>8 DEF hvars
  <1>9. CASE HNext
    <2>1. ASSUME NEW o \in Operands, CallFails(o) \/ OperandFails(o)
          PROVE  FreeCellsOwnNothing'
      BY <1>2, <2>1 DEF CallFails, OperandFails, Stop
    <2>2. ASSUME NEW lv \in LValues, NEW rv \in Operands, Assign(lv, rv)
          PROVE  FreeCellsOwnNothing'
      BY <2>2, FreeCellsStoreKeeps DEF Assign
    <2>3. ASSUME NEW lv \in LValues, NEW table \in DOMAIN Functor, NewTable(lv, table)
          PROVE  FreeCellsOwnNothing'
      BY <2>3, FreeCellsStoreKeeps DEF NewTable
    <2>4. ASSUME NEW label \in BodyAddresses, Jump(label) PROVE FreeCellsOwnNothing'
      BY <1>2, <2>4 DEF Jump
    <2>5. ASSUME StackOverflow PROVE FreeCellsOwnNothing'
      BY <1>2, <2>5 DEF StackOverflow, Stop
    <2>6. Next
      BY <1>9 DEF HNext
    <2> QED
      BY <1>3, <1>4, <1>5, <1>6, <1>7, <2>1, <2>2, <2>3, <2>4, <2>5, <2>6 DEF Next
  <1> QED
    BY <1>8, <1>9

(* No free cell of the stack ever holds a string or a table, so the cells  *)
(* that allocate_memcells hands out uncleared never leak a reference.      *)
THEOREM NothingLeaksInFreeCells == HSpec => []FreeCellsOwnNothing
  <1>1. HInit => FreeCellsOwnNothing
    BY DEF HInit, Init, NewStack, FreeCellsOwnNothing, Undef, Resource
  <1>2. IInv /\ FreeCellsOwnNothing /\ [HNext]_hvars => FreeCellsOwnNothing'
    BY FreeCellsNextKeeps
  <1> QED
    BY <1>1, <1>2, Invariance, PTL DEF HSpec

-----------------------------------------------------------------------------
(* The refinement.                                                         *)

(* Control is at a funcenter only between a call and the allocation of the *)
(* callee's locals.                                                        *)
AtEntry ==
  pc \in DOMAIN UserFuncs =>
    /\ InFunction
    /\ program_stack.top = program_stack.topsp
    /\ program_stack.total_actuals = 0

RInv == IInv /\ AtEntry

(* What the refinement mapping makes of a state. *)
GlobalsNow == CellsDown(AVM_STACK_SIZE - 1, ProgramTop + 1)
RecordsNow == [k \in 1 .. Depth |-> RecordOf(k)]
PendingNow == CellsUp(program_stack.top + 1, program_stack.top + program_stack.total_actuals)

-----------------------------------------------------------------------------
LEMMA LengthOf ==
  ASSUME NEW S, NEW n \in Nat, NEW s \in [1 .. n -> S]
  PROVE  s \in Seq(S) /\ Len(s) = n
<1>1. s \in Seq(S)
  BY SeqDef
<1>2. Len(s) \in Nat /\ 1 .. n = 1 .. Len(s)
  BY <1>1, LenProperties
<1> QED
  BY <1>1, <1>2

(* The cells of a state, region by region. *)
LEMMA GlobalsFields ==
  ASSUME TypeOK
  PROVE  /\ GlobalsNow = [i \in 1 .. TotalProgramVars |-> program_stack.stack[AVM_STACK_SIZE - i]]
         /\ \A i \in 1 .. TotalProgramVars :
              AVM_STACK_SIZE - i \in Indices /\ AVM_STACK_SIZE - i > ProgramTop
<1>1. AVM_STACK_SIZE - 1 - (ProgramTop + 1) + 1 = TotalProgramVars
  BY StackAssumption DEF ProgramTop
<1>2. \A i \in 1 .. TotalProgramVars : AVM_STACK_SIZE - 1 - i + 1 = AVM_STACK_SIZE - i
  BY StackAssumption
<1>3. \A i \in 1 .. TotalProgramVars :
        AVM_STACK_SIZE - i \in Indices /\ AVM_STACK_SIZE - i > ProgramTop
  BY StackAssumption DEF Indices, ProgramTop
<1> QED
  BY <1>1, <1>2, <1>3 DEF GlobalsNow, CellsDown

LEMMA PendingFields ==
  ASSUME IInv
  PROVE  LET n == program_stack.total_actuals
         IN  /\ n \in Nat /\ program_stack.top \in Int
             /\ PendingNow = [i \in 1 .. n |-> program_stack.stack[program_stack.top + i]]
             /\ \A i \in 1 .. n : program_stack.top + i \in Indices
             /\ PendingNow \in Seq(Cell)
             /\ Len(PendingNow) = n
<1> DEFINE n   == program_stack.total_actuals
           top == program_stack.top
<1>1. n \in Nat /\ top \in Int /\ top >= -1 /\ top + n <= ProgramTop
  BY StackFields, TopspBelowProgram, StackAssumption DEF IInv, ProgramTop
<1>2. \A i \in 1 .. n : top + i \in Indices
  BY <1>1, StackAssumption DEF Indices, ProgramTop
<1>3. top + n - (top + 1) + 1 = n /\ \A i \in 1 .. n : top + 1 + i - 1 = top + i
  BY <1>1
<1>4. PendingNow = [i \in 1 .. n |-> program_stack.stack[top + i]]
  <2>1. PendingNow = CellsUp(top + 1, top + n)
    BY DEF PendingNow
  <2>2. CellsUp(top + 1, top + n)
          = [i \in 1 .. (top + n) - (top + 1) + 1 |-> program_stack.stack[(top + 1) + i - 1]]
    BY Zenon DEF CellsUp
  <2> HIDE DEF top, n
  <2> QED
    BY <1>1, <1>3, <2>1, <2>2
<1>5. program_stack.stack \in [Indices -> Cell]
  BY StackFields DEF IInv
<1>6. PendingNow \in [1 .. n -> Cell]
  BY <1>2, <1>4, <1>5
<1> QED
  BY <1>1, <1>2, <1>4, <1>6, LengthOf

(* The region of a frame: its locals lie below its environment, above the  *)
(* newest frame or the pending arguments, its actuals above the            *)
(* environment and below the frame before it.                              *)
LEMMA Regions ==
  ASSUME IInv, NEW k \in 1 .. Depth
  PROVE  /\ LastLocal(k) \in Int /\ frames[k].base \in Int /\ frames[k].args \in Nat
         /\ frames[k].base >= -1
         /\ LastLocal(k) <= frames[k].base + 1
         /\ LastLocal(k) > program_stack.top + program_stack.total_actuals
         /\ LastLocal(k) >= 0
         /\ frames[k].top = frames[k].base + 4 + frames[k].args
         /\ frames[k].top <= ProgramTop
         /\ k # Depth => LastLocal(k) > frames[Depth].top
<1> USE DEF IInv
<1>1. /\ program_stack.top \in Int /\ program_stack.top >= -1
      /\ program_stack.total_actuals \in Nat
      /\ program_stack.top + program_stack.total_actuals <= program_stack.topsp
      /\ Depth \in Nat
  BY StackFields, TopspBelowProgram, StackAssumption
<1>2. /\ frames[k].base \in Int /\ frames[k].args \in Nat /\ frames[k].base >= -1
      /\ frames[k].top = frames[k].base + 4 + frames[k].args
      /\ frames[k].top <= ProgramTop
  BY FrameArithmetic, StackAssumption DEF ProgramTop
<1>3. CASE k = Depth
  <2>1. LastLocal(k) = program_stack.top + program_stack.total_actuals + 1
    BY <1>3 DEF LastLocal
  <2>2. program_stack.topsp = frames[k].base
    BY <1>1, <1>3 DEF ChainInv, RegistersMatch
  <2> QED
    BY <1>1, <1>2, <1>3, <2>1, <2>2
<1>4. CASE k # Depth
  <2>1. k + 1 \in 1 .. Depth /\ k < k + 1 /\ Depth \in 1 .. Depth
    BY <1>1, <1>4
  <2>2. LastLocal(k) = frames[k + 1].top + 1
    BY <1>4 DEF LastLocal
  <2>3. frames[k + 1].top <= frames[k].base
    BY <2>1 DEF ChainInv, Linked
  <2>4. /\ frames[k + 1].base \in Int /\ frames[k + 1].args \in Nat
        /\ frames[k + 1].top = frames[k + 1].base + 4 + frames[k + 1].args
        /\ frames[k + 1].base >= -1
    BY <2>1, FrameArithmetic
  <2>5. frames[k + 1].base >= program_stack.top + program_stack.total_actuals
    BY <2>1, FramesAboveTop
  <2>6. frames[Depth].top <= frames[k + 1].top
    <3>1. CASE k + 1 = Depth
      BY <2>4, <3>1
    <3>2. CASE k + 1 # Depth
      <4>1. frames[Depth].top <= frames[k + 1].base
        BY <2>1, <3>2 DEF ChainInv, Linked
      <4> QED
        BY <2>1, <2>4, <4>1, FrameArithmetic
    <3> QED
      BY <3>1, <3>2
  <2>7. frames[Depth].top \in Int
    BY <2>1, FrameArithmetic
  <2> QED
    BY <1>1, <1>2, <2>2, <2>3, <2>4, <2>5, <2>6, <2>7
<1> QED
  BY <1>3, <1>4

LEMMA RecordFields ==
  ASSUME IInv, NEW k \in 1 .. Depth
  PROVE  LET f == frames[k]
             n == f.base - LastLocal(k) + 1
         IN  /\ RecordOf(k) = [ret     |-> f.ret,
                               actuals |-> [i \in 1 .. f.args |-> program_stack.stack[f.base + 4 + i]],
                               locals  |-> [i \in 1 .. n |-> program_stack.stack[f.base - i + 1]]]
             /\ \A i \in 1 .. f.args : f.base + 4 + i \in Indices
             /\ \A i \in 1 .. n : f.base - i + 1 \in Indices
             /\ n \in Nat
             /\ Len(RecordOf(k).actuals) = f.args /\ RecordOf(k).actuals \in Seq(Cell)
             /\ Len(RecordOf(k).locals) = n /\ RecordOf(k).locals \in Seq(Cell)
<1> DEFINE f    == frames[k]
           n    == f.base - LastLocal(k) + 1
           up   == [i \in 1 .. f.args |-> program_stack.stack[f.base + 4 + i]]
           down == [i \in 1 .. n |-> program_stack.stack[f.base - i + 1]]
<1>1. /\ f.base \in Int /\ f.args \in Nat /\ f.base >= -1 /\ LastLocal(k) \in Int
      /\ LastLocal(k) <= f.base + 1 /\ LastLocal(k) >= 0
      /\ f.top = f.base + 4 + f.args
      /\ f.top <= ProgramTop
  BY Regions
<1>2. n \in Nat
  BY <1>1
<1>3. \A i \in 1 .. f.args : f.base + 4 + i \in Indices
  BY <1>1, StackAssumption DEF ProgramTop, Indices
<1>4. \A i \in 1 .. n : f.base - i + 1 \in Indices
  BY <1>1, StackAssumption DEF ProgramTop, Indices
<1>5. CellsUp(f.base + AVM_ENV_SIZE + 1, f.top) = up
  <2>1. f.top - (f.base + 4 + 1) + 1 = f.args
    BY <1>1
  <2>2. \A i \in 1 .. f.args : f.base + 4 + 1 + i - 1 = f.base + 4 + i
    BY <1>1
  <2> QED
    BY <2>1, <2>2 DEF CellsUp, AVM_ENV_SIZE
<1>6. CellsDown(f.base, LastLocal(k)) = down
  BY DEF CellsDown
<1>7. program_stack.stack \in [Indices -> Cell]
  BY StackFields DEF IInv
<1>8. up \in [1 .. f.args -> Cell] /\ down \in [1 .. n -> Cell]
  BY <1>3, <1>4, <1>7
<1>9. RecordOf(k) = [ret |-> f.ret, actuals |-> up, locals |-> down]
  BY <1>5, <1>6 DEF RecordOf
<1> HIDE DEF up, down, n
<1>10. /\ up \in Seq(Cell) /\ Len(up) = f.args
       /\ down \in Seq(Cell) /\ Len(down) = n
  BY <1>1, <1>2, <1>8, LengthOf
<1>11. RecordOf(k).actuals = up /\ RecordOf(k).locals = down
  BY <1>9
<1> QED
  BY <1>2, <1>3, <1>4, <1>9, <1>10, <1>11 DEF up, down, n

-----------------------------------------------------------------------------
(* The abstract state in terms of the machine's. *)
RecordSet == [ret : BodyAddresses, actuals : Seq(Cell), locals : Seq(Cell)]

LEMMA RecordsFields ==
  ASSUME IInv
  PROVE  /\ RecordsNow \in Seq(RecordSet)
         /\ Len(RecordsNow) = Depth /\ Depth \in Nat
         /\ \A k \in 1 .. Depth : RecordsNow[k] = RecordOf(k)
         /\ RecordsNow # << >> <=> InFunction
<1>1. Depth \in Nat
  BY StackFields DEF IInv
<1>2. ASSUME NEW k \in 1 .. Depth
      PROVE  RecordOf(k) \in RecordSet
  <2>1. frames[k].ret \in BodyAddresses
    BY FrameArithmetic DEF IInv
  <2> QED
    BY <2>1, RecordFields DEF RecordSet
<1>3. RecordsNow \in [1 .. Depth -> RecordSet]
  BY <1>2 DEF RecordsNow
<1>4. RecordsNow \in Seq(RecordSet) /\ Len(RecordsNow) = Depth
  BY <1>1, <1>3, LengthOf
<1>5. RecordsNow # << >> <=> Depth # 0
  BY <1>4, EmptySeq
<1> QED
  BY <1>1, <1>4, <1>5 DEF RecordsNow, InFunction, Depth

LEMMA NewestFields ==
  ASSUME IInv
  PROVE  /\ Records!InFunction <=> InFunction
         /\ InFunction => /\ Records!Newest = RecordOf(Depth)
                          /\ Depth \in 1 .. Depth
                          /\ Len(Records!Newest.locals) = FrameLocals
                          /\ Len(Records!Newest.actuals) = TotalActuals(program_stack)
                          /\ \A o \in 0 .. FrameLocals - 1 :
                               Records!Newest.locals[o + 1]
                                 = program_stack.stack[program_stack.topsp - o]
                          /\ \A o \in 0 .. TotalActuals(program_stack) - 1 :
                               Records!Newest.actuals[o + 1]
                                 = program_stack.stack[program_stack.topsp + 5 + o]
<1>1. Records!InFunction <=> InFunction
  BY RecordsFields DEF Records!InFunction, RecordsNow
<1> SUFFICES ASSUME InFunction
             PROVE  /\ Records!Newest = RecordOf(Depth)
                    /\ Depth \in 1 .. Depth
                    /\ Len(Records!Newest.locals) = FrameLocals
                    /\ Len(Records!Newest.actuals) = TotalActuals(program_stack)
                    /\ \A o \in 0 .. FrameLocals - 1 :
                         Records!Newest.locals[o + 1]
                           = program_stack.stack[program_stack.topsp - o]
                    /\ \A o \in 0 .. TotalActuals(program_stack) - 1 :
                         Records!Newest.actuals[o + 1]
                           = program_stack.stack[program_stack.topsp + 5 + o]
  BY <1>1
<1> DEFINE f == frames[Depth]
           n == f.base - LastLocal(Depth) + 1
<1>2. Depth \in 1 .. Depth
  BY NewestFrame DEF IInv
<1>3. Records!Newest = RecordsNow[Len(RecordsNow)]
  BY DEF Records!Newest, RecordsNow
<1>4. Records!Newest = RecordOf(Depth)
  BY <1>2, <1>3, RecordsFields
<1>5. /\ program_stack.topsp = f.base
      /\ TotalActuals(program_stack) = f.args
  BY NewestFrame DEF IInv, TotalActuals, SAVED_TOTAL_ACTUALS
<1>6. /\ program_stack.top \in Int /\ program_stack.total_actuals \in Nat
      /\ f.base \in Int /\ f.args \in Nat
  BY <1>2, StackFields, FrameArithmetic, StackAssumption DEF IInv
<1>7. LastLocal(Depth) = program_stack.top + program_stack.total_actuals + 1
  BY DEF LastLocal
<1>8. n = FrameLocals
  BY <1>5, <1>6, <1>7 DEF FrameLocals
<1>9. /\ RecordOf(Depth) = [ret     |-> f.ret,
                            actuals |-> [i \in 1 .. f.args |-> program_stack.stack[f.base + 4 + i]],
                            locals  |-> [i \in 1 .. n |-> program_stack.stack[f.base - i + 1]]]
      /\ n \in Nat
      /\ Len(RecordOf(Depth).actuals) = f.args
      /\ Len(RecordOf(Depth).locals) = n
  BY <1>2, RecordFields
<1> HIDE DEF f, n
<1>10. ASSUME NEW o \in 0 .. n - 1
       PROVE  RecordOf(Depth).locals[o + 1] = program_stack.stack[f.base - o]
  <2>1. o + 1 \in 1 .. n /\ f.base - (o + 1) + 1 = f.base - o
    BY <1>6, <1>9
  <2> QED
    BY <1>9, <2>1
<1>11. ASSUME NEW o \in 0 .. f.args - 1
       PROVE  RecordOf(Depth).actuals[o + 1] = program_stack.stack[f.base + 5 + o]
  <2>1. o + 1 \in 1 .. f.args /\ f.base + 4 + (o + 1) = f.base + 5 + o
    BY <1>6
  <2> QED
    BY <1>9, <2>1
<1> QED
  BY <1>2, <1>4, <1>5, <1>8, <1>9, <1>10, <1>11

(* What an instruction may name is a value of the newest record, a program *)
(* variable, the return value or a constant, and it reads the same value.  *)
LEMMA OperandMaps ==
  ASSUME IInv, NEW o \in Operands, OperandOK(o)
  PROVE  /\ o \in Records!Operands
         /\ o \in LValues => o \in Records!LValues
         /\ Records!ValueOf(o) = CellOf(o)
<1> USE DEF IInv
<1>1. CASE /\ o = Variable("program", o.offset)
           /\ o.offset \in 0 .. TotalProgramVars - 1
  <2>1. o \in Records!LValues
    BY <1>1 DEF Records!LValues, Variable
  <2>2. IndexOf(o) = AVM_STACK_SIZE - 1 - o.offset /\ o.mode = "program"
    BY <1>1 DEF IndexOf, ProgramVarIndex, Variable
  <2>3. Records!ValueOf(o) = GlobalsNow[o.offset + 1]
    BY <2>2 DEF Records!ValueOf, GlobalsNow
  <2>4. GlobalsNow[o.offset + 1] = program_stack.stack[AVM_STACK_SIZE - 1 - o.offset]
    <3>1. o.offset + 1 \in 1 .. TotalProgramVars
      BY <1>1, StackAssumption
    <3>2. AVM_STACK_SIZE - (o.offset + 1) = AVM_STACK_SIZE - 1 - o.offset
      BY <1>1, StackAssumption
    <3> QED
      BY <3>1, <3>2, GlobalsFields
  <2> QED
    BY <2>1, <2>2, <2>3, <2>4 DEF CellOf, Records!Operands
<1>2. CASE /\ o = Variable("local", o.offset)
           /\ InFunction
           /\ o.offset \in 0 .. FrameLocals - 1
  <2>1. o \in Records!LValues
    BY <1>2, NewestFields DEF Records!LValues, Variable
  <2>2. o.mode = "local"
    BY <1>2 DEF Variable
  <2>3. program_stack.topsp - o.offset > program_stack.top
    BY <1>2, StackFields DEF FrameLocals
  <2>4. IndexOf(o) = program_stack.topsp - o.offset
    BY <1>2, <2>2, <2>3, StackFields DEF IndexOf, LocalVarIndex, AsUnsigned
  <2>5. Records!ValueOf(o) = Records!Newest.locals[o.offset + 1]
    BY <2>2 DEF Records!ValueOf
  <2> QED
    BY <1>2, <2>1, <2>2, <2>4, <2>5, NewestFields DEF CellOf, Records!Operands
<1>3. CASE /\ o = Variable("formal", o.offset)
           /\ InFunction
           /\ o.offset \in 0 .. NrFormals - 1
  <2>1. o.mode = "formal"
    BY <1>3 DEF Variable
  <2>2. /\ program_stack.topsp \in Int /\ program_stack.topsp >= -1
        /\ TotalActuals(program_stack) \in Nat
    BY <1>3, NewestFrame, FrameArithmetic, StackFields DEF TotalActuals, SAVED_TOTAL_ACTUALS
  <2>3. o.offset \in 0 .. TotalActuals(program_stack) - 1
    BY <1>3, <2>1, <2>2, CallsAssumption DEF OperandOK, OperandFault
  <2>4. o \in Records!LValues
    BY <1>3, <2>3, NewestFields DEF Records!LValues, Variable
  <2>5. IndexOf(o) = program_stack.topsp + 5 + o.offset
    BY <2>1, <2>2, <2>3 DEF IndexOf, ActualArgIndex, AsUnsigned, AVM_ENV_SIZE
  <2>6. Records!ValueOf(o) = Records!Newest.actuals[o.offset + 1]
    BY <2>1 DEF Records!ValueOf
  <2> QED
    BY <1>3, <2>1, <2>3, <2>4, <2>5, <2>6, NewestFields DEF CellOf, Records!Operands
<1>4. CASE o = [mode |-> "retval"]
  BY <1>4 DEF CellOf, Records!Operands, Records!LValues, Records!ValueOf
<1>5. CASE \E c \in Literals : o = [mode |-> "constant", cell |-> c]
  <2>1. o \in Records!Operands
    BY <1>5 DEF Records!Operands
  <2>2. o.mode = "constant"
    BY <1>5
  <2>3. o \notin LValues
    BY <2>2 DEF LValues, Variables, Variable
  <2> QED
    BY <2>1, <2>2, <2>3 DEF CellOf, Records!ValueOf
<1> QED
  BY <1>1, <1>2, <1>3, <1>4, <1>5 DEF Operands, LValues, Variables, Variable
-----------------------------------------------------------------------------
(* What a step leaves alone. *)
LEMMA SameGlobals ==
  ASSUME TypeOK,
         \A i \in Indices : i > ProgramTop => program_stack'.stack[i] = program_stack.stack[i]
  PROVE  GlobalsNow' = GlobalsNow
<1>1. \A i \in 1 .. TotalProgramVars :
        program_stack'.stack[AVM_STACK_SIZE - i] = program_stack.stack[AVM_STACK_SIZE - i]
  BY GlobalsFields
<1>2. AVM_STACK_SIZE - 1 - (ProgramTop + 1) + 1 = TotalProgramVars
  BY StackAssumption DEF ProgramTop
<1>3. \A i \in 1 .. TotalProgramVars : AVM_STACK_SIZE - 1 - i + 1 = AVM_STACK_SIZE - i
  BY StackAssumption
<1> QED
  BY <1>1, <1>2, <1>3 DEF GlobalsNow, CellsDown, ProgramTop

LEMMA SameRecord ==
  ASSUME IInv, NEW k \in 1 .. Depth,
         frames'[k] = frames[k],
         LastLocal(k)' = LastLocal(k),
         \A i \in Indices :
           i \in (LastLocal(k) .. frames[k].base) \cup (frames[k].base + 5 .. frames[k].top)
             => program_stack'.stack[i] = program_stack.stack[i]
  PROVE  RecordOf(k)' = RecordOf(k)
<1> DEFINE f == frames[k]
           n == f.base - LastLocal(k) + 1
<1>1. /\ RecordOf(k) = [ret     |-> f.ret,
                        actuals |-> [i \in 1 .. f.args |-> program_stack.stack[f.base + 4 + i]],
                        locals  |-> [i \in 1 .. n |-> program_stack.stack[f.base - i + 1]]]
      /\ \A i \in 1 .. f.args : f.base + 4 + i \in Indices
      /\ \A i \in 1 .. n : f.base - i + 1 \in Indices
  BY RecordFields
<1>2. /\ f.base \in Int /\ f.args \in Nat /\ LastLocal(k) \in Int
      /\ f.top = f.base + 4 + f.args
  BY Regions
<1>3. /\ \A i \in 1 .. f.args : program_stack'.stack[f.base + 4 + i] = program_stack.stack[f.base + 4 + i]
      /\ \A i \in 1 .. n : program_stack'.stack[f.base - i + 1] = program_stack.stack[f.base - i + 1]
  <2>1. ASSUME NEW i \in 1 .. f.args
        PROVE  program_stack'.stack[f.base + 4 + i] = program_stack.stack[f.base + 4 + i]
    <3>1. f.base + 4 + i \in Indices
      BY <1>1
    <3>2. f.base + 4 + i \in f.base + 5 .. f.top
      BY <1>2
    <3> QED
      BY <3>1, <3>2
  <2>2. ASSUME NEW i \in 1 .. n
        PROVE  program_stack'.stack[f.base - i + 1] = program_stack.stack[f.base - i + 1]
    <3>1. f.base - i + 1 \in Indices
      BY <1>1
    <3>2. f.base - i + 1 \in LastLocal(k) .. f.base
      BY <1>2
    <3> QED
      BY <3>1, <3>2
  <2> QED
    BY <2>1, <2>2
<1>4. CellsUp(f.base + AVM_ENV_SIZE + 1, f.top)'
        = [i \in 1 .. f.args |-> program_stack'.stack[f.base + 4 + i]]
  <2>1. f.top - (f.base + 4 + 1) + 1 = f.args
    BY <1>2
  <2>2. \A i \in 1 .. f.args : f.base + 4 + 1 + i - 1 = f.base + 4 + i
    BY <1>2
  <2> QED
    BY <2>1, <2>2 DEF CellsUp, AVM_ENV_SIZE
<1>5. CellsDown(f.base, LastLocal(k))' = [i \in 1 .. n |-> program_stack'.stack[f.base - i + 1]]
  BY DEF CellsDown
<1>6. RecordOf(k)' = [ret     |-> f.ret,
                      actuals |-> CellsUp(f.base + AVM_ENV_SIZE + 1, f.top)',
                      locals  |-> CellsDown(f.base, LastLocal(k))']
  BY DEF RecordOf, AVM_ENV_SIZE
<1> HIDE DEF n, f
<1>7. /\ [i \in 1 .. f.args |-> program_stack'.stack[f.base + 4 + i]]
           = [i \in 1 .. f.args |-> program_stack.stack[f.base + 4 + i]]
      /\ [i \in 1 .. n |-> program_stack'.stack[f.base - i + 1]]
           = [i \in 1 .. n |-> program_stack.stack[f.base - i + 1]]
  BY <1>3
<1> QED
  BY <1>1, <1>4, <1>5, <1>6, <1>7

(* A step that changes cells of pending arguments and free ones only, and  *)
(* leaves the records' bounds.                                             *)
LEMMA RecordsStay ==
  ASSUME IInv, frames' = frames, Depth' = Depth,
         program_stack'.top + program_stack'.total_actuals
           = program_stack.top + program_stack.total_actuals,
         \A i \in Indices : i > program_stack.top + program_stack.total_actuals
                              => program_stack'.stack[i] = program_stack.stack[i]
  PROVE  RecordsNow' = RecordsNow /\ GlobalsNow' = GlobalsNow
<1>1. ASSUME NEW k \in 1 .. Depth
      PROVE  RecordOf(k)' = RecordOf(k)
  <2>1. LastLocal(k)' = LastLocal(k)
    BY DEF LastLocal
  <2>2. ASSUME NEW i \in Indices,
               i \in (LastLocal(k) .. frames[k].base) \cup (frames[k].base + 5 .. frames[k].top)
        PROVE  program_stack'.stack[i] = program_stack.stack[i]
    <3>1. /\ LastLocal(k) \in Int /\ frames[k].base \in Int
          /\ LastLocal(k) <= frames[k].base + 1
          /\ LastLocal(k) > program_stack.top + program_stack.total_actuals
          /\ program_stack.top + program_stack.total_actuals \in Int
      BY Regions, StackFields, StackAssumption DEF IInv
    <3>2. i >= LastLocal(k) /\ i \in Int
      BY <2>2, <3>1 DEF Indices
    <3>3. i > program_stack.top + program_stack.total_actuals
      BY <3>1, <3>2
    <3> QED
      BY <3>3
  <2> QED
    BY <2>1, <2>2, SameRecord
<1>2. RecordsNow' = RecordsNow
  BY <1>1 DEF RecordsNow
<1>3. GlobalsNow' = GlobalsNow
  <2>1. ASSUME NEW i \in Indices, i > ProgramTop
        PROVE  program_stack'.stack[i] = program_stack.stack[i]
    BY <2>1, TopspBelowProgram, StackFields, StackAssumption DEF IInv, Indices, ProgramTop
  <2> QED
    BY <2>1, SameGlobals DEF IInv
<1> QED
  BY <1>2, <1>3

(* Steps that leave the stack alone. *)
LEMMA AllStay ==
  ASSUME IInv, frames' = frames, program_stack' = program_stack
  PROVE  RecordsNow' = RecordsNow /\ GlobalsNow' = GlobalsNow /\ PendingNow' = PendingNow
<1>1. Depth' = Depth
  BY DEF Depth
<1>2. RecordsNow' = RecordsNow /\ GlobalsNow' = GlobalsNow
  BY <1>1, RecordsStay
<1>3. PendingNow' = PendingNow
  BY DEF PendingNow, CellsUp
<1> QED
  BY <1>2, <1>3
-----------------------------------------------------------------------------
(* One lemma for each action: it is the action of the records. *)
LEMMA PushArgMaps ==
  ASSUME IInv, RecordFrames, NEW arg \in Operands, PushArg(arg)
  PROVE  arg \in Records!Operands /\ Records!PushArg(arg)
<1> USE DEF IInv
<1> DEFINE s    == program_stack
           n    == s.total_actuals
           top  == s.top
           cell == CellOf(arg)
<1>1. cell \in Cell /\ OperandOK(arg)
  BY OperandType DEF PushArg
<1>2. /\ n \in Nat /\ top \in Int
      /\ PendingNow = [i \in 1 .. n |-> s.stack[top + i]]
      /\ \A i \in 1 .. n : top + i \in Indices
      /\ PendingNow \in Seq(Cell)
      /\ Len(PendingNow) = n
  BY PendingFields
<1>num. n \in Nat /\ top \in Int /\ n + 1 \in Nat
  BY <1>2
<1>3. top \in Indices
  BY StackFields DEF PushArg, Overflows, Indices
<1>4. /\ Depth' = Depth
      /\ s'.top = top - 1
      /\ s'.total_actuals = n + 1
      /\ s'.stack = [s.stack EXCEPT ![top] = cell]
  BY DEF TypeOK, StackObject, Depth, PushArg, PushActualArg
<1>5. frames' = frames
  BY <1>4, FramesUnchanged
<1>6. s.stack \in [Indices -> Cell]
  BY StackFields
<1>7. RecordsNow' = RecordsNow /\ GlobalsNow' = GlobalsNow
  <2>1. s'.top + s'.total_actuals = top + n
    <3> HIDE DEF n, top
    <3> QED
      BY <1>num, <1>4
  <2>2. ASSUME NEW i \in Indices, i > top + n
        PROVE  s'.stack[i] = s.stack[i]
    <3>1. i # top
      BY <1>2, <2>2
    <3> QED
      BY <1>4, <1>6, <3>1
  <2> QED
    BY <1>4, <1>5, <2>1, <2>2, RecordsStay
<1>8. PendingNow' = [i \in 1 .. n + 1 |-> s'.stack[top - 1 + i]]
  <2>1. PendingNow' = [i \in 1 .. (s'.top + s'.total_actuals) - (s'.top + 1) + 1 |->
                         s'.stack[(s'.top + 1) + i - 1]]
    BY DEF PendingNow, CellsUp
  <2> HIDE DEF n, top
  <2>2. (s'.top + s'.total_actuals) - (s'.top + 1) + 1 = n + 1
    BY <1>num, <1>4
  <2>3. \A i \in 1 .. n + 1 : (s'.top + 1) + i - 1 = top - 1 + i
    BY <1>num, <1>4
  <2> QED
    BY <2>1, <2>2, <2>3
<1>9. PendingNow' = <<cell>> \o PendingNow
  <2> DEFINE longer == [i \in 1 .. n + 1 |-> s'.stack[top - 1 + i]]
             pushed == <<cell>> \o PendingNow
  <2>1. s'.stack \in [Indices -> Cell] /\ s'.stack[top] = cell
    BY <1>1, <1>3, <1>4, <1>6
  <2>2. \A i \in 1 .. n : s'.stack[top + i] = s.stack[top + i]
    BY <1>2, <1>4, <1>6
  <2>3. longer \in [1 .. n + 1 -> Cell]
    <3> SUFFICES ASSUME NEW i \in 1 .. n + 1
                 PROVE  s'.stack[top - 1 + i] \in Cell
      OBVIOUS
    <3>1. CASE i = 1
      <4>1. top - 1 + i = top
        BY <1>2, <3>1
      <4> QED
        BY <1>1, <2>1, <4>1
    <3>2. CASE i # 1
      <4>1. i - 1 \in 1 .. n /\ top - 1 + i = top + (i - 1)
        <5> HIDE DEF n, top
        <5> QED
          BY <1>num, <3>2
      <4> QED
        BY <1>2, <2>1, <4>1
    <3> QED
      BY <3>1, <3>2
  <2>4. longer \in Seq(Cell) /\ Len(longer) = n + 1
    <3> HIDE DEF longer, n, top
    <3> QED
      BY <1>num, <2>3, LengthOf
  <2>5. <<cell>> \in Seq(Cell) /\ Len(<<cell>>) = 1 /\ <<cell>>[1] = cell
    BY <1>1
  <2>6. /\ pushed \in Seq(Cell)
        /\ Len(pushed) = 1 + n
        /\ \A i \in 1 .. 1 + n : pushed[i] = IF i <= 1 THEN <<cell>>[i] ELSE PendingNow[i - 1]
    BY <1>2, <2>5, ConcatProperties
  <2>7. ASSUME NEW i \in 1 .. n + 1
        PROVE  longer[i] = pushed[i]
    <3>1. CASE i = 1
      <4>1. top - 1 + i = top
        BY <1>2, <3>1
      <4>2. longer[i] = cell
        BY <2>1, <4>1
      <4>3. pushed[i] = cell
        BY <1>2, <2>5, <2>6, <3>1
      <4> QED
        BY <4>2, <4>3
    <3>2. CASE i # 1
      <4>1. i - 1 \in 1 .. n /\ top - 1 + i = top + (i - 1)
        <5> HIDE DEF n, top
        <5> QED
          BY <1>num, <3>2
      <4>2. longer[i] = s.stack[top + (i - 1)]
        BY <2>2, <4>1
      <4>3. pushed[i] = PendingNow[i - 1]
        BY <1>2, <2>6, <3>2
      <4> QED
        BY <1>2, <4>1, <4>2, <4>3
    <3> QED
      BY <3>1, <3>2
  <2> HIDE DEF longer, pushed
  <2>8. longer = pushed
    BY <1>2, <2>4, <2>6, <2>7, SeqEqual
  <2> QED
    BY <1>8, <2>8 DEF longer, pushed
<1>10. arg \in Records!Operands /\ Records!ValueOf(arg) = cell
  BY <1>1, OperandMaps
<1> HIDE DEF cell, s
<1>11. Records!PushArg(arg)
  <2>1. Records!InBody
    BY DEF PushArg, Falls, InBody, Running, Records!InBody, Records!Running
  <2>2. /\ pc' = pc + 1
        /\ UNCHANGED <<retval, outcome>>
    BY DEF PushArg
  <2> QED
    BY <1>7, <1>9, <1>10, <2>1, <2>2 DEF Records!PushArg, RecordsNow, PendingNow, GlobalsNow
<1> QED
  BY <1>10, <1>11
LEMMA NoCells ==
  ASSUME NEW f, f = [i \in 1 .. 0 |-> f[i]]
  PROVE  f = << >>
<1>0. 1 .. 0 = {}
  OBVIOUS
<1>1. f \in [1 .. 0 -> {}]
  BY <1>0, Zenon
<1>2. f \in Seq({}) /\ Len(f) = 0
  BY <1>1, LengthOf
<1> QED
  BY <1>2, EmptySeq

LEMMA NonePending ==
  ASSUME program_stack'.total_actuals = 0, program_stack'.top \in Int
  PROVE  PendingNow' = << >>
<1> DEFINE top == program_stack'.top
           p   == [i \in 1 .. (top + program_stack'.total_actuals) - (top + 1) + 1 |->
                     program_stack'.stack[(top + 1) + i - 1]]
<1>1. PendingNow' = p
  BY DEF PendingNow, CellsUp
<1>2. (top + program_stack'.total_actuals) - (top + 1) + 1 = 0
  BY Z3
<1>3. p = [i \in 1 .. 0 |-> program_stack'.stack[(top + 1) + i - 1]]
  BY <1>2
<1>4. \A i \in 1 .. 0 : p[i] = program_stack'.stack[(top + 1) + i - 1]
  BY <1>3
<1>5. p = [i \in 1 .. 0 |-> p[i]]
  BY <1>3, <1>4
<1> HIDE DEF p
<1> QED
  BY <1>1, <1>5, NoCells

(* The callee of a call is the function that an abstract call would take.  *)
LEMMA CalleeMaps ==
  ASSUME IInv, NEW o \in Operands, OperandOK(o)
  PROVE  o \in Records!Operands /\ Records!Callee(o) = Callee(o) /\ Callee(o) \in Cell
<1>1. o \in Records!Operands /\ Records!ValueOf(o) = CellOf(o)
  BY OperandMaps
<1>2. Records!Callee(o) = Callee(o)
  BY <1>1 DEF Records!Callee, Callee
<1>3. Callee(o) \in Cell
  <2>1. CellOf(o) \in Cell
    BY OperandType DEF IInv
  <2> QED
    BY <2>1, CallsAssumption DEF Callee, Cell
<1> QED
  BY <1>1, <1>2, <1>3

LEMMA CallUserFuncMaps ==
  ASSUME IInv, RecordFrames, NEW func \in Operands, CallUserFunc(func)
  PROVE  func \in Records!Operands /\ Records!CallUserFunc(func)
<1> USE DEF IInv
<1> DEFINE ps   == program_stack
           s    == SaveEnvironment(ps, pc)
           n    == ps.total_actuals
           top  == ps.top
           f    == FrameOfCall
           new  == [ret |-> pc + 1, actuals |-> PendingNow, locals |-> << >>]
<1>1. /\ program_stack' = s
      /\ Callee(func).type = "userfunc"
      /\ Falls
      /\ ~Overflows(ps, AVM_ENV_SIZE)
  BY DEF CallUserFunc
<1>2. /\ s.top = top - 4
      /\ s.topsp = top - 4
      /\ s.total_actuals = 0
      /\ s.fcall_depth = Depth + 1
      /\ \A i \in Indices : i <= top - 4 \/ i > top - 4 + 4 => s.stack[i] = ps.stack[i]
  BY <1>1, SavedFields
<1> HIDE DEF s
<1>3. /\ n \in Nat /\ top \in Int
      /\ PendingNow = [i \in 1 .. n |-> ps.stack[top + i]]
      /\ \A i \in 1 .. n : top + i \in Indices
      /\ PendingNow \in Seq(Cell)
  BY PendingFields
<1>num. n \in Nat /\ top \in Int /\ Depth \in Nat
  BY <1>3, StackFields
<1>4. /\ program_stack'.top = top - 4
      /\ program_stack'.total_actuals = 0
      /\ Depth' = Depth + 1
      /\ \A i \in Indices : i > top => program_stack'.stack[i] = ps.stack[i]
  <2>1. \A i \in Indices : i > top => i > top - 4 + 4
    <3> HIDE DEF top
    <3> QED
      BY <1>num DEF Indices
  <2> QED
    BY <1>1, <1>2, <2>1 DEF Depth
<1>5. frames' = [k \in 1 .. Depth + 1 |-> IF k <= Depth THEN frames[k] ELSE f]
  BY <1>4, <1>num DEF RecordFrames
<1>6. /\ f.base = top - 4
      /\ f.top = top + n
      /\ f.ret = pc + 1
      /\ f.args = n
  BY DEF FrameOfCall, AVM_ENV_SIZE
<1> HIDE DEF f
<1>7. /\ \A k \in 1 .. Depth : frames'[k] = frames[k] /\ k \in 1 .. Depth + 1 /\ k # Depth + 1
      /\ frames'[Depth + 1] = f
      /\ Depth + 1 \in 1 .. Depth + 1
      /\ \A k \in 1 .. Depth + 1 : k \in 1 .. Depth \/ k = Depth + 1
  BY <1>num, <1>5
<1>8. ASSUME NEW k \in 1 .. Depth
      PROVE  RecordOf(k)' = RecordOf(k)
  <2>1. LastLocal(k)' = LastLocal(k)
    <3>1. CASE k = Depth
      <4>1. LastLocal(k)' = frames'[k + 1].top + 1
        BY <1>4, <1>7 DEF LastLocal
      <4> QED
        BY <1>6, <1>7, <3>1, <4>1 DEF LastLocal
    <3>2. CASE k # Depth
      <4>1. LastLocal(k)' = frames'[k + 1].top + 1 /\ LastLocal(k) = frames[k + 1].top + 1
        BY <1>4, <1>7, <3>2 DEF LastLocal
      <4>2. k + 1 \in 1 .. Depth
        BY <1>num, <3>2
      <4> QED
        BY <1>7, <4>1, <4>2
    <3> QED
      BY <3>1, <3>2
  <2>2. ASSUME NEW i \in Indices,
               i \in (LastLocal(k) .. frames[k].base) \cup (frames[k].base + 5 .. frames[k].top)
        PROVE  program_stack'.stack[i] = ps.stack[i]
    <3>1. /\ LastLocal(k) \in Int /\ frames[k].base \in Int
          /\ LastLocal(k) <= frames[k].base + 1
          /\ LastLocal(k) > top + n
      BY Regions
    <3>2. i >= LastLocal(k) /\ i \in Int
      BY <2>2, <3>1 DEF Indices
    <3>3. i > top
      <4> HIDE DEF top, n
      <4> QED
        BY <1>num, <3>1, <3>2
    <3> QED
      BY <1>4, <3>3
  <2> QED
    BY <1>7, <2>1, <2>2, SameRecord
<1>d. PICK d \in Nat : d = Depth
  BY <1>num
<1>9. RecordOf(d + 1)' = new
  <2>1. /\ f.top - (f.base + 4 + 1) + 1 = n
        /\ \A i \in 1 .. n : (f.base + 4 + 1) + i - 1 = top + i
        /\ f.base - (top - 4 + 0 + 1) + 1 = 0
    <3> HIDE DEF n, top
    <3> QED
      BY <1>num, <1>6
  <2>2. RecordOf(d + 1)'
          = [ret     |-> f.ret,
             actuals |-> [i \in 1 .. f.top - (f.base + 4 + 1) + 1 |->
                            program_stack'.stack[(f.base + 4 + 1) + i - 1]],
             locals  |-> [i \in 1 .. f.base - LastLocal(d + 1)' + 1 |->
                            program_stack'.stack[f.base - i + 1]]]
    BY <1>7, <1>d DEF RecordOf, CellsUp, CellsDown, AVM_ENV_SIZE
  <2>3. LastLocal(d + 1)' = top - 4 + 0 + 1
    BY <1>4, <1>d DEF LastLocal
  <2>4. \A i \in 1 .. n : program_stack'.stack[top + i] = ps.stack[top + i]
    <3>1. \A i \in 1 .. n : top + i > top
      <4> HIDE DEF n, top
      <4> QED
        BY <1>num
    <3> QED
      BY <1>3, <1>4, <3>1
  <2>5. [i \in 1 .. f.top - (f.base + 4 + 1) + 1 |->
           program_stack'.stack[(f.base + 4 + 1) + i - 1]] = PendingNow
    <3> HIDE DEF n, top
    <3> QED
      BY <1>3, <2>1, <2>4
  <2>6. [i \in 1 .. f.base - LastLocal(d + 1)' + 1 |->
           program_stack'.stack[f.base - i + 1]] = << >>
    <3> DEFINE none == [i \in 1 .. 0 |-> program_stack'.stack[f.base - i + 1]]
    <3>1. none = [i \in 1 .. 0 |-> none[i]]
      OBVIOUS
    <3>2. none = << >>
      <4> HIDE DEF none
      <4> QED
        BY <3>1, NoCells
    <3> HIDE DEF n, top
    <3> QED
      BY <2>1, <2>3, <3>2
  <2> QED
    BY <1>6, <2>2, <2>5, <2>6
<1>10. RecordsNow' = Append(RecordsNow, new)
  <2>1. new \in RecordSet
    <3>1. pc + 1 \in BodyAddresses /\ << >> \in Seq(Cell)
      BY <1>1 DEF Falls
    <3> QED
      BY <1>3, <3>1 DEF RecordSet
  <2> HIDE DEF new
  <2>2. RecordsNow' = [k \in 1 .. Depth + 1 |-> RecordOf(k)']
    BY <1>4 DEF RecordsNow
  <2> DEFINE more == [k \in 1 .. Depth + 1 |-> RecordOf(k)']
  <2>3. /\ RecordsNow \in Seq(RecordSet) /\ Len(RecordsNow) = Depth
        /\ \A k \in 1 .. Depth : RecordsNow[k] = RecordOf(k)
    BY RecordsFields
  <2>4. /\ \A k \in 1 .. Depth : more[k] = RecordsNow[k]
        /\ more[Depth + 1] = new
    BY <1>d, <1>7, <1>8, <1>9, <2>3
  <2>5. more \in [1 .. Depth + 1 -> RecordSet]
    <3>1. \A k \in 1 .. Depth : RecordsNow[k] \in RecordSet
      BY <2>3, ElementOfSeq
    <3>2. \A k \in 1 .. Depth + 1 : RecordOf(k)' \in RecordSet
      BY <1>d, <1>7, <1>8, <1>9, <2>1, <2>3, <3>1
    <3> QED
      BY <3>2
  <2> HIDE DEF more
  <2>6. more \in Seq(RecordSet) /\ Len(more) = Depth + 1
    <3>1. Depth + 1 \in Nat
      BY <1>num
    <3> QED
      BY <2>5, <3>1, LengthOf
  <2>7. /\ Append(RecordsNow, new) \in Seq(RecordSet)
        /\ Len(Append(RecordsNow, new)) = Depth + 1
        /\ \A k \in 1 .. Depth : Append(RecordsNow, new)[k] = RecordsNow[k]
        /\ Append(RecordsNow, new)[Depth + 1] = new
    BY <2>1, <2>3, AppendProperties
  <2>8. \A k \in 1 .. Depth + 1 : more[k] = Append(RecordsNow, new)[k]
    BY <1>7, <2>4, <2>7
  <2>9. more = Append(RecordsNow, new)
    BY <2>6, <2>7, <2>8, SeqEqual
  <2> QED
    BY <2>2, <2>9 DEF more
<1>11. GlobalsNow' = GlobalsNow
  <2>1. ASSUME NEW i \in Indices, i > ProgramTop
        PROVE  program_stack'.stack[i] = ps.stack[i]
    <3>1. i > top
      BY <2>1, TopspBelowProgram, StackFields, StackAssumption DEF Indices, ProgramTop
    <3> QED
      BY <1>4, <3>1
  <2> QED
    BY <2>1, SameGlobals
<1>12. PendingNow' = << >>
  BY <1>4, <1>num, NonePending
<1>13. /\ func \in Records!Operands
       /\ Records!Callee(func) = Callee(func)
       /\ Callee(func).value \in DOMAIN UserFuncs
  <2>1. OperandOK(func)
    BY DEF CallUserFunc
  <2> QED
    BY <1>1, <2>1, CalleeMaps DEF Cell
<1>14. pc' = Callee(func).value
  BY <1>1, <1>13, CallsAssumption DEF CallUserFunc, AfterCycle, Falls, InBody
<1> HIDE DEF new
<1>15. Records!CallUserFunc(func)
  <2>1. Records!InBody
    BY <1>1 DEF Falls, InBody, Running, Records!InBody, Records!Running
  <2>2. UNCHANGED <<retval, outcome>>
    BY DEF CallUserFunc
  <2> QED
    BY <1>1, <1>10, <1>11, <1>12, <1>13, <1>14, <2>1, <2>2
       DEF Records!CallUserFunc, RecordsNow, PendingNow, GlobalsNow, new
<1> QED
  BY <1>13, <1>15
(* A record after a step that leaves its frame. *)
LEMMA RecordNext ==
  ASSUME IInv, NEW k \in 1 .. Depth, frames'[k] = frames[k]
  PROVE  LET f == frames[k]
         IN  RecordOf(k)'
               = [ret     |-> f.ret,
                  actuals |-> [i \in 1 .. f.args |-> program_stack'.stack[f.base + 4 + i]],
                  locals  |-> [i \in 1 .. f.base - LastLocal(k)' + 1 |->
                                 program_stack'.stack[f.base - i + 1]]]
<1> DEFINE f == frames[k]
<1>1. /\ f.base \in Int /\ f.args \in Nat
      /\ f.top = f.base + 4 + f.args
  BY Regions
<1>2. /\ f.top - (f.base + 4 + 1) + 1 = f.args
      /\ \A i \in 1 .. f.args : (f.base + 4 + 1) + i - 1 = f.base + 4 + i
  BY <1>1
<1>3. RecordOf(k)'
        = [ret     |-> f.ret,
           actuals |-> [i \in 1 .. f.top - (f.base + 4 + 1) + 1 |->
                          program_stack'.stack[(f.base + 4 + 1) + i - 1]],
           locals  |-> [i \in 1 .. f.base - LastLocal(k)' + 1 |->
                          program_stack'.stack[f.base - i + 1]]]
  BY DEF RecordOf, CellsUp, CellsDown, AVM_ENV_SIZE
<1> HIDE DEF f
<1> QED
  BY <1>2, <1>3 DEF f

LEMMA FuncEnterMaps ==
  ASSUME RInv, RecordFrames, FuncEnter
  PROVE  Records!FuncEnter
<1> USE DEF RInv, IInv
<1> DEFINE s    == program_stack
           n    == UserFuncs[pc]
           down(f) == [i \in 1 .. n |-> s.stack[f.base - i + 1]]
<1>1. /\ InFunction
      /\ s.top = s.topsp
      /\ s.total_actuals = 0
      /\ n \in Nat
      /\ n <= s.top + 1
  BY CallsAssumption, StackFields, StackAssumption DEF FuncEnter, Overflows, AtEntry
<1>2. /\ Depth' = Depth
      /\ s'.topsp = s.topsp
      /\ s'.top = s.top - n
      /\ s'.total_actuals = 0
      /\ s'.stack = s.stack
  BY <1>1 DEF FuncEnter, AllocateMemcells, TypeOK, StackObject, Depth
<1> HIDE DEF n
<1>3. frames' = frames
  BY <1>2, FramesUnchanged
<1>4. Depth \in 1 .. Depth /\ s.topsp = frames[Depth].base /\ Depth \in Nat
  BY <1>1, NewestFrame, StackFields
<1>d. PICK d \in 1 .. Depth : d = Depth
  BY <1>4
<1>5. /\ frames[d].base \in Int
      /\ s.top = frames[d].base
  BY <1>1, <1>4, <1>d, Regions
<1>6. RecordOf(d)' = [ret     |-> frames[d].ret,
                      actuals |-> [i \in 1 .. frames[d].args |-> s.stack[frames[d].base + 4 + i]],
                      locals  |-> down(frames[d])]
  <2>1. LastLocal(d)' = s.top - n + 0 + 1
    BY <1>2, <1>d DEF LastLocal
  <2>2. frames[d].base - LastLocal(d)' + 1 = n
    BY <1>1, <1>5, <2>1
  <2> QED
    BY <1>2, <1>3, <2>2, RecordNext
<1>7. down(frames[d]) \in [1 .. n -> Cell]
  <2>1. \A i \in 1 .. n : frames[d].base - i + 1 \in Indices
    <3>1. s.top \in Int /\ s.top <= AVM_STACK_SIZE - 1
      BY StackFields, StackAssumption
    <3> QED
      BY <1>1, <1>5, <3>1, StackAssumption DEF Indices
  <2>2. s.stack \in [Indices -> Cell]
    BY StackFields
  <2> QED
    BY <2>1, <2>2
<1> DEFINE locals == down(frames[d])
           up     == [i \in 1 .. frames[d].args |-> s.stack[frames[d].base + 4 + i]]
<1>8. PICK old : RecordOf(d) = [ret |-> frames[d].ret, actuals |-> up, locals |-> old]
  BY RecordFields
<1> HIDE DEF down
<1>9. /\ RecordOf(d)' = [RecordOf(d) EXCEPT !.locals = locals]
      /\ RecordOf(d)'.locals = locals
  <2>1. RecordOf(d)' = [ret |-> frames[d].ret, actuals |-> up, locals |-> locals]
    BY <1>6
  <2> HIDE DEF up, locals
  <2> QED
    BY <1>8, <2>1
<1>10. Len(locals) = n
  BY <1>1, <1>7, LengthOf
<1> HIDE DEF locals
<1>11. ASSUME NEW k \in 1 .. Depth, k # d
       PROVE  RecordOf(k)' = RecordOf(k)
  <2>1. LastLocal(k)' = LastLocal(k)
    BY <1>2, <1>3, <1>d, <1>11 DEF LastLocal
  <2> QED
    BY <1>2, <1>3, <2>1, SameRecord
<1>12. RecordsNow' = [k \in 1 .. Depth |-> RecordOf(k)']
  BY <1>2 DEF RecordsNow
<1>13. RecordsNow' = [RecordsNow EXCEPT ![d] = [RecordOf(d) EXCEPT !.locals = locals]]
  BY <1>9, <1>11, <1>12 DEF RecordsNow
<1>14. RecordsNow'[d] = RecordOf(d)'
  BY <1>12
<1>15. Len(RecordsNow) = d /\ RecordsNow[d] = RecordOf(d)
  BY <1>d, RecordsFields
<1>16. GlobalsNow' = GlobalsNow
  BY <1>2, SameGlobals
<1>17. PendingNow = << >> /\ PendingNow' = << >>
  <2>1. Len(PendingNow) = 0 /\ PendingNow \in Seq(Cell)
    BY <1>1, PendingFields
  <2>2. s'.top \in Int
    BY <1>1, <1>2, <1>5
  <2> QED
    BY <1>2, <2>1, <2>2, EmptySeq, NonePending
<1>18. /\ Records!Running
       /\ pc \in DOMAIN UserFuncs
       /\ pc' = pc + 1
       /\ UNCHANGED <<retval, outcome>>
  BY DEF FuncEnter, Running, Records!Running
<1>19. LET new == RecordsNow'[Len(RecordsNow)].locals
       IN  /\ Len(new) = n
           /\ RecordsNow' = [RecordsNow EXCEPT ![Len(RecordsNow)].locals = new]
  BY <1>9, <1>10, <1>13, <1>14, <1>15
<1> QED
  BY <1>16, <1>17, <1>18, <1>19
     DEF Records!FuncEnter, RecordsNow, PendingNow, GlobalsNow, n

LEMMA FuncExitMaps ==
  ASSUME IInv, RecordFrames, FuncExit
  PROVE  Records!FuncExit
<1> USE DEF IInv
<1> DEFINE s == program_stack
<1>1. /\ pc' = frames[Depth].ret
      /\ s'.top = frames[Depth].top
      /\ s'.total_actuals = 0
      /\ Depth' = Depth - 1
      /\ \A k \in 1 .. Depth' : frames'[k] = frames[k]
      /\ \A i \in Indices : i > frames[Depth].top => s'.stack[i] = s.stack[i]
  BY FuncExitKeeps
<1>2. /\ InFunction
      /\ s.total_actuals = 0
      /\ Depth \in 1 .. Depth /\ Depth \in Nat
  BY NewestFrame, StackFields DEF FuncExit
<1>d. PICK d \in 1 .. Depth : d = Depth
  BY <1>2
<1>3. frames[d].top \in Int /\ frames[d].top <= ProgramTop
  BY Regions
<1>4. ASSUME NEW k \in 1 .. Depth, k # d
      PROVE  RecordOf(k)' = RecordOf(k)
  <2>1. k \in 1 .. Depth' /\ k # Depth
    BY <1>1, <1>2, <1>d, <1>4
  <2>2. LastLocal(k)' = LastLocal(k)
    <3>1. CASE k = Depth - 1
      <4>1. LastLocal(k)' = frames[Depth].top + 0 + 1
        BY <1>1, <3>1 DEF LastLocal
      <4>2. LastLocal(k) = frames[Depth].top + 1
        BY <1>2, <3>1 DEF LastLocal
      <4> QED
        BY <1>3, <1>d, <4>1, <4>2
    <3>2. CASE k # Depth - 1
      <4>1. k + 1 \in 1 .. Depth'
        BY <1>1, <1>2, <2>1, <3>2
      <4>2. LastLocal(k)' = frames'[k + 1].top + 1 /\ LastLocal(k) = frames[k + 1].top + 1
        BY <1>1, <2>1, <3>2 DEF LastLocal
      <4> QED
        BY <1>1, <4>1, <4>2
    <3> QED
      BY <3>1, <3>2
  <2>3. ASSUME NEW i \in Indices,
               i \in (LastLocal(k) .. frames[k].base) \cup (frames[k].base + 5 .. frames[k].top)
        PROVE  s'.stack[i] = s.stack[i]
    <3>1. /\ LastLocal(k) \in Int /\ frames[k].base \in Int
          /\ LastLocal(k) <= frames[k].base + 1
          /\ LastLocal(k) > frames[d].top
      BY <1>d, <2>1, Regions
    <3>2. i >= LastLocal(k) /\ i \in Int
      BY <2>3, <3>1 DEF Indices
    <3>3. i > frames[Depth].top
      BY <1>3, <1>d, <3>1, <3>2
    <3> QED
      BY <1>1, <3>3
  <2> QED
    BY <1>1, <2>1, <2>2, <2>3, SameRecord
<1>5. RecordsNow' = SubSeq(RecordsNow, 1, Len(RecordsNow) - 1)
  <2>1. /\ RecordsNow \in Seq(RecordSet) /\ Len(RecordsNow) = d
        /\ \A k \in 1 .. Depth : RecordsNow[k] = RecordOf(k)
    BY <1>d, RecordsFields
  <2>2. RecordsNow' = [k \in 1 .. d - 1 |-> RecordOf(k)']
    BY <1>1, <1>d DEF RecordsNow
  <2>3. d \in Nat /\ d - 1 \in Nat /\ \A k \in 1 .. d - 1 : k \in 1 .. Depth /\ k # d
    BY <1>2, <1>d
  <2>4. SubSeq(RecordsNow, 1, d - 1) = [k \in 1 .. d - 1 |-> RecordsNow[k]]
    BY <2>1, <2>3
  <2> QED
    BY <1>4, <2>1, <2>2, <2>3, <2>4
<1>6. GlobalsNow' = GlobalsNow
  <2>1. ASSUME NEW i \in Indices, i > ProgramTop
        PROVE  s'.stack[i] = s.stack[i]
    <3>1. i > frames[Depth].top
      BY <1>3, <1>d, <2>1, StackAssumption DEF Indices, ProgramTop
    <3> QED
      BY <1>1, <3>1
  <2> QED
    BY <2>1, SameGlobals
<1>7. PendingNow = << >> /\ PendingNow' = << >>
  <2>1. Len(PendingNow) = 0 /\ PendingNow \in Seq(Cell)
    BY <1>2, PendingFields
  <2>2. s'.top \in Int
    BY <1>1, <1>3, <1>d
  <2> QED
    BY <1>1, <2>1, <2>2, EmptySeq, NonePending
<1>8. /\ Records!InBody
      /\ Records!InFunction
      /\ UNCHANGED <<retval, outcome>>
  BY <1>2, NewestFields
     DEF FuncExit, Falls, InBody, Running, Records!InBody, Records!Running
<1>9. pc' = Records!Newest.ret
  <2>1. Records!Newest = RecordOf(Depth) /\ RecordOf(Depth).ret = frames[Depth].ret
    BY <1>2, NewestFields, RecordFields
  <2> QED
    BY <1>1, <2>1
<1> QED
  BY <1>5, <1>6, <1>7, <1>8, <1>9
     DEF Records!FuncExit, RecordsNow, PendingNow, GlobalsNow
(* The pending arguments after a step. *)
LEMMA PendingNext ==
  ASSUME program_stack'.top \in Int, program_stack'.total_actuals \in Nat
  PROVE  PendingNow' = [i \in 1 .. program_stack'.total_actuals |->
                          program_stack'.stack[program_stack'.top + i]]
<1> DEFINE top == program_stack'.top
           n   == program_stack'.total_actuals
<1>1. PendingNow' = [i \in 1 .. (top + n) - (top + 1) + 1 |->
                       program_stack'.stack[(top + 1) + i - 1]]
  BY DEF PendingNow, CellsUp
<1>2. top \in Int /\ n \in Nat
  OBVIOUS
<1> HIDE DEF top, n
<1>3. (top + n) - (top + 1) + 1 = n /\ \A i \in 1 .. n : (top + 1) + i - 1 = top + i
  BY <1>2
<1>4. PendingNow' = [i \in 1 .. n |-> program_stack'.stack[top + i]]
  BY <1>1, <1>3
<1> QED
  BY <1>4 DEF top, n

(* A record in which one sequence changes. *)
LEMMA RecordWritten ==
  ASSUME NEW r \in RecordSet, NEW w
  PROVE  /\ [r EXCEPT !.locals = w] = [ret |-> r.ret, actuals |-> r.actuals, locals |-> w]
         /\ [r EXCEPT !.actuals = w] = [ret |-> r.ret, actuals |-> w, locals |-> r.locals]
<1>1. r \in [ret : BodyAddresses, actuals : Seq(Cell), locals : Seq(Cell)]
  BY DEF RecordSet
<1>2. [r EXCEPT !.locals = w] = [ret |-> r.ret, actuals |-> r.actuals, locals |-> w]
  BY <1>1
<1> DEFINE s == [r EXCEPT !.actuals = w]
<1>3. s.ret = r.ret /\ s.actuals = w /\ s.locals = r.locals
  BY <1>1
<1>4. s = [ret |-> s.ret, actuals |-> s.actuals, locals |-> s.locals]
  BY <1>1
<1> HIDE DEF s
<1>5. s = [ret |-> r.ret, actuals |-> w, locals |-> r.locals]
  BY <1>3, <1>4
<1> QED
  BY <1>2, <1>5 DEF s

(* A cell that an instruction names is written in one region only.         *)
LEMMA StoreMaps ==
  ASSUME IInv, RecordFrames, NEW lv \in LValues, OperandOK(lv),
         NEW cell \in Cell, Store(lv, cell)
  PROVE  /\ lv \in Records!LValues
         /\ Records!Write(lv, cell)
         /\ PendingNow' = PendingNow
<1> USE DEF IInv
<1>1. lv \in Operands /\ lv \in Records!LValues
  BY OperandMaps DEF Operands
<1>2. CASE lv = [mode |-> "retval"]
  <2>1. retval' = cell /\ program_stack' = program_stack
    BY <1>2 DEF Store
  <2>2. frames' = frames
    BY <2>1, FramesUnchanged DEF Depth
  <2>3. RecordsNow' = RecordsNow /\ GlobalsNow' = GlobalsNow /\ PendingNow' = PendingNow
    BY <2>1, <2>2, AllStay
  <2>4. Records!Write(lv, cell)
    BY <1>2, <2>1, <2>3 DEF Records!Write, RecordsNow, GlobalsNow
  <2> QED
    BY <1>1, <2>3, <2>4
<1>3. CASE lv \in Variables
  <2> DEFINE s   == program_stack
             idx == IndexOf(lv)
             o   == lv.offset
  <2>1. /\ idx \in Indices
        /\ s.stack \in [Indices -> Cell]
        /\ s.top \in Int /\ s.total_actuals \in Nat /\ s.topsp \in Int
        /\ s.top + s.total_actuals <= s.topsp
        /\ s.topsp <= ProgramTop /\ ProgramTop \in Int
    BY <1>3, OperandCell, StackFields, TopspBelowProgram, StackAssumption DEF ProgramTop
  <2>2. s' = [s EXCEPT !.stack[idx] = cell] /\ retval' = retval
    BY <1>3 DEF Store, Variables, Variable
  <2>3. /\ Depth' = Depth
        /\ s'.top = s.top
        /\ s'.topsp = s.topsp
        /\ s'.total_actuals = s.total_actuals
        /\ s'.stack = [s.stack EXCEPT ![idx] = cell]
    BY <2>1, <2>2 DEF TypeOK, StackObject, Depth
  <2>4. /\ \A i \in Indices : i # idx => s'.stack[i] = s.stack[i]
        /\ s'.stack[idx] = cell
    BY <2>1, <2>3
  <2>5. frames' = frames
    BY <2>3, FramesUnchanged
  <2>6. \A k \in 1 .. Depth : LastLocal(k)' = LastLocal(k)
    BY <2>3, <2>5 DEF LastLocal
  <2> HIDE DEF idx
  (* What the three kinds of variables share. *)
  <2>7. ASSUME idx > s.top + s.total_actuals
        PROVE  PendingNow' = PendingNow
    <3>1. /\ PendingNow = [i \in 1 .. s.total_actuals |-> s.stack[s.top + i]]
          /\ \A i \in 1 .. s.total_actuals : s.top + i \in Indices
      BY PendingFields
    <3>2. PendingNow' = [i \in 1 .. s.total_actuals |-> s'.stack[s.top + i]]
      BY <2>1, <2>3, PendingNext
    <3>3. \A i \in 1 .. s.total_actuals : s.top + i # idx
      BY <2>1, <2>7 DEF Indices
    <3>4. \A i \in 1 .. s.total_actuals : s'.stack[s.top + i] = s.stack[s.top + i]
      BY <2>4, <3>1, <3>3
    <3> QED
      BY <3>1, <3>2, <3>4
  <2>8. ASSUME idx <= ProgramTop
        PROVE  GlobalsNow' = GlobalsNow
    <3>1. \A i \in Indices : i > ProgramTop => i # idx
      BY <2>1, <2>8 DEF Indices
    <3> QED
      BY <2>4, <3>1, SameGlobals
  <2>9. ASSUME NEW k \in 1 .. Depth,
               idx \notin (LastLocal(k) .. frames[k].base)
                            \cup (frames[k].base + 5 .. frames[k].top)
        PROVE  RecordOf(k)' = RecordOf(k)
    <3>1. ASSUME NEW i \in Indices,
                 i \in (LastLocal(k) .. frames[k].base) \cup (frames[k].base + 5 .. frames[k].top)
          PROVE  s'.stack[i] = s.stack[i]
      BY <2>4, <2>9, <3>1
    <3> QED
      BY <2>5, <2>6, <3>1, SameRecord
  <2>10. RecordsNow' = [k \in 1 .. Depth |-> RecordOf(k)']
    BY <2>3 DEF RecordsNow
  <2>11. CASE /\ lv = Variable("program", o)
              /\ o \in 0 .. TotalProgramVars - 1
    <3>1. idx = AVM_STACK_SIZE - 1 - o /\ lv.mode = "program"
      BY <2>11 DEF IndexOf, ProgramVarIndex, Variable, idx
    <3>2. idx > ProgramTop
      BY <2>11, <3>1, StackAssumption DEF ProgramTop
    <3>3. PendingNow' = PendingNow
      BY <2>1, <2>7, <3>2 DEF Indices
    <3>4. ASSUME NEW k \in 1 .. Depth
          PROVE  RecordOf(k)' = RecordOf(k)
      <4>1. /\ frames[k].base \in Int /\ frames[k].args \in Nat
            /\ frames[k].top = frames[k].base + 4 + frames[k].args
            /\ frames[k].top <= ProgramTop
        BY Regions
      <4>2. idx \notin (LastLocal(k) .. frames[k].base)
                         \cup (frames[k].base + 5 .. frames[k].top)
        <5>1. idx \in Int /\ ProgramTop \in Int /\ idx > ProgramTop
          BY <2>1, <3>2 DEF Indices
        <5>2. frames[k].base <= ProgramTop
          BY <4>1, <5>1
        <5> QED
          BY <4>1, <5>1, <5>2
      <4> QED
        BY <2>9, <4>2
    <3>5. RecordsNow' = RecordsNow
      BY <2>10, <3>4 DEF RecordsNow
    <3>6. GlobalsNow' = [GlobalsNow EXCEPT ![o + 1] = cell]
      <4>1. GlobalsNow = [i \in 1 .. TotalProgramVars |-> s.stack[AVM_STACK_SIZE - i]]
        BY GlobalsFields
      <4>2. GlobalsNow' = [i \in 1 .. TotalProgramVars |-> s'.stack[AVM_STACK_SIZE - i]]
        <5>1. AVM_STACK_SIZE - 1 - (ProgramTop + 1) + 1 = TotalProgramVars
          BY StackAssumption DEF ProgramTop
        <5>2. \A i \in 1 .. TotalProgramVars : AVM_STACK_SIZE - 1 - i + 1 = AVM_STACK_SIZE - i
          BY StackAssumption
        <5> QED
          BY <5>1, <5>2 DEF GlobalsNow, CellsDown, ProgramTop
      <4>3. \A i \in 1 .. TotalProgramVars :
              /\ AVM_STACK_SIZE - i \in Indices
              /\ AVM_STACK_SIZE - i = idx <=> i = o + 1
        <5>1. \A i \in 1 .. TotalProgramVars : AVM_STACK_SIZE - i \in Indices
          BY GlobalsFields
        <5>2. AVM_STACK_SIZE \in Int /\ o \in Int
          BY <2>11, StackAssumption
        <5>3. \A i \in Int : AVM_STACK_SIZE - i = AVM_STACK_SIZE - 1 - o <=> i = o + 1
          BY <5>2
        <5> QED
          BY <3>1, <5>1, <5>3
      <4>4. \A i \in 1 .. TotalProgramVars :
              s'.stack[AVM_STACK_SIZE - i] = IF i = o + 1 THEN cell ELSE s.stack[AVM_STACK_SIZE - i]
        BY <2>4, <4>3
      <4> QED
        BY <4>1, <4>2, <4>4
    <3>7. Records!Write(lv, cell)
      BY <2>2, <3>1, <3>5, <3>6 DEF Records!Write, RecordsNow, GlobalsNow
    <3> QED
      BY <1>1, <3>3, <3>7
  <2>12. ASSUME InFunction
         PROVE  /\ Depth \in 1 .. Depth
                /\ frames[Depth].base = s.topsp /\ frames[Depth].args \in Nat
                /\ frames[Depth].top = s.topsp + 4 + frames[Depth].args
                /\ frames[Depth].top <= ProgramTop
                /\ LastLocal(Depth) = s.top + s.total_actuals + 1
                /\ RecordsNow \in Seq(RecordSet) /\ Len(RecordsNow) = Depth
                /\ RecordsNow[Depth] = RecordOf(Depth)
    <3>1. Depth \in 1 .. Depth /\ frames[Depth].base = s.topsp
      BY <2>12, NewestFrame
    <3>2. PICK d \in 1 .. Depth : d = Depth
      BY <3>1
    <3>3. /\ frames[d].args \in Nat /\ frames[d].top = frames[d].base + 4 + frames[d].args
          /\ frames[d].top <= ProgramTop
      BY Regions
    <3>4. LastLocal(Depth) = s.top + s.total_actuals + 1
      BY DEF LastLocal
    <3>5. /\ RecordsNow \in Seq(RecordSet) /\ Len(RecordsNow) = Depth
          /\ RecordsNow[Depth] = RecordOf(Depth)
      BY <3>1, RecordsFields
    <3> QED
      BY <3>1, <3>2, <3>3, <3>4, <3>5
  (* A cell of the newest record lies below all older ones. *)
  <2>13. ASSUME InFunction, idx <= frames[Depth].top, NEW k \in 1 .. Depth, k # Depth
         PROVE  RecordOf(k)' = RecordOf(k)
    <3>1. /\ frames[k].base \in Int /\ LastLocal(k) \in Int
          /\ LastLocal(k) <= frames[k].base + 1
          /\ LastLocal(k) > frames[Depth].top
      BY <2>13, Regions
    <3>2. frames[Depth].top \in Int
      BY <2>1, <2>12, <2>13
    <3>3. idx \notin (LastLocal(k) .. frames[k].base)
                       \cup (frames[k].base + 5 .. frames[k].top)
      BY <2>1, <2>13, <3>1, <3>2 DEF Indices
    <3> QED
      BY <2>9, <3>3
  <2>14. CASE /\ lv = Variable("local", o)
              /\ InFunction
              /\ o \in 0 .. FrameLocals - 1
    <3>1. PICK d \in 1 .. Depth : d = Depth
      BY <2>12, <2>14
    <3>2. /\ frames[d].base = s.topsp /\ frames[d].args \in Nat
          /\ frames[d].top = s.topsp + 4 + frames[d].args
          /\ frames[d].top <= ProgramTop
          /\ LastLocal(d) = s.top + s.total_actuals + 1
      BY <2>12, <2>14, <3>1
    <3> DEFINE f    == frames[d]
               n    == f.base - LastLocal(d) + 1
               up   == [i \in 1 .. f.args |-> s.stack[f.base + 4 + i]]
               down == [i \in 1 .. n |-> s.stack[f.base - i + 1]]
    <3>3. /\ o \in Int /\ o >= 0 /\ o <= s.topsp - s.top - s.total_actuals - 1
          /\ f.base = s.topsp /\ f.base \in Int /\ f.args \in Nat
          /\ n \in Int
      BY <2>1, <2>14, <3>2 DEF FrameLocals
    <3>4. idx = f.base - o /\ lv.mode = "local" /\ lv.offset = o
      <4>1. s.topsp - o >= 0
        BY <2>1, <3>3, StackFields, StackAssumption, SMTT(30)
      <4>2. lv.mode = "local"
        BY <2>14 DEF Variable
      <4> QED
        BY <2>1, <3>3, <4>1, <4>2 DEF IndexOf, LocalVarIndex, AsUnsigned, idx
    <3>5. idx > s.top + s.total_actuals /\ idx <= ProgramTop /\ idx <= frames[Depth].top
      BY <2>1, <3>1, <3>2, <3>3, <3>4
    <3>6. PendingNow' = PendingNow /\ GlobalsNow' = GlobalsNow
      BY <2>7, <2>8, <3>5
    <3>7. /\ RecordOf(d) = [ret |-> f.ret, actuals |-> up, locals |-> down]
          /\ \A i \in 1 .. f.args : f.base + 4 + i \in Indices
          /\ \A i \in 1 .. n : f.base - i + 1 \in Indices
      BY RecordFields
    <3>8. RecordOf(d)' = [ret     |-> f.ret,
                          actuals |-> [i \in 1 .. f.args |-> s'.stack[f.base + 4 + i]],
                          locals  |-> [i \in 1 .. n |-> s'.stack[f.base - i + 1]]]
      BY <2>5, <2>6, RecordNext
    <3>9. \A i \in 1 .. f.args : s'.stack[f.base + 4 + i] = s.stack[f.base + 4 + i]
      <4>1. \A i \in Int : i >= 1 => f.base + 4 + i # f.base - o
        BY <3>3
      <4> QED
        BY <2>4, <3>4, <3>7, <4>1
    <3>10. \A i \in 1 .. n : s'.stack[f.base - i + 1] = IF i = o + 1 THEN cell ELSE s.stack[f.base - i + 1]
      <4>1. \A i \in 1 .. n : f.base - i + 1 = f.base - o <=> i = o + 1
        BY <3>3
      <4> QED
        BY <2>4, <3>4, <3>7, <4>1
    <3> DEFINE new == [ret |-> f.ret, actuals |-> up, locals |-> [down EXCEPT ![o + 1] = cell]]
    <3>11. RecordOf(d)' = new
      <4>1. /\ [i \in 1 .. f.args |-> s'.stack[f.base + 4 + i]] = up
            /\ [i \in 1 .. n |-> s'.stack[f.base - i + 1]] = [down EXCEPT ![o + 1] = cell]
        BY <3>9, <3>10
      <4> HIDE DEF f, n, up, down
      <4> QED
        BY <3>8, <4>1
    <3> DEFINE R == RecordsNow
               W == RecordsNow'
    <3>12. R \in Seq(RecordSet) /\ Len(R) = d /\ R[d] = RecordOf(d)
      BY <2>12, <2>14, <3>1
    <3>13. W = [k \in 1 .. Len(R) |-> IF k = d THEN new ELSE R[k]]
      <4>1. \A k \in 1 .. Depth : k # d => RecordOf(k)' = R[k]
        BY <2>13, <2>14, <3>1, <3>5, RecordsFields
      <4> HIDE DEF new, R
      <4> QED
        BY <2>10, <3>1, <3>11, <3>12, <4>1
    <3>14. /\ R[d].ret = f.ret /\ R[d].actuals = up /\ R[d].locals = down
      <4> HIDE DEF up, down, f, R
      <4> QED
        BY <3>7, <3>12
    <3> HIDE DEF f, n, up, down
    <3>15. new = [ret |-> R[d].ret, actuals |-> R[d].actuals, locals |-> [R[d].locals EXCEPT ![o + 1] = cell]]
      BY <3>14
    <3>16. d \in 1 .. Len(R)
      BY <2>12, <2>14, <3>1, <3>12
    <3> HIDE DEF new, R, W
    <3>17. W = [R EXCEPT ![d].locals[o + 1] = cell]
      <4> DEFINE r == R[d]
                 w == [r.locals EXCEPT ![o + 1] = cell]
      <4>1. r \in RecordSet /\ DOMAIN R = 1 .. Len(R)
        BY <3>12, <3>16, ElementOfSeq, LenProperties
      <4>2. new = [ret |-> r.ret, actuals |-> r.actuals, locals |-> w]
        BY <3>15
      <4> HIDE DEF r, w
      <4>3. new = [r EXCEPT !.locals = w]
        BY <4>1, <4>2, RecordWritten
      <4>4. W = [R EXCEPT ![d] = new]
        BY <3>13, <3>16, <4>1
      <4> QED
        BY <4>3, <4>4 DEF r, w
    <3>18. Records!Write(lv, cell)
      BY <2>2, <3>4, <3>6, <3>12, <3>17 DEF Records!Write, RecordsNow, GlobalsNow, R, W
    <3> QED
      BY <1>1, <3>6, <3>18
  <2>15. CASE /\ lv = Variable("formal", o)
              /\ InFunction
              /\ o \in 0 .. NrFormals - 1
    <3>1. PICK d \in 1 .. Depth : d = Depth
      BY <2>12, <2>15
    <3>2. /\ frames[d].base = s.topsp /\ frames[d].args \in Nat
          /\ frames[d].top = s.topsp + 4 + frames[d].args
          /\ frames[d].top <= ProgramTop
          /\ LastLocal(d) = s.top + s.total_actuals + 1
      BY <2>12, <2>15, <3>1
    <3> DEFINE f    == frames[d]
               n    == f.base - LastLocal(d) + 1
               up   == [i \in 1 .. f.args |-> s.stack[f.base + 4 + i]]
               down == [i \in 1 .. n |-> s.stack[f.base - i + 1]]
    <3>3. /\ o \in Int /\ o >= 0 /\ o < f.args
          /\ f.base = s.topsp /\ f.base \in Int /\ f.args \in Nat
          /\ n \in Int
          /\ LastLocal(d) >= 0
      <4>1. lv.mode = "formal"
        BY <2>15 DEF Variable
      <4>2. TotalActuals(s) = f.args
        BY <2>15, <3>1, NewestFrame DEF TotalActuals, SAVED_TOTAL_ACTUALS
      <4>3. o < f.args
        BY <2>15, <3>2, <4>1, <4>2, CallsAssumption DEF OperandOK, OperandFault
      <4>4. LastLocal(d) >= 0 /\ LastLocal(d) \in Int
        BY Regions
      <4> QED
        BY <2>1, <2>15, <3>2, <4>3, <4>4, CallsAssumption
    <3>4. idx = f.base + 5 + o /\ lv.mode = "formal" /\ lv.offset = o
      <4>1. s.topsp >= -1
        BY StackFields, StackAssumption
      <4>2. lv.mode = "formal"
        BY <2>15 DEF Variable
      <4> QED
        BY <2>1, <3>3, <4>1, <4>2
           DEF IndexOf, ActualArgIndex, AsUnsigned, AVM_ENV_SIZE, idx
    <3>5. idx > s.top + s.total_actuals /\ idx <= ProgramTop /\ idx <= frames[Depth].top
      BY <2>1, <3>1, <3>2, <3>3, <3>4
    <3>6. PendingNow' = PendingNow /\ GlobalsNow' = GlobalsNow
      BY <2>7, <2>8, <3>5
    <3>7. /\ RecordOf(d) = [ret |-> f.ret, actuals |-> up, locals |-> down]
          /\ \A i \in 1 .. f.args : f.base + 4 + i \in Indices
          /\ \A i \in 1 .. n : f.base - i + 1 \in Indices
      BY RecordFields
    <3>8. RecordOf(d)' = [ret     |-> f.ret,
                          actuals |-> [i \in 1 .. f.args |-> s'.stack[f.base + 4 + i]],
                          locals  |-> [i \in 1 .. n |-> s'.stack[f.base - i + 1]]]
      BY <2>5, <2>6, RecordNext
    <3>9. \A i \in 1 .. f.args : s'.stack[f.base + 4 + i] = IF i = o + 1 THEN cell ELSE s.stack[f.base + 4 + i]
      <4>1. \A i \in Int : f.base + 4 + i = f.base + 5 + o <=> i = o + 1
        BY <3>3
      <4> QED
        BY <2>4, <3>4, <3>7, <4>1
    <3>10. \A i \in 1 .. n : s'.stack[f.base - i + 1] = s.stack[f.base - i + 1]
      <4>1. \A i \in 1 .. n : f.base - i + 1 # f.base + 5 + o
        BY <3>3
      <4> QED
        BY <2>4, <3>4, <3>7, <4>1
    <3> DEFINE new == [ret |-> f.ret, actuals |-> [up EXCEPT ![o + 1] = cell], locals |-> down]
    <3>11. RecordOf(d)' = new
      <4>1. /\ [i \in 1 .. f.args |-> s'.stack[f.base + 4 + i]] = [up EXCEPT ![o + 1] = cell]
            /\ [i \in 1 .. n |-> s'.stack[f.base - i + 1]] = down
        BY <3>9, <3>10
      <4> HIDE DEF f, n, up, down
      <4> QED
        BY <3>8, <4>1
    <3> DEFINE R == RecordsNow
               W == RecordsNow'
    <3>12. R \in Seq(RecordSet) /\ Len(R) = d /\ R[d] = RecordOf(d)
      BY <2>12, <2>15, <3>1
    <3>13. W = [k \in 1 .. Len(R) |-> IF k = d THEN new ELSE R[k]]
      <4>1. \A k \in 1 .. Depth : k # d => RecordOf(k)' = R[k]
        BY <2>13, <2>15, <3>1, <3>5, RecordsFields
      <4> HIDE DEF new, R
      <4> QED
        BY <2>10, <3>1, <3>11, <3>12, <4>1
    <3>14. /\ R[d].ret = f.ret /\ R[d].actuals = up /\ R[d].locals = down
      <4> HIDE DEF up, down, f, R
      <4> QED
        BY <3>7, <3>12
    <3> HIDE DEF f, n, up, down
    <3>15. new = [ret |-> R[d].ret, actuals |-> [R[d].actuals EXCEPT ![o + 1] = cell], locals |-> R[d].locals]
      BY <3>14
    <3>16. d \in 1 .. Len(R)
      BY <2>12, <2>15, <3>1, <3>12
    <3> HIDE DEF new, R, W
    <3>17. W = [R EXCEPT ![d].actuals[o + 1] = cell]
      <4> DEFINE r == R[d]
                 w == [r.actuals EXCEPT ![o + 1] = cell]
      <4>1. r \in RecordSet /\ DOMAIN R = 1 .. Len(R)
        BY <3>12, <3>16, ElementOfSeq, LenProperties
      <4>2. new = [ret |-> r.ret, actuals |-> w, locals |-> r.locals]
        BY <3>15
      <4> HIDE DEF r, w
      <4>3. new = [r EXCEPT !.actuals = w]
        BY <4>1, <4>2, RecordWritten
      <4>4. W = [R EXCEPT ![d] = new]
        BY <3>13, <3>16, <4>1
      <4> QED
        BY <4>3, <4>4 DEF r, w
    <3>18. Records!Write(lv, cell)
      BY <2>2, <3>4, <3>6, <3>12, <3>17 DEF Records!Write, RecordsNow, GlobalsNow, R, W
    <3> QED
      BY <1>1, <3>6, <3>18
  <2> QED
    BY <1>3, <2>11, <2>14, <2>15 DEF Variables, Variable
<1> QED
  BY <1>2, <1>3 DEF LValues
LEMMA AssignMaps ==
  ASSUME IInv, RecordFrames, NEW lv \in LValues, NEW rv \in Operands, Assign(lv, rv)
  PROVE  /\ lv \in Records!LValues /\ rv \in Records!Operands
         /\ Records!Assign(lv, rv)
<1>1. CellOf(rv) \in Cell
  BY OperandType DEF Assign, IInv
<1>2. /\ lv \in Records!LValues
      /\ Records!Write(lv, CellOf(rv))
      /\ PendingNow' = PendingNow
  BY <1>1, StoreMaps DEF Assign
<1>3. rv \in Records!Operands /\ Records!ValueOf(rv) = CellOf(rv)
  BY OperandMaps DEF Assign
<1>4. Records!InBody /\ pc' = pc + 1 /\ outcome' = outcome
  BY DEF Assign, Falls, InBody, Running, Records!InBody, Records!Running
<1> QED
  BY <1>2, <1>3, <1>4 DEF Records!Assign, PendingNow

LEMMA NewTableMaps ==
  ASSUME IInv, RecordFrames, NEW lv \in LValues, NEW table \in DOMAIN Functor,
         NewTable(lv, table)
  PROVE  /\ lv \in Records!LValues
         /\ Records!NewTable(lv, table)
<1>1. TableRef(table) \in Cell
  BY CallsAssumption DEF TableRef, Cell, Memcell, MemcellType
<1>2. /\ lv \in Records!LValues
      /\ Records!Write(lv, TableRef(table))
      /\ PendingNow' = PendingNow
  BY <1>1, StoreMaps DEF NewTable
<1>3. Records!InBody /\ pc' = pc + 1 /\ outcome' = outcome
  BY DEF NewTable, Falls, InBody, Running, Records!InBody, Records!Running
<1> QED
  BY <1>2, <1>3 DEF Records!NewTable, PendingNow, TableRef, Records!TableRef

LEMMA JumpMaps ==
  ASSUME IInv, RecordFrames, NEW label \in BodyAddresses, Jump(label)
  PROVE  Records!Jump
<1>1. frames' = frames /\ program_stack' = program_stack
  BY FramesUnchanged DEF Jump, Depth, IInv
<1>2. RecordsNow' = RecordsNow /\ GlobalsNow' = GlobalsNow /\ PendingNow' = PendingNow
  BY <1>1, AllStay
<1>3. /\ Records!InBody /\ pc' \in BodyAddresses
      /\ UNCHANGED <<retval, outcome>>
  BY DEF Jump, InBody, Running, Records!InBody, Records!Running
<1> QED
  BY <1>2, <1>3 DEF Records!Jump, RecordsNow, PendingNow, GlobalsNow

LEMMA StopMaps ==
  ASSUME IInv, RecordFrames, Running, NEW how, how # "running", Stop(how)
  PROVE  Records!Stop
<1>1. frames' = frames /\ program_stack' = program_stack
  BY FramesUnchanged DEF Stop, Depth, IInv
<1>2. RecordsNow' = RecordsNow /\ GlobalsNow' = GlobalsNow /\ PendingNow' = PendingNow
  BY <1>1, AllStay
<1>3. Records!Running /\ outcome' # "running" /\ UNCHANGED <<retval, pc>>
  BY DEF Stop, Running, Records!Running
<1> QED
  BY <1>2, <1>3 DEF Records!Stop, RecordsNow, PendingNow, GlobalsNow

(* What a library function leaves in retval is what it promises about the  *)
(* newest record and the pending arguments.                                *)
LEMMA LibResultMaps ==
  ASSUME IInv, Falls, ~Overflows(program_stack, AVM_ENV_SIZE),
         NEW name, LibMayReturn(name, SaveEnvironment(program_stack, pc)),
         NEW cell \in LibResult(name, SaveEnvironment(program_stack, pc))
  PROVE  /\ name = TotalArguments =>
              cell = IF InFunction THEN Number(Len(Records!Newest.actuals)) ELSE Nil
         /\ name = Argument /\ ~InFunction => cell = Nil
         /\ name = Argument /\ InFunction =>
              /\ Len(PendingNow) = 1
              /\ PendingNow[1].type = "number"
              /\ PendingNow[1].value \in 0 .. Len(Records!Newest.actuals) - 1
              /\ cell = Records!Newest.actuals[PendingNow[1].value + 1]
         /\ name \notin {Argument, TotalArguments} => cell \in LibResults
<1> USE DEF IInv
<1> DEFINE ps   == program_stack
           s    == SaveEnvironment(ps, pc)
           base == ps.top - 4
           c    == MoveUp(s)
<1>1. /\ s.topsp = base
      /\ s.fcall_depth = Depth + 1
      /\ s.stack \in [Indices -> Cell]
      /\ \A i \in Indices : i > base + 4 => s.stack[i] = ps.stack[i]
      /\ s.stack[base + 1] = Number(ps.topsp)
      /\ s.stack[base + 4] = Number(ps.total_actuals)
      /\ base >= -1
      /\ s \in StackObject
  BY SavedFields
<1> HIDE DEF s
<1>2. /\ ps.top \in Int /\ ps.topsp \in Int /\ ps.total_actuals \in Nat
      /\ Depth \in Nat /\ base \in Int
      /\ ps.topsp <= ProgramTop /\ base + 4 + ps.total_actuals <= ps.topsp
  BY StackFields, TopspBelowProgram, StackAssumption
<1>3. EnvValue(s, 1) = ps.topsp
  BY <1>1 DEF EnvValue, Number
<1>4. c.topsp = ps.topsp /\ c.stack = s.stack
  BY <1>1, <1>3 DEF MoveUp, StackObject, SAVED_TOPSP_OFFSET
<1> HIDE DEF c
<1>5. InFunction <=> Depth # 0
  BY <1>2 DEF InFunction, Depth
(* Above the new environment the callee sees what its caller sees. *)
<1>6. ASSUME InFunction
      PROVE  /\ TotalActuals(c) = Len(Records!Newest.actuals)
             /\ Len(Records!Newest.actuals) \in Nat
             /\ \A o \in 0 .. Len(Records!Newest.actuals) - 1 :
                  Records!Newest.actuals[o + 1] = c.stack[ActualArgIndex(c, o)]
  <2>1. /\ Depth \in 1 .. Depth
        /\ ps.topsp = frames[Depth].base
        /\ Len(Records!Newest.actuals) = TotalActuals(ps)
        /\ \A o \in 0 .. TotalActuals(ps) - 1 :
             Records!Newest.actuals[o + 1] = ps.stack[ps.topsp + 5 + o]
        /\ TotalActuals(ps) = frames[Depth].args
    BY <1>6, NewestFrame, NewestFields DEF TotalActuals, SAVED_TOTAL_ACTUALS
  <2>2. PICK d \in 1 .. Depth : d = Depth
    BY <2>1
  <2>3. /\ frames[d].args \in Nat
        /\ frames[d].base \in Int /\ frames[d].base >= -1
        /\ frames[d].base + 4 + frames[d].args <= ProgramTop
    BY Regions
  <2>4. /\ frames[d].base + 4 \in Indices
        /\ ps.stack[frames[d].base + 4] = Number(frames[d].args)
    BY EnvironmentCells
  <2>5. s.stack[ps.topsp + 4] = Number(frames[d].args)
    <3>1. ps.topsp + 4 = frames[d].base + 4 /\ ps.topsp + 4 > base + 4
      BY <1>2, <2>1, <2>2
    <3> QED
      BY <1>1, <2>4, <3>1
  <2>6. TotalActuals(c) = frames[d].args
    BY <1>4, <2>5 DEF TotalActuals, EnvValue, Number, SAVED_TOTAL_ACTUALS
  <2>7. ASSUME NEW o \in 0 .. frames[d].args - 1
        PROVE  c.stack[ActualArgIndex(c, o)] = ps.stack[ps.topsp + 5 + o]
    <3>1. /\ ps.topsp = frames[d].base /\ o \in Int /\ o >= 0 /\ o < frames[d].args
      BY <2>1, <2>2, <2>3
    <3>2. ActualArgIndex(c, o) = ps.topsp + 5 + o
      BY <1>2, <1>4, <2>3, <3>1 DEF ActualArgIndex, AsUnsigned, AVM_ENV_SIZE
    <3>3. ps.topsp + 5 + o \in Indices
      BY <1>2, <2>3, <3>1, StackAssumption DEF Indices, ProgramTop
    <3>4. ps.topsp + 5 + o > base + 4
      BY <1>2, <3>1
    <3> QED
      BY <1>1, <1>4, <3>2, <3>3, <3>4
  <2> QED
    BY <2>1, <2>2, <2>3, <2>6, <2>7
<1>7. ASSUME name = Argument
      PROVE  /\ ~InFunction => cell = Nil
             /\ InFunction =>
                  /\ Len(PendingNow) = 1
                  /\ PendingNow[1].type = "number"
                  /\ PendingNow[1].value \in 0 .. Len(Records!Newest.actuals) - 1
                  /\ cell = Records!Newest.actuals[PendingNow[1].value + 1]
  <2>1. ArgumentAccepts(s) /\ cell = ArgumentResult(s)
    BY <1>7, CallsAssumption DEF LibMayReturn, LibResult, s
  <2>2. CASE ~InFunction
    BY <1>1, <1>5, <2>1, <2>2 DEF ArgumentResult
  <2>3. CASE InFunction
    <3>1. ps.total_actuals = 1
      BY <1>1, <2>1 DEF ArgumentAccepts, TotalActuals, EnvValue, Number,
                        SAVED_TOTAL_ACTUALS
    <3>2. ps.top + 1 \in Indices
      <4>1. ps.top + 1 >= 0 /\ ps.top + 1 <= ProgramTop
        <5>1. ProgramTop \in Int
          BY StackAssumption DEF ProgramTop
        <5> QED
          BY <1>1, <1>2, <3>1, <5>1
      <4> QED
        BY <1>2, <4>1, StackAssumption DEF ProgramTop, Indices
    <3>3. FirstActual(s) = ps.stack[ps.top + 1]
      <4>1. ActualArgIndex(s, 0) = ps.top + 1
        BY <1>1, <1>2 DEF ActualArgIndex, AsUnsigned, AVM_ENV_SIZE
      <4>2. ps.top + 1 > base + 4
        BY <1>2
      <4> QED
        BY <1>1, <3>2, <4>1, <4>2 DEF FirstActual
    <3>4. Len(PendingNow) = 1 /\ PendingNow[1] = ps.stack[ps.top + 1]
      BY <1>2, <3>1, PendingFields
    <3> DEFINE index == FirstActual(s).value
    <3>5. index \in Int /\ FirstActual(s).type = "number"
      <4>1. ps.stack \in [Indices -> Cell]
        BY StackFields
      <4> QED
        BY <2>1, <3>2, <3>3, <4>1 DEF ArgumentAccepts, Cell, Memcell
    <3>6. s.fcall_depth > 1 /\ s.fcall_depth # 1
      BY <1>1, <1>2, <1>5, <2>3
    <3>7. index >= 0 /\ index < TotalActuals(c)
      BY <2>1, <3>6 DEF ArgumentAccepts, c
    <3>8. cell = c.stack[ActualArgIndex(c, index)]
      BY <2>1, <3>6 DEF ArgumentResult, c
    <3>9. PendingNow[1].value = index
      BY <3>3, <3>4
    <3> HIDE DEF index
    <3>10. index \in 0 .. Len(Records!Newest.actuals) - 1
      BY <1>6, <2>3, <3>5, <3>7
    <3> QED
      BY <1>6, <2>3, <3>3, <3>4, <3>5, <3>8, <3>9, <3>10
  <2> QED
    BY <2>2, <2>3
<1>8. ASSUME name = TotalArguments
      PROVE  cell = IF InFunction THEN Number(Len(Records!Newest.actuals)) ELSE Nil
  <2>1. cell = TotalArgumentsResult(s)
    BY <1>8, CallsAssumption DEF LibResult, s
  <2>2. s.fcall_depth = 1 <=> ~InFunction
    BY <1>1, <1>2, <1>5
  <2> QED
    BY <1>6, <2>1, <2>2 DEF TotalArgumentsResult, c
<1>9. ASSUME name \notin {Argument, TotalArguments}
      PROVE  cell \in LibResults
  BY <1>9 DEF LibResult
<1> QED
  BY <1>7, <1>8, <1>9

LEMMA CallLibFuncMaps ==
  ASSUME IInv, RecordFrames, NEW func \in Operands, CallLibFunc(func)
  PROVE  func \in Records!Operands /\ Records!CallLibFunc(func)
<1> DEFINE ps   == program_stack
           s    == SaveEnvironment(ps, pc)
           r    == RestoreEnvironment(s)
           name == Callee(func).value
<1>1. /\ program_stack' = r
      /\ Falls /\ OperandOK(func)
      /\ ~Overflows(ps, AVM_ENV_SIZE)
      /\ Callee(func).type \in {"string", "libfunc"}
      /\ name \in LibNames
      /\ LibMayReturn(name, s)
      /\ retval' \in LibResult(name, s)
      /\ pc' = AfterCycle(SavedPc(s))
      /\ outcome' = outcome
  BY CallLibFuncStep
<1>2. /\ r.top = ps.top + ps.total_actuals
      /\ r.total_actuals = 0
      /\ r.fcall_depth = Depth
      /\ \A i \in Indices : i > ps.top + ps.total_actuals => r.stack[i] = ps.stack[i]
      /\ SavedPc(s) = pc + 1
  BY <1>1, LibCallRestores
<1>3. /\ name = TotalArguments =>
           retval' = IF InFunction THEN Number(Len(Records!Newest.actuals)) ELSE Nil
      /\ name = Argument /\ ~InFunction => retval' = Nil
      /\ name = Argument /\ InFunction =>
           /\ Len(PendingNow) = 1
           /\ PendingNow[1].type = "number"
           /\ PendingNow[1].value \in 0 .. Len(Records!Newest.actuals) - 1
           /\ retval' = Records!Newest.actuals[PendingNow[1].value + 1]
      /\ name \notin {Argument, TotalArguments} => retval' \in LibResults
  BY <1>1, LibResultMaps
<1> HIDE DEF r, s
<1>4. Depth' = Depth /\ frames' = frames
  BY <1>1, <1>2, FramesUnchanged DEF Depth, IInv
<1>5. ps.top + ps.total_actuals \in Int
  BY StackFields, StackAssumption DEF IInv
<1>6. RecordsNow' = RecordsNow /\ GlobalsNow' = GlobalsNow
  BY <1>1, <1>2, <1>4, <1>5, RecordsStay
<1>7. PendingNow' = << >>
  BY <1>1, <1>2, <1>5, NonePending
<1>8. /\ func \in Records!Operands
      /\ Records!Callee(func) = Callee(func)
  BY <1>1, CalleeMaps
<1>9. /\ Records!InBody /\ pc' = pc + 1
      /\ Records!InFunction <=> InFunction
  BY <1>1, <1>2, NewestFields, CallsAssumption
     DEF AfterCycle, Falls, InBody, Running, Records!InBody, Records!Running
<1>10. Argument # TotalArguments
  BY CallsAssumption
<1> HIDE DEF name
<1>11. CASE name = TotalArguments
  BY <1>1, <1>3, <1>6, <1>7, <1>8, <1>9, <1>10, <1>11
     DEF Records!CallLibFunc, RecordsNow, PendingNow, GlobalsNow, name,
         Number, Nil, Records!Number, Records!Nil
<1>12. CASE name = Argument /\ InFunction
  BY <1>1, <1>3, <1>6, <1>7, <1>8, <1>9, <1>10, <1>12
     DEF Records!CallLibFunc, RecordsNow, PendingNow, GlobalsNow, name
<1>13. CASE name = Argument /\ ~InFunction
  BY <1>1, <1>3, <1>6, <1>7, <1>8, <1>9, <1>10, <1>13
     DEF Records!CallLibFunc, RecordsNow, PendingNow, GlobalsNow, name, Nil, Records!Nil
<1>14. CASE name \notin {Argument, TotalArguments}
  BY <1>1, <1>3, <1>6, <1>7, <1>8, <1>9, <1>10, <1>14
     DEF Records!CallLibFunc, RecordsNow, PendingNow, GlobalsNow, name
<1> QED
  BY <1>11, <1>12, <1>13, <1>14
-----------------------------------------------------------------------------
(* The machine starts as the records do.                                   *)
LEMMA InitMaps ==
  ASSUME HInit
  PROVE  RInv /\ Records!Init
<1>1. IInv
  BY InitHolds
<1>2. AtEntry
  BY CallsAssumption DEF AtEntry, HInit, Init
<1>3. /\ program_stack.fcall_depth = 0
      /\ program_stack.total_actuals = 0
      /\ program_stack.stack = [i \in Indices |-> Undef]
      /\ retval = Undef /\ pc = StartAddress /\ outcome = "running"
  BY DEF HInit, Init, NewStack
<1>4. RecordsNow = << >>
  <2>1. RecordsNow \in Seq(RecordSet) /\ Len(RecordsNow) = 0
    BY <1>1, <1>3, RecordsFields DEF Depth
  <2> QED
    BY <2>1, EmptySeq
<1>5. PendingNow = << >>
  <2>1. PendingNow \in Seq(Cell) /\ Len(PendingNow) = 0
    BY <1>1, <1>3, PendingFields
  <2> QED
    BY <2>1, EmptySeq
<1>6. GlobalsNow = [i \in 1 .. TotalProgramVars |-> Undef]
  <2>1. /\ GlobalsNow = [i \in 1 .. TotalProgramVars |-> program_stack.stack[AVM_STACK_SIZE - i]]
        /\ \A i \in 1 .. TotalProgramVars : AVM_STACK_SIZE - i \in Indices
    BY <1>1, GlobalsFields DEF IInv
  <2>2. \A i \in 1 .. TotalProgramVars : program_stack.stack[AVM_STACK_SIZE - i] = Undef
    BY <1>3, <2>1
  <2> QED
    BY <2>1, <2>2
<1> QED
  BY <1>1, <1>2, <1>3, <1>4, <1>5, <1>6
     DEF RInv, Records!Init, RecordsNow, PendingNow, GlobalsNow, Undef, Records!Undef

(* Only a call of a user function leads to a funcenter.                    *)
LEMMA EntryKeeps ==
  ASSUME RInv, [HNext]_hvars
  PROVE  AtEntry'
<1> USE DEF RInv
<1>1. CASE UNCHANGED hvars
  BY <1>1 DEF AtEntry, InFunction, hvars
<1>2. CASE pc' \in BodyAddresses
  BY <1>2, CallsAssumption DEF AtEntry
<1>3. CASE Next /\ RecordFrames
  <2>1. ASSUME NEW o \in Operands, PushArg(o) PROVE AtEntry'
    BY <1>2, <2>1 DEF PushArg, Falls
  <2>2. ASSUME NEW o \in Operands, CallUserFunc(o) PROVE AtEntry'
    <3> DEFINE s == SaveEnvironment(program_stack, pc)
    <3>1. program_stack' = s /\ Falls /\ ~Overflows(program_stack, AVM_ENV_SIZE)
      BY <2>2 DEF CallUserFunc
    <3>2. s.top = s.topsp /\ s.total_actuals = 0 /\ s.fcall_depth = Depth + 1
      BY <3>1, SavedFields DEF IInv
    <3> HIDE DEF s
    <3>3. program_stack'.fcall_depth > 0
      BY <3>1, <3>2, StackFields DEF IInv
    <3> QED
      BY <3>1, <3>2, <3>3 DEF AtEntry, InFunction
  <2>3. ASSUME NEW o \in Operands, CallLibFunc(o) PROVE AtEntry'
    <3>1. pc' = AfterCycle(pc + 1) /\ Falls
      BY <2>3, LibCallRestores, CallLibFuncStep
    <3> QED
      BY <1>2, <3>1 DEF AfterCycle, Falls
  <2>4. ASSUME NEW o \in Operands, CallFails(o) \/ OperandFails(o) PROVE AtEntry'
    <3>1. pc' = pc /\ pc \in BodyAddresses
      BY <2>4 DEF CallFails, OperandFails, Stop, InBody
    <3> QED
      BY <1>2, <3>1
  <2>5. ASSUME NEW lv \in LValues, NEW rv \in Operands, Assign(lv, rv) PROVE AtEntry'
    BY <1>2, <2>5 DEF Assign, Falls
  <2>6. ASSUME NEW lv \in LValues, NEW table \in DOMAIN Functor, NewTable(lv, table)
        PROVE  AtEntry'
    BY <1>2, <2>6 DEF NewTable, Falls
  <2>7. CASE FuncEnter
    BY <1>2, <2>7, CallsAssumption DEF FuncEnter
  <2>8. CASE FuncExit
    <3>1. pc' = frames[Depth].ret
      BY <1>3, <2>8, FuncExitKeeps
    <3>2. Depth \in 1 .. Depth
      BY <2>8, NewestFrame DEF FuncExit, IInv
    <3>3. PICK d \in 1 .. Depth : d = Depth
      BY <3>2
    <3>4. frames[d].ret \in BodyAddresses
      BY FrameArithmetic DEF IInv
    <3> QED
      BY <1>2, <3>1, <3>3, <3>4
  <2>9. ASSUME NEW label \in BodyAddresses, Jump(label) PROVE AtEntry'
    BY <1>2, <2>9 DEF Jump
  <2>10. CASE StackOverflow
    BY <2>10 DEF StackOverflow, Stop, AtEntry, InFunction
  <2> QED
    BY <1>3, <2>1, <2>2, <2>3, <2>4, <2>5, <2>6, <2>7, <2>8, <2>9, <2>10 DEF Next
<1> QED
  BY <1>1, <1>3 DEF HNext

(* Every step of the machine is a step of the records, or a stutter.       *)
LEMMA NextMaps ==
  ASSUME RInv, [HNext]_hvars
  PROVE  [Records!Next]_(Records!avars)
<1> USE DEF RInv
<1>1. CASE UNCHANGED hvars
  <2>1. /\ program_stack' = program_stack /\ frames' = frames
        /\ UNCHANGED <<retval, pc, outcome>>
    BY <1>1 DEF hvars
  <2>2. RecordsNow' = RecordsNow /\ GlobalsNow' = GlobalsNow /\ PendingNow' = PendingNow
    BY <2>1, AllStay
  <2> QED
    BY <2>1, <2>2 DEF Records!avars, RecordsNow, PendingNow, GlobalsNow
<1>2. CASE Next /\ RecordFrames
  <2>1. ASSUME NEW o \in Operands, PushArg(o) PROVE Records!Next
    BY <1>2, <2>1, PushArgMaps DEF Records!Next
  <2>2. ASSUME NEW o \in Operands, CallUserFunc(o) PROVE Records!Next
    BY <1>2, <2>2, CallUserFuncMaps DEF Records!Next
  <2>3. ASSUME NEW o \in Operands, CallLibFunc(o) PROVE Records!Next
    BY <1>2, <2>3, CallLibFuncMaps DEF Records!Next
  <2>4. ASSUME NEW o \in Operands, CallFails(o) PROVE Records!Next
    <3>1. /\ Running
          /\ Stop("runtime_error") \/ Stop("assert_index") \/ Stop("out_of_range")
      BY <2>4 DEF CallFails, InBody
    <3> QED
      BY <1>2, <3>1, StopMaps DEF Records!Next
  <2>5. ASSUME NEW o \in Operands, OperandFails(o) PROVE Records!Next
    BY <1>2, <2>5, StopMaps DEF Records!Next, OperandFails, OperandOK, InBody
  <2>6. ASSUME NEW lv \in LValues, NEW rv \in Operands, Assign(lv, rv) PROVE Records!Next
    BY <1>2, <2>6, AssignMaps DEF Records!Next
  <2>7. ASSUME NEW lv \in LValues, NEW table \in DOMAIN Functor, NewTable(lv, table)
        PROVE  Records!Next
    BY <1>2, <2>7, NewTableMaps DEF Records!Next
  <2>8. CASE FuncEnter
    BY <1>2, <2>8, FuncEnterMaps DEF Records!Next
  <2>9. CASE FuncExit
    BY <1>2, <2>9, FuncExitMaps DEF Records!Next
  <2>10. ASSUME NEW label \in BodyAddresses, Jump(label) PROVE Records!Next
    BY <1>2, <2>10, JumpMaps DEF Records!Next
  <2>11. CASE StackOverflow
    BY <1>2, <2>11, StopMaps DEF Records!Next, StackOverflow
  <2> QED
    BY <1>2, <2>1, <2>2, <2>3, <2>4, <2>5, <2>6, <2>7, <2>8, <2>9, <2>10, <2>11
       DEF Next
<1> QED
  BY <1>1, <1>2 DEF HNext

(* The invariant of the refinement: the chain of environments, and that    *)
(* control stands at a funcenter only right after the call that leads to   *)
(* it, when the callee has no locals and no pending arguments yet.         *)
THEOREM EntryAfterCall == HSpec => []RInv
<1>1. HInit => RInv
  BY InitMaps
<1>2. RInv /\ [HNext]_hvars => RInv'
  BY NextKeeps, EntryKeeps DEF RInv
<1> QED
  BY <1>1, <1>2, PTL DEF HSpec

(* The stack of cells implements the stack of activation records: whatever *)
(* the program, each call makes a record of its own from the pending       *)
(* arguments, each return throws the newest one away, and every operand    *)
(* is read from and written to the record, the program variables or the    *)
(* return value that it names, and nothing else changes                    *)
(* (Program_stack.h:2-36, 60-82).                                          *)
THEOREM RecordsImplemented == HSpec => ImplementsRecords
<1>1. HInit => Records!Init
  BY InitMaps
<1>2. RInv /\ [HNext]_hvars => [Records!Next]_(Records!avars)
  BY NextMaps
<1> QED
  BY <1>1, <1>2, EntryAfterCall, PTL DEF HSpec, ImplementsRecords, Records!Spec
=============================================================================
