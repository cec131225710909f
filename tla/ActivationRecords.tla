-------------------------- MODULE ActivationRecords --------------------------
(***************************************************************************)
(* What the calling sequence promises, without a stack of cells: every     *)
(* active function has a record of its own that holds its actual           *)
(* arguments, its locals and the address it returns to; a call moves the   *)
(* pending arguments into a new record, a return throws the newest record  *)
(* away, and no instruction touches a record other than the newest one     *)
(* (Program_stack.h:2-36 draws these records).                             *)
(***************************************************************************)
EXTENDS Memcells, Sequences

CONSTANTS NrProgramVars, BodyAddresses, StartAddress, UserFuncs, NrFormals,
          Literals, Functor, LibNames, Argument, TotalArguments, LibResults

VARIABLES
  globals, \* the program variables
  records, \* the active functions, newest last
  pending, \* arguments pushed for the next call, the first one first
  retval, pc, outcome

avars == <<globals, records, pending, retval, pc, outcome>>

Newest == records[Len(records)]
InFunction == records # << >>

(* The operands an instruction may name in the newest record.              *)
LValues ==
       {[mode |-> "program", offset |-> o] : o \in 0 .. NrProgramVars - 1}
  \cup {[mode |-> "retval"]}
  \cup IF ~InFunction THEN {}
       ELSE {[mode |-> "local", offset |-> o] : o \in 0 .. Len(Newest.locals) - 1}
       \cup {[mode |-> "formal", offset |-> o] : o \in 0 .. Len(Newest.actuals) - 1}

Operands == LValues \cup {[mode |-> "constant", cell |-> c] : c \in Literals}

ValueOf(o) ==
  CASE o.mode = "program"  -> globals[o.offset + 1]
    [] o.mode = "local"    -> Newest.locals[o.offset + 1]
    [] o.mode = "formal"   -> Newest.actuals[o.offset + 1]
    [] o.mode = "retval"   -> retval
    [] o.mode = "constant" -> o.cell

Write(lv, cell) ==
  CASE lv.mode = "program" ->
         /\ globals' = [globals EXCEPT ![lv.offset + 1] = cell]
         /\ UNCHANGED <<records, retval>>
    [] lv.mode = "local" ->
         /\ records' = [records EXCEPT ![Len(records)].locals[lv.offset + 1] = cell]
         /\ UNCHANGED <<globals, retval>>
    [] lv.mode = "formal" ->
         /\ records' = [records EXCEPT ![Len(records)].actuals[lv.offset + 1] = cell]
         /\ UNCHANGED <<globals, retval>>
    [] lv.mode = "retval" ->
         /\ retval' = cell
         /\ UNCHANGED <<globals, records>>

Running == outcome = "running"
InBody  == Running /\ pc \in BodyAddresses

(* A table calls the function in its "()" entry.                           *)
Callee(o) ==
  LET func == ValueOf(o)
  IN  IF func.type = "table" /\ Functor[func.value].type \in {"userfunc", "libfunc"}
      THEN Functor[func.value] ELSE func

PushArg(arg) ==
  /\ InBody
  /\ pending' = <<ValueOf(arg)>> \o pending
  /\ pc' = pc + 1
  /\ UNCHANGED <<globals, records, retval, outcome>>

CallUserFunc(func) ==
  /\ InBody
  /\ Callee(func).type = "userfunc"
  /\ records' = Append(records, [ret     |-> pc + 1,
                                 actuals |-> pending,
                                 locals  |-> << >>])
  /\ pending' = << >>
  /\ pc' = Callee(func).value
  /\ UNCHANGED <<globals, retval, outcome>>

(* argument(i) is the caller's i-th actual argument and totalarguments()   *)
(* their number; both are nil at program scope.                            *)
CallLibFunc(func) ==
  LET name == Callee(func).value
  IN  /\ InBody
      /\ Callee(func).type \in {"string", "libfunc"}
      /\ name \in LibNames
      /\ CASE name = TotalArguments ->
                retval' = IF InFunction THEN Number(Len(Newest.actuals)) ELSE Nil
           [] name = Argument /\ InFunction ->
                /\ Len(pending) = 1
                /\ pending[1].type = "number"
                /\ pending[1].value \in 0 .. Len(Newest.actuals) - 1
                /\ retval' = Newest.actuals[pending[1].value + 1]
           [] name = Argument /\ ~InFunction -> retval' = Nil
           [] OTHER -> retval' \in LibResults
      /\ pending' = << >>
      /\ pc' = pc + 1
      /\ UNCHANGED <<globals, records, outcome>>

(* Entering a function gives it locals whose values nobody promises: any   *)
(* sequence of the right length may become the newest record's locals.     *)
FuncEnter ==
  /\ Running
  /\ pc \in DOMAIN UserFuncs
  /\ LET locals == records'[Len(records)].locals
     IN  /\ Len(locals) = UserFuncs[pc]
         /\ records' = [records EXCEPT ![Len(records)].locals = locals]
  /\ pc' = pc + 1
  /\ UNCHANGED <<globals, pending, retval, outcome>>

FuncExit ==
  /\ InBody
  /\ InFunction
  /\ pending = << >>
  /\ records' = SubSeq(records, 1, Len(records) - 1)
  /\ pc' = Newest.ret
  /\ UNCHANGED <<globals, pending, retval, outcome>>

Assign(lv, rv) ==
  /\ InBody
  /\ Write(lv, ValueOf(rv))
  /\ pc' = pc + 1
  /\ UNCHANGED <<pending, outcome>>

NewTable(lv, table) ==
  /\ InBody
  /\ Write(lv, TableRef(table))
  /\ pc' = pc + 1
  /\ UNCHANGED <<pending, outcome>>

Jump ==
  /\ InBody
  /\ pc' \in BodyAddresses
  /\ UNCHANGED <<globals, records, pending, retval, outcome>>

Stop ==
  /\ Running
  /\ outcome' # "running"
  /\ UNCHANGED <<globals, records, pending, retval, pc>>

Init ==
  /\ globals = [i \in 1 .. NrProgramVars |-> Undef]
  /\ records = << >>
  /\ pending = << >>
  /\ retval  = Undef
  /\ pc      = StartAddress
  /\ outcome = "running"

Next ==
  \/ \E o \in Operands : PushArg(o) \/ CallUserFunc(o) \/ CallLibFunc(o)
  \/ \E lv \in LValues, rv \in Operands : Assign(lv, rv)
  \/ \E lv \in LValues, table \in DOMAIN Functor : NewTable(lv, table)
  \/ FuncEnter
  \/ FuncExit
  \/ Jump
  \/ Stop

Spec == Init /\ [][Next]_avars
=============================================================================
