------------------------- MODULE ExpressionMeaning -------------------------
(***************************************************************************)
(* What the code of an expression statement computes, and what it should.  *)
(* Run executes the quads that the parser emits; Eval computes the         *)
(* statement from its syntax tree.  The two must agree on the variables    *)
(* and the tables, on the calls made and their arguments, on whether the   *)
(* program is stopped by a runtime error, and on the value.                *)
(***************************************************************************)
EXTENDS TableExpressions

CONSTANTS
  InitialValues, \* what a variable may hold before the statement
  InitialTables  \* the tables it may refer to: a sequence of functions

ASSUME MeaningAssumption ==
  /\ InitialValues \subseteq Memcell
  /\ \A cell \in InitialValues : cell.type = "table" => cell.value \in DOMAIN InitialTables
  /\ \A table \in Range(InitialTables) : DOMAIN table \subseteq Memcell \ {Undef}

-----------------------------------------------------------------------------
(* The memory that quads and expressions work on: variables, tables, the   *)
(* register retval and the calls made so far.  Library functions return    *)
(* their first argument, or nil; a user function of an expression returns  *)
(* nothing, which leaves retval as it is (generate_FUNCEND, functions.cpp  *)
(* 76).                                                                    *)

Memory(store) ==
  [store |-> store, tables |-> InitialTables, retval |-> Undef, calls |-> << >>, failed |-> FALSE]

Fail(s) == [s EXCEPT !.failed = TRUE]

Value(s, place) ==
  IF "const" \in DOMAIN place THEN place.const
  ELSE IF place \in DOMAIN s.store THEN s.store[place] ELSE Undef

Set(s, place, cell) == [s EXCEPT !.store = (place :> cell) @@ @]

Entry(tables, ref, key) ==
  IF key \in DOMAIN tables[ref.value] THEN tables[ref.value][key] ELSE Nil

(* Table::set_elem *)
Update(table, key, cell) ==
  IF key = Undef THEN table
  ELSE IF cell = Nil THEN Restrict(table, DOMAIN table \ {key})
  ELSE (key :> cell) @@ table

(* execute_tablesetelem *)
Put(s, ref, key, cell) ==
  IF ref.type # "table" THEN Fail(s)
  ELSE [s EXCEPT !.tables[ref.value] = Update(@, key, cell)]

(* execute_newtable *)
Create(s, place) ==
  [Set(s, place, TableRef(Len(s.tables) + 1)) EXCEPT !.tables = Append(@, << >>)]

Functor == String(0)

(* execute_call: a table is called through its member "()". *)
Callee(s, func) ==
  LET member == Entry(s.tables, func, Functor)
  IN  IF func.type = "table" /\ member.type \in {"userfunc", "libfunc"} THEN member ELSE func

Returned(args) == IF args = << >> THEN Nil ELSE Head(args)

CallOf(s, func, args) ==
  LET callee == Callee(s, func)
      called == [s EXCEPT !.calls = Append(@, [func |-> callee, args |-> args])]
  IN  CASE callee.type = "libfunc"  -> [called EXCEPT !.retval = Returned(args)]
        [] callee.type = "userfunc" -> called
        [] OTHER                    -> Fail(s)

Truth(cell)      == PromoteToBool(cell, -1)
NotNumbers(a, b) == a.type # "number" \/ b.type # "number"

ArithmFails(op, a, b) == NotNumbers(a, b) \/ NumericError(op, b.value)
Arithm(op, a, b)      == Number(Compute(op, a.value, b.value))

Negated(cell) == Number(-cell.value)

(* Comparisons for equality take every type, those for order numbers only. *)
TestFails(op, a, b) == IF op \in OrderOps THEN NotNumbers(a, b) ELSE EqualityFails(a, b)
Test(op, a, b) ==
  CASE op = "if_eq"    -> Equal(a, b, -1)
    [] op = "if_noteq" -> ~Equal(a, b, -1)
    [] OTHER           -> Compare(op, a.value, b.value)

-----------------------------------------------------------------------------
(* What the quads do, by the instructions the target code makes of them    *)
(* (dispatcher/arithmetic.cpp, relational.cpp, tables.cpp, functions.cpp). *)

FuncEndOf(quads, start) == SelectInSubSeq(quads, start, Len(quads), LAMBDA q : q.op = "funcend")

Step(quads, m) ==
  LET q     == quads[m.pc + 1]
      s     == m.s
      a     == Value(s, q.arg1)
      b     == Value(s, q.arg2)
      goto(pc) == [m EXCEPT !.pc = pc]
      next(to) == [m EXCEPT !.pc = @ + 1, !.s = to]
      fail     == [m EXCEPT !.s = Fail(s)]
  IN  IF s.failed \/ m.pc >= Len(quads) THEN m
      ELSE CASE q.op = "assign"    -> next(Set(s, q.result, a))
             [] q.op \in ArithmOps -> IF ArithmFails(q.op, a, b) THEN fail
                                      ELSE next(Set(s, q.result, Arithm(q.op, a, b)))
             [] q.op = "uminus"    -> IF a.type # "number" THEN fail
                                      ELSE next(Set(s, q.result, Negated(a)))
             [] q.op = "jump"      -> goto(q.label)
             [] q.op \in Jumps     -> IF TestFails(q.op, a, b) THEN fail
                                      ELSE goto(IF Test(q.op, a, b) THEN q.label ELSE m.pc + 1)
             [] q.op = "param"     -> [next(s) EXCEPT !.params = <<a>> \o @]
             [] q.op = "call"      -> [next(CallOf(s, a, m.params)) EXCEPT !.params = << >>]
             [] q.op = "getretval" -> next(Set(s, q.result, s.retval))
             [] q.op = "funcstart" -> goto(FuncEndOf(quads, m.pc + 1))
             [] q.op = "tablecreate"  -> next(Create(s, q.arg1))
             [] q.op = "tablegetelem" -> IF a.type # "table" THEN fail
                                         ELSE next(Set(s, q.result, Entry(s.tables, a, b)))
             [] q.op = "tablesetelem" -> next(Put(s, a, b, Value(s, q.result)))

(* The quads of an expression only jump forward. *)
Run(quads, store) ==
  FoldLeft(LAMBDA m, i : Step(quads, m), [pc |-> 0, s |-> Memory(store), params |-> << >>],
           [i \in DOMAIN quads |-> i]).s

-----------------------------------------------------------------------------
(* What an expression means.  Eval yields the memory and the place of the  *)
(* value, Refer those of an lvalue, which may be a member not fetched yet. *)
(* A variable that is an operand is read when the operation is applied, as *)
(* the places of expr.h say; a function to call or the table of a member   *)
(* that is a member itself is fetched after the arguments or the index;    *)
(* "and" and "or" leave out the right operand when the left one decides.   *)

Yields(s, place)    == [s |-> s, place |-> place, index |-> None]
YieldsCell(s, cell) == Yields(s, Const(cell))
Fails(s)            == YieldsCell(Fail(s), Nil)
Logic(s, b)         == YieldsCell(s, Boolean(IF b THEN 1 ELSE 0))
Cell(s, r)          == Value(s, r.place)

(* What a reference stands for in the memory s.                            *)
Fetch(s, r) ==
  IF s.failed THEN Fails(s)
  ELSE IF r.index = None THEN Yields(s, r.place)
  ELSE IF Cell(s, r).type # "table" THEN Fails(s)
  ELSE YieldsCell(s, Entry(s.tables, Cell(s, r), Value(s, r.index)))

(* The assignment of a cell to a reference.                                *)
Store(s, r, cell) ==
  IF s.failed THEN s
  ELSE IF r.index = None THEN Set(s, r.place, cell)
  ELSE Put(s, Cell(s, r), Value(s, r.index), cell)

Computed(s, op, a, b) ==
  IF s.failed THEN Fails(s)
  ELSE IF op \in ArithmOps
  THEN IF ArithmFails(op, a, b) THEN Fails(s) ELSE YieldsCell(s, Arithm(op, a, b))
  ELSE IF TestFails(op, a, b) THEN Fails(s) ELSE Logic(s, Test(op, a, b))

(* A value as a condition.                                                 *)
Condition(s, r) ==
  IF s.failed \/ Cell(s, r) = Undef THEN Fails(s) ELSE Logic(s, Truth(Cell(s, r)))

IsTrue(r) == ~r.s.failed /\ r.place = Const(Boolean(1))

RECURSIVE Eval(_, _), Refer(_, _)

Refer(ast, s) ==
  LET table == Refer(ast.table, s)
      index == Eval(ast.index, table.s)
  IN  IF ast.node = "item" THEN [Fetch(index.s, table) EXCEPT !.index = index.place]
      ELSE Eval(ast, s)

(* A list of expressions, from left to right; Cells are their values after *)
(* all of them.                                                            *)
EvalAll(asts, s) ==
  FoldLeft(LAMBDA done, ast : LET r == Eval(ast, done.s)
                              IN  [s |-> r.s, places |-> Append(done.places, r.place)],
           [s |-> s, places |-> << >>], asts)

Cells(s, places) == [i \in DOMAIN places |-> Value(s, places[i])]

EvalBinary(op, ast, s) ==
  LET left  == Eval(ast.left, s)
      right == Eval(ast.right, left.s)
  IN  Computed(right.s, op, Cell(right.s, left), Cell(right.s, right))

EvalMinus(ast, s) ==
  LET r == Eval(ast.left, s)
  IN  Computed(r.s, "sub", Number(0), Cell(r.s, r))

EvalNot(ast, s) ==
  LET r         == Eval(ast.left, s)
      condition == Condition(r.s, r)
  IN  IF condition.s.failed THEN condition ELSE Logic(r.s, ~IsTrue(condition))

EvalLogical(ast, s) ==
  LET l     == Eval(ast.left, s)
      left  == Condition(l.s, l)
      right == Eval(ast.right, left.s)
  IN  IF left.s.failed \/ (ast.node = "and") # IsTrue(left) THEN left ELSE Condition(right.s, right)

(* The value of an assignment is what its target holds then.               *)
EvalAssign(ast, s) ==
  LET target == Refer(ast.left, s)
      right  == Eval(ast.right, target.s)
      stored == Fetch(Store(right.s, target, Cell(right.s, right)), target)
  IN  YieldsCell(stored.s, Cell(stored.s, stored))

EvalIncrement(ast, s) ==
  LET target == Refer(ast.left, s)
      old    == Fetch(target.s, target)
      before == Cell(old.s, old)
      new    == Computed(old.s, ast.op, before, Number(1))
      after  == Cell(new.s, new)
  IN  YieldsCell(Store(new.s, target, after), IF ast.node = "preop" THEN after ELSE before)

Apply(s, func, args) ==
  LET callee == Fetch(s, func)
      called == CallOf(s, Cell(s, callee), args)
  IN  IF callee.s.failed THEN callee ELSE YieldsCell(called, called.retval)

EvalCall(ast, s) ==
  LET func == Refer(ast.func, s)
      args == EvalAll(ast.args, func.s)
  IN  Apply(args.s, func, Cells(args.s, args.places))

(* A method gets its table as the first argument.                          *)
EvalMethod(ast, s) ==
  LET object == Refer(ast.self, s)
      args   == EvalAll(ast.args, object.s)
      self   == Fetch(args.s, object)
  IN  Apply(self.s, [self EXCEPT !.index = Const(ast.name)],
            Cells(self.s, <<self.place>> \o args.places))

(* A new table with these entries, made when all of them are known.        *)
EvalObject(s, keys, values) ==
  LET ref  == TableRef(Len(s.tables) + 1)
      made == [s EXCEPT !.tables = Append(@, << >>)]
  IN  IF s.failed THEN Fails(s)
      ELSE YieldsCell(FoldLeft(LAMBDA t, i : Put(t, ref, keys[i], values[i]), made,
                               [i \in DOMAIN keys |-> i]), ref)

EvalList(ast, s) ==
  LET args == EvalAll(ast.args, s)
  IN  EvalObject(args.s, [i \in DOMAIN ast.args |-> Number(i - 1)], Cells(args.s, args.places))

EvalIndexed(ast, s) ==
  LET all   == EvalAll(FlattenSeq([i \in DOMAIN ast.pairs |->
                                     <<ast.pairs[i].key, ast.pairs[i].value>>]), s)
      cells == Cells(all.s, all.places)
  IN  EvalObject(all.s, [i \in DOMAIN ast.pairs |-> cells[2 * i - 1]],
                        [i \in DOMAIN ast.pairs |-> cells[2 * i]])

Eval(ast, s) ==
  CASE ast.node = "leaf"               -> Yields(s, ast.place)
    [] ast.node = "item"               -> LET r == Refer(ast, s) IN Fetch(r.s, r)
    [] ast.node = "not"                -> EvalNot(ast, s)
    [] ast.node = "uminus"             -> EvalMinus(ast, s)
    [] ast.node \in DOMAIN Opcode      -> EvalBinary(Opcode[ast.node], ast, s)
    [] ast.node \in {"and", "or"}      -> EvalLogical(ast, s)
    [] ast.node = "="                  -> EvalAssign(ast, s)
    [] ast.node \in {"preop", "postop"} -> EvalIncrement(ast, s)
    [] ast.node = "call"               -> EvalCall(ast, s)
    [] ast.node = "method"             -> EvalMethod(ast, s)
    [] ast.node = "list"               -> EvalList(ast, s)
    [] ast.node = "indexed"            -> EvalIndexed(ast, s)

-----------------------------------------------------------------------------
Stores == [{Var(v) : v \in fragment.names} -> InitialValues]

(* A program that is stopped has no value any more; what it printed before *)
(* is all that is left of it.                                              *)
SameOutcome(m, r) ==
  /\ m.failed = r.s.failed
  /\ m.calls = r.s.calls
  /\ \A v \in fragment.names : m.store[Var(v)] = r.s.store[Var(v)]
  /\ m.tables = r.s.tables
  /\ ~m.failed => Value(m, Top.e.place) = Cell(r.s, r)

Faithful == \A store \in Stores :
  SameOutcome(Run(gen.quads, store), Eval(Top.ast, Memory(store)))

(* The code of an expression statement does what the expression says, for  *)
(* every value of its variables, unless a value was patched late or a      *)
(* hidden variable handed out twice, which the parser gets wrong.          *)
CompiledFaithfully == outcome = "compiled" /\ hazards = {} => Faithful

(* What the parser refuses because of the types of constants, comparisons, *)
(* functions or objects, or because a constant divisor is zero, would have *)
(* failed when it is executed: no program that could run is lost.          *)
OnlyFailingRefused ==
  outcome \in {"semantic_error", "numeric_error"} =>
    \A store \in Stores : Eval(Top.ast, Memory(store)).s.failed

(* A first argument that is a boolean expression is no exception: its true *)
(* and false actions "can be defined by backpatching these quads"          *)
(* (convert_expr_to_bool_e, parser_manager.cpp 325).                       *)
FirstArgumentIsPatched == outcome = "compiled" /\ hazards \subseteq {"late_argument"} => Faithful
=============================================================================
