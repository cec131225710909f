------------------------------ MODULE ExprCode ------------------------------
(***************************************************************************)
(* What the handlers of parser_manager.cpp emit for expressions: operators *)
(* on the generator, which is the vector of quads and the counter of       *)
(* hidden variables, and on the semantic values of intermediate_code/expr. *)
(* A handler's result is the generator it leaves and the value of the      *)
(* reduction.                                                              *)
(***************************************************************************)
EXTENDS Quads, Memcells, FiniteSetsExt, SequencesExt

(* Semantic values.  The place of an expression is the variable or the     *)
(* constant that holds its value; that of a table item is the variable     *)
(* that holds the table, and its index is a place too.                     *)
Var(v)    == [var |-> v]
Hidden(n) == [hidden |-> n]
Const(c)  == [const |-> c]

Expr(type, place) ==
  [type |-> type, place |-> place, index |-> None, truelist |-> {}, falselist |-> {}]

ConstExpr(c) ==
  Expr(CASE c.type = "number"  -> "CONST_NUM_E"
         [] c.type = "boolean" -> "CONST_BOOL_E"
         [] c.type = "string"  -> "CONST_STR_E"
         [] c.type = "nil"     -> "CONST_NIL_E", Const(c))

(* make_lvalue_expr: a name is a variable or a library function.           *)
LValueExpr(place) == Expr(IF "var" \in DOMAIN place THEN "VAR_E" ELSE "LIBRARY_FUNC_E", place)

IsTableItem(e) == e.type = "TABLE_ITEM_E"

(* make_table_item: the table has to be a variable.                        *)
UsableAsTable(e) == "const" \notin DOMAIN e.place
TableItem(e, index) == [Expr("TABLE_ITEM_E", e.place) EXCEPT !.index = index.place]

(* Mutant of CanParticipate: the value of an assignment is no operand.     *)
CanParticipateUnassigned(e) == e.type \in {"VAR_E", "ARITHM_E", "CONST_NUM_E"}

(* expr::can_participate_in_arithmop, which is also the test of a relop.   *)
CanParticipate(e) == e.type \in {"VAR_E", "TABLE_ITEM_E", "ARITHM_E", "ASSIGN_E", "CONST_NUM_E"}

(* expr::must_be_patched *)
MustBePatched(e) == e.truelist \cup e.falselist # {}

BothNumbers(e, f) == e.type = "CONST_NUM_E" /\ f.type = "CONST_NUM_E"

-----------------------------------------------------------------------------
With(g, e) == [gen |-> g, e |-> e]

EmitQuad(g, quad) == [g EXCEPT !.quads = Emit(@, quad)]
NewHidden(g)      == [g EXCEPT !.count = @ + 1]

(* One emit_quad after the other: the label of each is its own number.     *)
EmitQuads(g, quads) ==
  LET next == NextQuadLabel(g.quads)
  IN  [g EXCEPT !.quads = @ \o [i \in DOMAIN quads |-> [quads[i] EXCEPT !.label = next + i - 1]]]

(* A test with two incomplete jumps, on the lists of expression e.         *)
EmitTest(g, op, arg1, arg2, e) ==
  LET next == NextQuadLabel(g.quads)
  IN  With([g EXCEPT !.quads = EmitLabelled(EmitLabelled(@, Quad(op, None, arg1, arg2), 0),
                                            Jump, 0)],
           [e EXCEPT !.truelist = @ \cup {next}, !.falselist = @ \cup {next + 1}])

(* convert_expr_to_bool_e *)
ConvertToBool(g, e) ==
  IF e.type = "BOOL_E" THEN With(g, e)
  ELSE EmitTest(g, "if_eq", e.place, Const(Boolean(1)), e)

(* Mutant of PatchPossible: false falls into the jump instead.             *)
PatchPossibleShort(g, e) ==
  LET next   == NextQuadLabel(g.quads)
      place  == Hidden(g.count)
      yes    == Quad("assign", place, Const(Boolean(1)), None)
      no     == Quad("assign", place, Const(Boolean(0)), None)
      patched == PatchLabel(PatchLabel(g.quads, e.truelist, next), e.falselist, next + 1)
  IN  IF ~MustBePatched(e) THEN With(g, e)
      ELSE With([NewHidden(g) EXCEPT
                   !.quads = Emit(EmitLabelled(Emit(patched, yes), Jump, next + 3), no)],
                Expr("VAR_E", place))

(* patch_possible_sc_expr *)
PatchPossible(g, e) ==
  LET next   == NextQuadLabel(g.quads)
      place  == Hidden(g.count)
      yes    == Quad("assign", place, Const(Boolean(1)), None)
      no     == Quad("assign", place, Const(Boolean(0)), None)
      patched == PatchLabel(PatchLabel(g.quads, e.truelist, next), e.falselist, next + 2)
  IN  IF ~MustBePatched(e) THEN With(g, e)
      ELSE With([NewHidden(g) EXCEPT
                   !.quads = Emit(EmitLabelled(Emit(patched, yes), Jump, next + 3), no)],
                Expr("VAR_E", place))

(* Mutant of EmitIfTableItem: the result takes no hidden variable.         *)
EmitIfTableItemShared(g, e) ==
  IF ~IsTableItem(e) THEN With(g, e)
  ELSE With(EmitQuad(g, Quad("tablegetelem", Hidden(g.count), e.place, e.index)),
            Expr("VAR_E", Hidden(g.count)))

(* emit_iftableitem: the member of a table item goes to a hidden variable. *)
EmitIfTableItem(g, e) ==
  IF ~IsTableItem(e) THEN With(g, e)
  ELSE With(EmitQuad(NewHidden(g), Quad("tablegetelem", Hidden(g.count), e.place, e.index)),
            Expr("VAR_E", Hidden(g.count)))

-----------------------------------------------------------------------------
(* Arithmetic and comparisons (arithm_ops.cpp).  Numbers are integers; a   *)
(* quotient is cut, as the modulo of the code does with its operands.      *)

ArithmOps == {"add", "sub", "mul", "div", "mod"}
OrderOps  == {"if_less", "if_lesseq", "if_greater", "if_greatereq"}

Abs(n)     == IF n < 0 THEN -n ELSE n
Quot(m, n) == LET q == Abs(m) \div Abs(n) IN IF (m < 0) = (n < 0) THEN q ELSE -q

(* numeric_error, for an operand on the right.                             *)
NumericError(op, n) == op \in {"div", "mod"} /\ n = 0

Compute(op, m, n) ==
  CASE op = "add" -> m + n
    [] op = "sub" -> m - n
    [] op = "mul" -> m * n
    [] op = "div" -> Quot(m, n)
    [] op = "mod" -> m - n * Quot(m, n)

Compare(op, m, n) ==
  CASE op = "if_less"      -> m < n
    [] op = "if_lesseq"    -> m <= n
    [] op = "if_greater"   -> m > n
    [] op = "if_greatereq" -> m >= n
    [] op = "if_eq"        -> m = n
    [] op = "if_noteq"     -> m # n

(* handle_expr_arithmop_expr, once both operands may take part: two        *)
(* constants are folded.                                                   *)
Arithmop(g, op, l, r) ==
  IF BothNumbers(l, r)
  THEN With(g, ConstExpr(Number(Compute(op, l.place.const.value, r.place.const.value))))
  ELSE With(EmitQuad(NewHidden(g), Quad(op, Hidden(g.count), l.place, r.place)),
            Expr("ARITHM_E", Hidden(g.count)))

(* handle_expr_relop_expr *)
Relop(g, op, l, r) ==
  IF BothNumbers(l, r)
  THEN With(g, ConstExpr(Boolean(IF Compare(op, l.place.const.value, r.place.const.value)
                                 THEN 1 ELSE 0)))
  ELSE EmitTest(g, op, l.place, r.place, Expr("BOOL_E", None))

(* term -> - expr *)
Uminus(g, e) ==
  With(EmitQuad(NewHidden(g), Quad("uminus", Hidden(g.count), e.place, None)),
       Expr("ARITHM_E", Hidden(g.count)))

(* Mutant of Logical: the left operand's way out is forgotten.             *)
LogicalForgetful(g, op, l, r, next) ==
  IF op = "and"
  THEN With([g EXCEPT !.quads = PatchLabel(@, l.truelist, next)],
            [Expr("BOOL_E", None) EXCEPT !.truelist  = r.truelist,
                                         !.falselist = r.falselist])
  ELSE With([g EXCEPT !.quads = PatchLabel(@, l.falselist, next)],
            [Expr("BOOL_E", None) EXCEPT !.falselist = r.falselist,
                                         !.truelist  = r.truelist])

(* handle_expr_logicalop_expr: the left operand leads on to the right one  *)
(* where its own value does not decide.                                    *)
Logical(g, op, l, r, next) ==
  IF op = "and"
  THEN With([g EXCEPT !.quads = PatchLabel(@, l.truelist, next)],
            [Expr("BOOL_E", None) EXCEPT !.truelist  = r.truelist,
                                         !.falselist = l.falselist \cup r.falselist])
  ELSE With([g EXCEPT !.quads = PatchLabel(@, l.falselist, next)],
            [Expr("BOOL_E", None) EXCEPT !.falselist = r.falselist,
                                         !.truelist  = l.truelist \cup r.truelist])

-----------------------------------------------------------------------------
(* Assignments, increments, calls and objects.                             *)

(* assignexpr -> lvalue = expr, its right side patched: the value of the   *)
(* assignment is a copy, or the member read back.                          *)
Assignment(g, lvalue, right) ==
  LET copy   == Hidden(g.count)
      stored == EmitQuad(g, Quad("tablesetelem", right.place, lvalue.place, lvalue.index))
      back   == EmitIfTableItem(stored, lvalue)
  IN  IF IsTableItem(lvalue)
      THEN With(back.gen, [back.e EXCEPT !.type = "ASSIGN_E"])
      ELSE With(EmitQuads(NewHidden(g), <<Quad("assign", lvalue.place, right.place, None),
                                          Quad("assign", copy, lvalue.place, None)>>),
                Expr("ASSIGN_E", copy))

One == Const(Number(1))

(* handle_lvalue_postop: the value is a copy from before the change.       *)
Postop(g, op, lvalue) ==
  LET term   == Hidden(g.count)
      member == EmitIfTableItem(NewHidden(g), lvalue)
      x      == member.e.place
  IN  With(EmitQuads(member.gen,
             <<Quad("assign", term, x, None), Quad(op, x, x, One)>>
             \o IF IsTableItem(lvalue)
                THEN <<Quad("tablesetelem", x, lvalue.place, lvalue.index)>> ELSE << >>),
           Expr("VAR_E", term))

(* handle_preop_lvalue: the value is the changed member, or a copy.        *)
Preop(g, op, lvalue) ==
  LET member == EmitIfTableItem(g, lvalue)
      x      == member.e.place
      copy   == Hidden(g.count)
  IN  IF IsTableItem(lvalue)
      THEN With(EmitQuads(member.gen,
                  <<Quad(op, x, x, One), Quad("tablesetelem", x, lvalue.place, lvalue.index)>>),
                member.e)
      ELSE With(EmitQuads(NewHidden(g), <<Quad(op, x, x, One), Quad("assign", copy, x, None)>>),
                Expr("ARITHM_E", copy))

(* handle_call_rule: the function is looked up after the code of its       *)
(* arguments; params in reverse order, the call, and its result in a       *)
(* hidden variable.                                                        *)
EmitCall(g, func, args) ==
  LET callee == EmitIfTableItem(g, func)
      params == [i \in DOMAIN args |-> Quad("param", None, args[i].place, None)]
      called == EmitQuads(callee.gen,
                          Append(Reverse(params), Quad("call", None, callee.e.place, None)))
      place  == Hidden(called.count)
  IN  With(EmitQuad(NewHidden(called), Quad("getretval", place, None, None)),
           Expr("VAR_E", place))

(* call -> lvalue ..name(args): the object is the first argument.          *)
EmitMethodCall(g, lvalue, name, args) ==
  LET self   == EmitIfTableItem(g, lvalue)
      method == TableItem(self.e, ConstExpr(name))
  IN  EmitCall(self.gen, method, <<self.e>> \o args)

(* objectdef -> [ ... ]: the table is created after the code of all its    *)
(* keys and values.                                                        *)
ObjectDef(g, pairs) ==
  LET table == Hidden(g.count)
      sets  == [i \in DOMAIN pairs |->
                  Quad("tablesetelem", pairs[i].value.place, table, pairs[i].key.place)]
  IN  With(EmitQuads(NewHidden(g), <<Quad("tablecreate", None, table, None)>> \o sets),
           Expr("NEW_TABLE_E", table))

(* objectdef -> [ elist ]: the keys are the numbers from 0.                *)
Enumerated(es) == [i \in DOMAIN es |-> [key |-> ConstExpr(Number(i - 1)), value |-> es[i]]]
=============================================================================
