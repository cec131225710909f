-------------------------- MODULE TableExpressions --------------------------
(***************************************************************************)
(* The rest of the expression grammar: members of tables, methods, object  *)
(* definitions, "++" and "--", with the handlers of parser_manager.cpp for *)
(* them.  Together with ShortCircuit this is every way the parser takes    *)
(* through an expression statement.                                        *)
(***************************************************************************)
EXTENDS ShortCircuit

CONSTANT MemberNames  \* the strings that the members of tables are named by

ASSUME MemberNamesAssumption == MemberNames \subseteq {c \in Memcell : c.type = "string"}

-----------------------------------------------------------------------------
(* Members.                                                                *)

(* What may have members: an lvalue, the result of a call.                 *)
HasTable == HasLValue \/ HasCall

ItemNode(table, index) == [node |-> "item", table |-> table, index |-> index]

(* The n symbols on top are replaced by the member of e, if e is usable.   *)
BecomeItem(n, g, e, index, ast, late) ==
  /\ IF UsableAsTable(e)
     THEN /\ BecomePatching(g, Append(Popped(n), LValue(TableItem(e, index), ast)), late)
          /\ UNCHANGED outcome
     ELSE Refuse("semantic_error", n, ast)

(* member -> lvalue . id, call . id *)
Member(id) ==
  LET base == EmitIfTableItem(gen, Top.e)
  IN  /\ HasTable
      /\ Has(".")
      /\ Read
      /\ BecomeItem(1, base.gen, base.e, ConstExpr(id), ItemNode(Top.ast, LeafNode(Const(id))), {})

IndexOpen ==
  /\ HasTable
  /\ Has("index")
  /\ Read
  /\ Become(gen, Append(Popped(1), [sym |-> "index", e |-> Top.e, ast |-> Top.ast]))
  /\ UNCHANGED outcome

(* member -> lvalue [ expr ], call [ expr ]: the member that the table     *)
(* itself may be is fetched first, and then the index is patched.          *)
IndexClose ==
  LET base  == EmitIfTableItem(gen, Below.e)
      index == PatchPossible(base.gen, Top.e)
  IN  /\ HasExpr
      /\ Under("index")
      /\ BecomeItem(2, index.gen, base.e, index.e, ItemNode(Below.ast, Top.ast),
                    PatchedLate(base.gen, Top.e, "late_index"))
      /\ UNCHANGED tokens

(* "lvalue ..name(" *)
MethodOpen(name) ==
  /\ HasLValue
  /\ Has("..")
  /\ Read
  /\ Become(gen, Append(Popped(1), [sym |-> "method", e |-> Top.e, ast |-> Top.ast, name |-> name]))
  /\ UNCHANGED outcome

-----------------------------------------------------------------------------
(* Increments.                                                             *)

IncrementOp(op) == IF op = "++" THEN "add" ELSE "sub"

Increment(op) == NeedsExpr /\ Has(op) /\ Read /\ Shift([sym |-> op]) /\ UNCHANGED outcome

(* A term made of the lvalue on top; a function name is refused.           *)
Changed(n, result, ast) ==
  IF Top.e.type = "LIBRARY_FUNC_E" THEN Refuse("syntax_error", n, ast)
  ELSE Become(result.gen, Append(Popped(n), Item(result.e, ast))) /\ UNCHANGED outcome

(* term -> ++ lvalue, -- lvalue *)
PreopLValue(op) ==
  /\ HasLValue
  /\ Under(op)
  /\ Changed(2, Preop(gen, IncrementOp(op), Top.e),
             [node |-> "preop", op |-> IncrementOp(op), left |-> Top.ast])
  /\ UNCHANGED tokens

(* term -> lvalue ++, lvalue -- *)
LValuePostop(op) ==
  /\ BareLValue
  /\ Has(op)
  /\ Read
  /\ Changed(1, Postop(gen, IncrementOp(op), Top.e),
             [node |-> "postop", op |-> IncrementOp(op), left |-> Top.ast])

-----------------------------------------------------------------------------
(* Objects: "[ elist ]" is closed as the other lists are, "[ indexed ]"    *)
(* has elements "{ key : value }".                                         *)

ObjectOpen == NeedsExpr /\ Has("[") /\ Read /\ Shift([sym |-> "object"]) /\ UNCHANGED outcome

BraceOpen ==
  /\ Parsing /\ TopSym = "object"
  /\ Has("{")
  /\ Become(gen, Append(Popped(1), [sym |-> "key", pairs |-> << >>, asts |-> << >>]))
  /\ UNCHANGED <<tokens, outcome>>

Colon ==
  /\ HasExpr
  /\ Under("key")
  /\ Become(gen, Append(Popped(2), [sym |-> "value", e |-> Top.e, ast |-> Top.ast,
                                    pairs |-> Below.pairs, asts |-> Below.asts]))
  /\ UNCHANGED <<tokens, outcome>>

(* indexedelem -> { expr : expr }: the key is patched after the code of    *)
(* the value.                                                              *)
BraceClose ==
  LET key   == PatchPossible(gen, Below.e)
      value == PatchPossible(key.gen, Top.e)
  IN  /\ HasExpr
      /\ Under("value")
      /\ BecomePatching(value.gen,
            Append(Popped(2), [sym   |-> "indexed",
                               pairs |-> Append(Below.pairs, [key |-> key.e, value |-> value.e]),
                               asts  |-> Append(Below.asts, [key |-> Below.ast, value |-> Top.ast])]),
            PatchedLate(gen, Below.e, "late_key") \cup PatchedLate(key.gen, Top.e, "late_key"))
      /\ UNCHANGED <<tokens, outcome>>

(* tmp_indexed -> tmp_indexed , indexedelem *)
NextPair ==
  /\ Parsing /\ TopSym = "indexed"
  /\ Has(",")
  /\ Len(Top.pairs) < fragment.MaxArgs
  /\ Read
  /\ Become(gen, Append(Popped(1), [Top EXCEPT !.sym = "key"]))
  /\ UNCHANGED outcome

(* objectdef -> [ indexed ] *)
IndexedObject ==
  LET result == ObjectDef(gen, Top.pairs)
  IN  /\ Parsing /\ TopSym = "indexed"
      /\ Become(result.gen,
                Append(Popped(1), Item(result.e, [node |-> "indexed", pairs |-> Top.asts])))
      /\ UNCHANGED <<tokens, outcome>>

-----------------------------------------------------------------------------
TableOperator ==
  \/ \E id \in MemberNames : Member(id) \/ MethodOpen(id)
  \/ IndexOpen
  \/ IndexClose
  \/ \E op \in Increments : Increment(op) \/ PreopLValue(op) \/ LValuePostop(op)

Object ==
  \/ ObjectOpen
  \/ BraceOpen
  \/ Colon
  \/ BraceClose
  \/ NextPair
  \/ IndexedObject

Next == ExpressionNext \/ TableOperator \/ Object

Spec == Init /\ [][Next]_vars

-----------------------------------------------------------------------------
Places == {Var(v) : v \in Variables} \cup [hidden : Nat] \cup [const : Memcell] \cup {None}

(* The operands that an instruction made of the quad takes. *)
Operands(q) ==
  CASE q.op \in ArithmOps                     -> {q.result, q.arg1, q.arg2}
    [] q.op \in Jumps \ {"jump"}              -> {q.arg1, q.arg2}
    [] q.op \in {"tablegetelem", "tablesetelem"} -> {q.result, q.arg1, q.arg2}
    [] q.op \in {"assign", "uminus"}           -> {q.result, q.arg1}
    [] q.op \in {"param", "call", "tablecreate"} -> {q.arg1}
    [] q.op = "getretval"                      -> {q.result}
    [] OTHER                                   -> {}

(* Labels are quads that exist or soon will; "a BOOL_E does NOT have       *)
(* storage and is not allowed in the emitted code" (parser_manager.cpp     *)
(* 201), where every other expression has a place; an operand that has to  *)
(* be patched is a BOOL_E (the assertion of must_be_patched).              *)
TypeOK ==
  /\ fragment \in Fragments
  /\ gen.count \in Nat
  /\ \A q \in ToSet(gen.quads) : /\ q.label \in 0 .. NextQuadLabel(gen.quads) + 1
                               /\ {q.result, q.arg1, q.arg2} \subseteq Places
                               /\ None \notin Operands(q)
  /\ \A e \in Exprs(stack) : e.place \in Places /\ (e.type = "BOOL_E" <=> e.place = None)
  /\ \A item \in ToSet(stack) :
       item.sym \in {"expr", "value"} => (MustBePatched(item.e) <=> item.e.type = "BOOL_E")
  /\ tokens \in 0 .. fragment.MaxTokens
  /\ outcome \in {"parsing", "compiled", "semantic_error", "numeric_error", "syntax_error"}
  /\ hazards \subseteq {"recycled", "late_argument", "late_index", "late_key"}

(* The lists of pending jumps that the values on the stack hold.  A list   *)
(* whose expression was given on is gone from the stack.                   *)
PendingLists(items) ==
  {<<i, list>> : i \in {j \in DOMAIN items : "e" \in DOMAIN items[j]},
                 list \in {"truelist", "falselist"}}

Pending(items, at) == items[at[1]].e[at[2]]

(* Every jump without a target waits on exactly one list of one value, a   *)
(* list holds no other jumps, and when the statement is complete no jump   *)
(* is left without a target.  (truelist and falselist of expr.h, through   *)
(* every handler that takes them over, negates, merges or patches them.)   *)
EveryJumpWaits ==
  /\ \A i \in DOMAIN gen.quads :
       (gen.quads[i].op \in Jumps /\ gen.quads[i].label = 0 /\ outcome = "parsing")
         => Quantify(PendingLists(stack), LAMBDA at : i - 1 \in Pending(stack, at)) = 1
  /\ \A at \in PendingLists(stack) : \A n \in Pending(stack, at) :
       outcome = "parsing" => gen.quads[n + 1].label = 0
  /\ outcome = "compiled" => \A q \in ToSet(gen.quads) : q.op \in Jumps => q.label # 0

DefinesFunction == \E q \in ToSet(gen.quads) : q.op = "funcstart"

(* While no function is defined inside the statement, a hidden variable    *)
(* that a value is kept in is not handed out again, and no member is       *)
(* fetched into the variable that holds its own table: the assignment of   *)
(* execute_tablegetelem (tables.cpp 45) first gives up what its target     *)
(* holds, which may be the last reference to the table it reads from.      *)
HiddenVariablesStay ==
  ~DefinesFunction =>
    /\ "recycled" \notin hazards
    /\ \A q \in ToSet(gen.quads) : q.op = "tablegetelem" => q.result # q.arg1
=============================================================================
