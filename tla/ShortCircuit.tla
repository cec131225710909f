---------------------------- MODULE ShortCircuit ----------------------------
(***************************************************************************)
(* The parser at work on one expression statement: the reductions of       *)
(* parser.y whose handlers in parser_manager.cpp build boolean expressions *)
(* by short-circuit evaluation with backpatching, together with the        *)
(* arithmetic, assignments, calls and function definitions that stand      *)
(* among them.  TableExpressions adds the reductions about tables.         *)
(*                                                                         *)
(* The parser's stack holds the semantic values; an action is a reduction  *)
(* or the shift of a token, whole handler included.  Parentheses let every *)
(* order of reductions happen, so precedence plays no part.  Each value    *)
(* carries the syntax tree it was made from: it tells what the emitted     *)
(* quads have to compute.                                                  *)
(***************************************************************************)
EXTENDS ExprCode

CONSTANTS
  Variables, \* the names of the program's variables
  Functions, \* the library functions
  Fragments  \* the parts of the grammar that sources are written in

(* A fragment has its operators, names and literals, and bounds on the     *)
(* tokens of a statement and on the elements of a list.                    *)
ASSUME ShortCircuitAssumption ==
  /\ Functions \subseteq {c \in Memcell : c.type = "libfunc"}
  /\ \A part \in Fragments :
       /\ part.names \subseteq Variables
       /\ part.functions \subseteq Functions
       /\ part.literals \subseteq {c \in Memcell : c.type \in {"number", "boolean", "string", "nil"}}
       /\ part.MaxTokens \in Nat /\ part.MaxArgs \in Nat

VARIABLES
  fragment, \* the part of the grammar that the statement is written in
  stack,    \* the parser's stack of semantic values, top last
  gen,      \* the quads emitted so far and the counter of hidden variables
  tokens,   \* tokens read, apart from parentheses, "=", ":" and what closes
  outcome,  \* "parsing", "compiled", or the error that ended it
  hazards   \* which of the situations described below have come up

vars == <<fragment, stack, gen, tokens, outcome, hazards>>

-----------------------------------------------------------------------------
(* The parser's stack.  Its symbols are expressions, prefixes such as      *)
(* and_prefix, and tokens.  A symbol holds one value (e), a list of them   *)
(* (es), key-value pairs, or nothing.                                      *)

LeafNode(place)   == [node |-> "leaf", place |-> place]
Node(op, l, r)    == [node |-> op, left |-> l, right |-> r]
Item(e, ast)      == [sym |-> "expr", e |-> e, ast |-> ast]
LValue(e, ast)    == [sym |-> "lvalue", e |-> e, ast |-> ast]
Prefix(sym, e, ast, next) == [sym |-> sym, e |-> e, ast |-> ast, next |-> next]

Top         == stack[Len(stack)]
Below       == stack[Len(stack) - 1]
BelowSym    == IF Len(stack) > 1 THEN Below.sym ELSE "bottom"
Under(sym)  == BelowSym = sym
Popped(n)   == SubSeq(stack, 1, Len(stack) - n)

Parsing     == outcome = "parsing"
TopSym      == IF stack = << >> THEN "bottom" ELSE Top.sym
Increments  == {"++", "--"}

(* What "++" and "--" stand before has to become an lvalue.                *)
HasExpr     == Parsing /\ TopSym = "expr" /\ BelowSym \notin Increments
HasCall     == Parsing /\ TopSym = "expr" /\ Top.ast.node \in {"call", "method"}
HasLValue   == Parsing /\ TopSym = "lvalue"
BareLValue  == HasLValue /\ BelowSym \notin Increments
NeedsLeaf   == Parsing /\ TopSym \notin {"expr", "lvalue", "indexed"}
NeedsExpr   == NeedsLeaf /\ TopSym \notin Increments

Has(op) == op \in fragment.ops
Read    == tokens < fragment.MaxTokens /\ tokens' = tokens + 1

(* The values on the stack, and the places they are kept in.               *)
Values(item) ==
  CASE "pairs" \in DOMAIN item -> UNION {{p.key, p.value} : p \in ToSet(item.pairs)}
    [] "es" \in DOMAIN item    -> ToSet(item.es)
    [] OTHER                   -> {}

Exprs(items) ==
  UNION {Values(item) \cup IF "e" \in DOMAIN item THEN {item.e} ELSE {} : item \in ToSet(items)}

(* The first situation that the parser gets wrong: a hidden variable that  *)
(* is handed out while a value on the stack is still kept in it.           *)
Recycles(g) ==
  \E n \in gen.count .. g.count - 1 : \E e \in Exprs(stack) : Hidden(n) \in {e.place, e.index}

(* The others: a boolean value is patched when quads were emitted after    *)
(* its own, so that its jumps lead past them.  It is the first of several  *)
(* elements of a list, the key of an element, or the index of a member of  *)
(* a member.                                                               *)
PatchedLate(g, e, situation) ==
  IF MustBePatched(e) /\ Max(e.truelist \cup e.falselist) # NextQuadLabel(g.quads) - 1
  THEN {situation} ELSE {}

BecomePatching(g, items, late) ==
  /\ gen' = g
  /\ stack' = items
  /\ hazards' = hazards \cup late \cup IF Recycles(g) THEN {"recycled"} ELSE {}
  /\ UNCHANGED fragment

Become(g, items) == BecomePatching(g, items, {})
Shift(item)      == Become(gen, Append(stack, item))

(* A handler throws; the tree that it refuses is left on top of the stack. *)
Refuse(error, n, ast) ==
  /\ outcome' = error
  /\ stack' = Append(Popped(n), [sym |-> "refused", ast |-> ast])
  /\ UNCHANGED <<fragment, gen, hazards>>

-----------------------------------------------------------------------------
(* Operands.                                                               *)

(* lvalue -> IDENTIFIER *)
Identifier(place) ==
  /\ NeedsLeaf
  /\ Read
  /\ Shift(LValue(LValueExpr(place), LeafNode(place)))
  /\ UNCHANGED outcome

(* primary -> lvalue: a member is fetched at once.                         *)
Primary ==
  LET value == EmitIfTableItem(gen, Top.e)
  IN  /\ BareLValue
      /\ Become(value.gen, Append(Popped(1), Item(value.e, Top.ast)))
      /\ UNCHANGED <<tokens, outcome>>

Constant(c) ==
  /\ NeedsExpr
  /\ Read
  /\ Shift(Item(ConstExpr(c), LeafNode(Const(c))))
  /\ UNCHANGED outcome

(* "(function() { 1; })": its quads stand where it is defined, and its     *)
(* statement resets the counter of hidden variables.                       *)
FuncDef ==
  LET func == Const(UserFunc(NextQuadLabel(gen.quads)))
      body == EmitQuads(gen, <<Quad("funcstart", None, func, None), Quad("funcend", None, func, None)>>)
  IN  /\ NeedsLeaf
      /\ Has("function")
      /\ Read
      /\ Become([body EXCEPT !.count = 0],
                Append(stack, Item(Expr("PROGRAM_FUNC_E", func), LeafNode(func))))
      /\ UNCHANGED outcome

(* The tokens that an expression follows: "not" and "-".                   *)
Unary(op) == NeedsExpr /\ Has(op) /\ Read /\ Shift([sym |-> op]) /\ UNCHANGED outcome

(* "lvalue =" *)
Assign ==
  /\ BareLValue
  /\ Has("=")
  /\ Become(gen, Append(Popped(1), [Top EXCEPT !.sym = "="]))
  /\ UNCHANGED <<tokens, outcome>>

(* What may be called: an lvalue, the result of a call, "(function ...)".  *)
Callable ==
  \/ HasLValue
  \/ HasCall
  \/ Parsing /\ TopSym = "expr" /\ Top.e.type = "PROGRAM_FUNC_E"

CallOpen ==
  /\ Callable
  /\ Has("(")
  /\ Read
  /\ Become(gen, Append(Popped(1), [sym |-> "call", e |-> Top.e, ast |-> Top.ast]))
  /\ UNCHANGED outcome

-----------------------------------------------------------------------------
(* Tokens after an expression.                                             *)

Opcode == [op \in {"+", "-", "*", "/", "%", "<", "<=", ">", ">=", "==", "!="} |->
  CASE op = "+"  -> "add"       [] op = "-"  -> "sub"         [] op = "*"  -> "mul"
    [] op = "/"  -> "div"       [] op = "%"  -> "mod"         [] op = "<"  -> "if_less"
    [] op = "<=" -> "if_lesseq" [] op = ">"  -> "if_greater"  [] op = ">=" -> "if_greatereq"
    [] op = "==" -> "if_eq"     [] op = "!=" -> "if_noteq"]

Equality == {"==", "!="}

(* "expr +" and "expr <" are only shifted. *)
Infix(op) ==
  /\ HasExpr
  /\ Has(op)
  /\ Read
  /\ Become(gen, Append(Popped(1), Prefix(op, Top.e, Top.ast, 0)))
  /\ UNCHANGED outcome

(* eq_prefix -> expr EQ, ne_prefix -> expr NE *)
EqualityPrefix(op) ==
  LET left == PatchPossible(gen, Top.e)
  IN  /\ HasExpr
      /\ Has(op)
      /\ Read
      /\ Become(left.gen, Append(Popped(1), Prefix(op, left.e, Top.ast, 0)))
      /\ UNCHANGED outcome

(* and_prefix -> expr AND, or_prefix -> expr OR, then log_next_quad.       *)
LogicalPrefix(op) ==
  LET left == ConvertToBool(gen, Top.e)
  IN  /\ HasExpr
      /\ Has(op)
      /\ Read
      /\ Become(left.gen, Append(Popped(1),
                  Prefix(op, left.e, Top.ast, NextQuadLabel(left.gen.quads))))
      /\ UNCHANGED outcome

-----------------------------------------------------------------------------
(* Reductions of operators.                                                *)

NotExpr ==
  LET operand == ConvertToBool(gen, Top.e)
      result  == [Expr("BOOL_E", None) EXCEPT !.truelist  = operand.e.falselist,
                                              !.falselist = operand.e.truelist]
  IN  /\ HasExpr
      /\ Under("not")
      /\ Become(operand.gen, Append(Popped(2), Item(result, Node("not", Top.ast, Top.ast))))
      /\ UNCHANGED <<tokens, outcome>>

MinusExpr ==
  LET result == Uminus(gen, Top.e)
      tree   == Node("uminus", Top.ast, Top.ast)
  IN  /\ HasExpr
      /\ Under("uminus")
      /\ IF CanParticipate(Top.e)
         THEN Become(result.gen, Append(Popped(2), Item(result.e, tree))) /\ UNCHANGED outcome
         ELSE Refuse("semantic_error", 2, tree)
      /\ UNCHANGED tokens

(* Operands of the wrong type throw, and so does the folding of a division *)
(* by zero; nobody turns the numeric_error of a modulo into a semantic one.*)
Arithmetic(op) ==
  LET l      == Below.e
      r      == Top.e
      tree   == Node(op, Below.ast, Top.ast)
      result == Arithmop(gen, Opcode[op], l, r)
  IN  /\ HasExpr
      /\ Under(op)
      /\ IF ~CanParticipate(l) \/ ~CanParticipate(r)
         THEN Refuse("semantic_error", 2, tree)
         ELSE IF BothNumbers(l, r) /\ NumericError(Opcode[op], r.place.const.value)
         THEN Refuse(IF op = "/" THEN "semantic_error" ELSE "numeric_error", 2, tree)
         ELSE Become(result.gen, Append(Popped(2), Item(result.e, tree))) /\ UNCHANGED outcome
      /\ UNCHANGED tokens

Comparison(op) ==
  LET tree   == Node(op, Below.ast, Top.ast)
      result == Relop(gen, Opcode[op], Below.e, Top.e)
  IN  /\ HasExpr
      /\ Under(op)
      /\ IF CanParticipate(Below.e) /\ CanParticipate(Top.e)
         THEN Become(result.gen, Append(Popped(2), Item(result.e, tree))) /\ UNCHANGED outcome
         ELSE Refuse("semantic_error", 2, tree)
      /\ UNCHANGED tokens

EqualityExpr(op) ==
  LET right  == PatchPossible(gen, Top.e)
      result == Relop(right.gen, Opcode[op], Below.e, right.e)
  IN  /\ HasExpr
      /\ Under(op)
      /\ Become(result.gen, Append(Popped(2), Item(result.e, Node(op, Below.ast, Top.ast))))
      /\ UNCHANGED <<tokens, outcome>>

LogicalExpr(op) ==
  LET right  == ConvertToBool(gen, Top.e)
      result == Logical(right.gen, op, Below.e, right.e, Below.next)
  IN  /\ HasExpr
      /\ Under(op)
      /\ Become(result.gen, Append(Popped(2), Item(result.e, Node(op, Below.ast, Top.ast))))
      /\ UNCHANGED <<tokens, outcome>>

(* assignexpr -> lvalue = expr *)
AssignExpr ==
  LET right  == PatchPossible(gen, Top.e)
      result == Assignment(right.gen, Below.e, right.e)
      tree   == Node("=", Below.ast, Top.ast)
  IN  /\ HasExpr
      /\ Under("=")
      /\ IF Below.e.type = "LIBRARY_FUNC_E"
         THEN Refuse("syntax_error", 2, tree)
         ELSE Become(result.gen, Append(Popped(2), Item(result.e, tree))) /\ UNCHANGED outcome
      /\ UNCHANGED tokens

-----------------------------------------------------------------------------
(* Lists of expressions: the arguments of a call, the elements of an       *)
(* object.                                                                 *)

Openers == {"call", "method", "object"}

(* tmp_elist -> <empty>, after the first element and a comma.              *)
Comma ==
  /\ HasExpr
  /\ BelowSym \in Openers
  /\ Has(",")
  /\ fragment.MaxArgs > 1
  /\ Read
  /\ Shift([sym |-> "tmp_elist", es |-> << >>, asts |-> << >>])
  /\ UNCHANGED outcome

(* tmp_elist -> tmp_elist , expr *)
NextElement ==
  LET arg == PatchPossible(gen, Top.e)
  IN  /\ HasExpr
      /\ Under("tmp_elist")
      /\ Len(Below.es) < fragment.MaxArgs - 1
      /\ Become(arg.gen, Append(Popped(2), [Below EXCEPT !.es   = Append(@, arg.e),
                                                         !.asts = Append(@, Top.ast)]))
      /\ UNCHANGED <<tokens, outcome>>

(* What an opener becomes when its list is closed.                         *)
Listed(opener, g, es, asts) ==
  CASE opener.sym = "call" ->
         With(EmitCall(g, opener.e, es), [node |-> "call", func |-> opener.ast, args |-> asts])
    [] opener.sym = "method" ->
         With(EmitMethodCall(g, opener.e, opener.name, es),
              [node |-> "method", self |-> opener.ast, name |-> opener.name, args |-> asts])
    [] opener.sym = "object" ->
         With(ObjectDef(g, Enumerated(es)), [node |-> "list", args |-> asts])

(* The last n symbols are the opener and its list.                         *)
CloseList(n, g, es, asts, late) ==
  LET opener == stack[Len(stack) - n + 1]
      result == Listed(opener, g, es, asts)
  IN  /\ IF opener.sym = "method" /\ ~UsableAsTable(opener.e)
         THEN Refuse("semantic_error", n, result.e)
         ELSE /\ BecomePatching(result.gen.gen, Append(Popped(n), Item(result.gen.e, result.e)), late)
              /\ UNCHANGED outcome
      /\ UNCHANGED tokens

(* elist -> <empty> *)
EmptyList == Parsing /\ TopSym \in Openers /\ CloseList(1, gen, << >>, << >>, {})

(* Mutant of OneElement: the element keeps its two lists.                  *)
OneElementUnpatched ==
  HasExpr /\ BelowSym \in Openers /\ CloseList(2, gen, <<Top.e>>, <<Top.ast>>, {})

(* elist -> expr tmp_elist, with an empty tmp_elist.                       *)
OneElement ==
  LET first == PatchPossible(gen, Top.e)
  IN  HasExpr /\ BelowSym \in Openers /\ CloseList(2, first.gen, <<first.e>>, <<Top.ast>>, {})

(* With more elements, the first is patched after all the others.          *)
MoreElements ==
  LET first == PatchPossible(gen, Below.e)
  IN  /\ Parsing
      /\ TopSym = "tmp_elist"
      /\ Top.es # << >>
      /\ CloseList(3, first.gen, <<first.e>> \o Top.es, <<Below.ast>> \o Top.asts,
                   PatchedLate(gen, Below.e, "late_argument"))

(* stmt -> expr ; *)
Semicolon ==
  LET result == PatchPossible(gen, Top.e)
  IN  /\ HasExpr
      /\ Len(stack) = 1
      /\ Become(result.gen, <<Item(result.e, Top.ast)>>)
      /\ outcome' = "compiled"
      /\ UNCHANGED tokens

-----------------------------------------------------------------------------
Init ==
  /\ fragment \in Fragments
  /\ stack   = << >>
  /\ gen     = [quads |-> << >>, count |-> 0]
  /\ tokens  = 0
  /\ outcome = "parsing"
  /\ hazards = {}

Operand ==
  \/ \E v \in fragment.names : Identifier(Var(v))
  \/ \E f \in fragment.functions : Identifier(Const(f))
  \/ \E c \in fragment.literals : Constant(c)
  \/ Primary
  \/ FuncDef

Operator ==
  \/ \E op \in {"not", "uminus"} : Unary(op)
  \/ \E op \in DOMAIN Opcode \ Equality : Infix(op)
  \/ \E op \in Equality : EqualityPrefix(op) \/ EqualityExpr(op)
  \/ \E op \in {"and", "or"} : LogicalPrefix(op) \/ LogicalExpr(op)
  \/ \E op \in {"+", "-", "*", "/", "%"} : Arithmetic(op)
  \/ \E op \in {"<", "<=", ">", ">="} : Comparison(op)
  \/ NotExpr
  \/ MinusExpr
  \/ Assign
  \/ AssignExpr

List ==
  \/ CallOpen
  \/ Comma
  \/ NextElement
  \/ EmptyList
  \/ OneElement
  \/ MoreElements

ExpressionNext == Operand \/ Operator \/ List \/ Semicolon
=============================================================================
