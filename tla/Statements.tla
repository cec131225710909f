----------------------------- MODULE Statements -----------------------------
(***************************************************************************)
(* The parser's handlers for statements (parser_manager.cpp), with the     *)
(* stacks of loop_handler.cpp that collect the jumps of break and continue *)
(* until the loop they leave is complete.                                  *)
(*                                                                         *)
(* An action is the shift of the tokens and the reductions that one piece  *)
(* of the source causes.  An expression is one quad that makes one event:  *)
(* what its quads are is the matter of ShortCircuit.  A function may be    *)
(* defined as a statement, and inside the expressions of a for statement.  *)
(***************************************************************************)
EXTENDS Quads, TargetCode, FiniteSetsExt, Flow

CONSTANT MaxTokens  \* bound of the model: pieces of source read

ASSUME StatementsAssumption == MaxTokens \in Nat

VARIABLES
  quads,      \* the quads emitted so far
  lp_handler, \* loop depths of the open functions; break and continue lists
  stack,      \* the parser's stack of open statements, top last
  tokens,     \* pieces read; the last one names the event
  outcome     \* "parsing", "compiled", or the error that stopped the parser

vars == <<quads, lp_handler, stack, tokens, outcome>>

-----------------------------------------------------------------------------
(* loop_handler: its three stacks, top last. *)

TopOf(s)       == s[Len(s)]
ReplaceTop(s, x) == [s EXCEPT ![Len(s)] = x]

NewLoopHandler == [depths |-> <<0>>, breaks |-> << >>, continues |-> << >>]

IsInLoop(h) == TopOf(h.depths) > 0

(* Mutant of EnterLoop: the depth stays. *)
EnterLoopUncounted(h) ==
  [h EXCEPT !.breaks    = Append(@, {}),
            !.continues = Append(@, {})]

EnterLoop(h) ==
  [depths    |-> ReplaceTop(h.depths, TopOf(h.depths) + 1),
   breaks    |-> Append(h.breaks, {}),
   continues |-> Append(h.continues, {})]

(* Mutant of ExitLoop: the list of continues is kept. *)
ExitLoopKeeping(h) ==
  [h EXCEPT !.depths = ReplaceTop(@, TopOf(@) - 1),
            !.breaks = Front(@)]

(* Mutant of ExitLoop: the loops around it are forgotten. *)
ExitLoopFully(h) ==
  [depths    |-> ReplaceTop(h.depths, 0),
   breaks    |-> Front(h.breaks),
   continues |-> Front(h.continues)]

ExitLoop(h) ==
  [depths    |-> ReplaceTop(h.depths, TopOf(h.depths) - 1),
   breaks    |-> Front(h.breaks),
   continues |-> Front(h.continues)]

(* Mutant of EnterFunction: the depth of the loops around it is kept.      *)
EnterFunctionInside(h) == [h EXCEPT !.depths = Append(@, TopOf(@))]

EnterFunction(h) == [h EXCEPT !.depths = Append(@, 0)]
ExitFunction(h)  == [h EXCEPT !.depths = Front(@)]

-----------------------------------------------------------------------------
(* The parser's stack.  "program", "block" and "func" hold the statements  *)
(* so far; "if", "else", "while" and "for" wait for one statement; a "for" *)
(* whose increment is still being read is "incr"; "stmt" is a statement.   *)

Top        == TopOf(stack)
Below      == stack[Len(stack) - 1]
Under(sym) == Len(stack) > 1 /\ Below.sym = sym
Popped(n)  == SubSeq(stack, 1, Len(stack) - n)

Parsing   == outcome = "parsing"
ListOpen  == Top.sym \in {"program", "block", "func"}
NeedsStmt == ListOpen \/ Top.sym \in {"if", "else", "while", "for"}

Read        == Parsing /\ tokens < MaxTokens /\ tokens' = tokens + 1
Id          == tokens + 1
Place(n)    == [event |-> n]
Stmt(f)     == [sym |-> "stmt", frag |-> f]
Push(item)  == stack' = Append(stack, item)
Reduced(n, f) == stack' = Append(Popped(n), Stmt(f))

IncompleteJump(qs) == EmitLabelled(qs, Jump, 0)
Perform(n) == Quad("assign", None, Place(n), None)
Test(n)    == Quad("if_eq", None, Place(n), None)

(* if_eq expr true, to the quad after the jump; jump 0                     *)
EmitCondition(qs, n) == IncompleteJump(EmitLabelled(qs, Test(n), NextQuadLabel(qs) + 2))

-----------------------------------------------------------------------------
(* Simple statements.                                                      *)

(* stmt -> expr ; *)
ExprStmt ==
  /\ NeedsStmt
  /\ Read
  /\ quads' = Emit(quads, Perform(Id))
  /\ Push(Stmt(Simple(Id)))
  /\ UNCHANGED <<lp_handler, outcome>>

(* stmt -> ; *)
EmptyStmt ==
  /\ NeedsStmt
  /\ Read
  /\ Push(Stmt(Empty))
  /\ UNCHANGED <<quads, lp_handler, outcome>>

(* returnstmt.  The function spaces of the scope handler are entered and   *)
(* left together with those of the loop handler.                           *)
ReturnStmt ==
  /\ NeedsStmt
  /\ Read
  /\ IF Len(lp_handler.depths) > 1
     THEN /\ quads' = Emit(quads, Quad("ret", None, Place(Id), None))
          /\ Push(Stmt(Return(Id)))
          /\ UNCHANGED <<lp_handler, outcome>>
     ELSE outcome' = "return_outside_function" /\ UNCHANGED <<quads, lp_handler, stack>>

(* Mutant of BreakStmt: the list of continues is chosen. *)
BreakStmtContinuing ==
  /\ NeedsStmt
  /\ Read
  /\ IF IsInLoop(lp_handler)
     THEN /\ lp_handler' = [lp_handler EXCEPT !.continues =
                              ReplaceTop(@, TopOf(@) \cup {NextQuadLabel(quads)})]
          /\ quads' = IncompleteJump(quads)
          /\ Push(Stmt(Leave("break")))
          /\ UNCHANGED outcome
     ELSE outcome' = "break_outside_loop" /\ UNCHANGED <<quads, lp_handler, stack>>

BreakStmt ==
  /\ NeedsStmt
  /\ Read
  /\ IF IsInLoop(lp_handler)
     THEN /\ lp_handler' = [lp_handler EXCEPT !.breaks =
                              ReplaceTop(@, TopOf(@) \cup {NextQuadLabel(quads)})]
          /\ quads' = IncompleteJump(quads)
          /\ Push(Stmt(Leave("break")))
          /\ UNCHANGED outcome
     ELSE outcome' = "break_outside_loop" /\ UNCHANGED <<quads, lp_handler, stack>>

ContinueStmt ==
  /\ NeedsStmt
  /\ Read
  /\ IF IsInLoop(lp_handler)
     THEN /\ lp_handler' = [lp_handler EXCEPT !.continues =
                              ReplaceTop(@, TopOf(@) \cup {NextQuadLabel(quads)})]
          /\ quads' = IncompleteJump(quads)
          /\ Push(Stmt(Leave("continue")))
          /\ UNCHANGED outcome
     ELSE outcome' = "continue_outside_loop" /\ UNCHANGED <<quads, lp_handler, stack>>

-----------------------------------------------------------------------------
(* Blocks and functions.                                                   *)

BlockOpen ==
  /\ NeedsStmt
  /\ Read
  /\ Push([sym |-> "block", frag |-> Empty])
  /\ UNCHANGED <<quads, lp_handler, outcome>>

(* stmts -> stmts stmt *)
StmtsStmt ==
  /\ Parsing
  /\ Top.sym = "stmt"
  /\ Below.sym \in {"program", "block", "func"}
  /\ stack' = ReplaceTop(Popped(1), [Below EXCEPT !.frag = Then(@, Top.frag)])
  /\ UNCHANGED <<quads, lp_handler, tokens, outcome>>

BlockClose ==
  /\ Parsing
  /\ Top.sym = "block"
  /\ Reduced(1, Top.frag)
  /\ UNCHANGED <<quads, lp_handler, tokens, outcome>>

(* funcprefix, funcargs and block_open; iaddress is the funcstart quad.    *)
FuncOpen ==
  /\ NeedsStmt \/ Top.sym = "incr"
  /\ Read
  /\ quads' = Emit(quads, Quad("funcstart", None, Place(Id), None))
  /\ lp_handler' = EnterFunction(lp_handler)
  /\ Push([sym |-> "func", id |-> Id, iaddress |-> NextQuadLabel(quads), frag |-> Empty])
  /\ UNCHANGED outcome

(* block_close, funcbody and funcdef. A function in an expression is done  *)
(* with when the expression is; its definition does nothing.               *)
FuncClose ==
  LET def == Function(Top.id, Top.frag)
  IN  /\ Parsing
      /\ Top.sym = "func"
      /\ quads' = Emit(quads, Quad("funcend", None, Place(Top.id), None))
      /\ lp_handler' = ExitFunction(lp_handler)
      /\ IF Below.sym = "incr"
         THEN stack' = ReplaceTop(Popped(1), [Below EXCEPT !.funcs = @ \cup def.edges])
         ELSE Reduced(1, def)
      /\ UNCHANGED <<tokens, outcome>>

-----------------------------------------------------------------------------
(* if and else.                                                            *)

IfPrefix ==
  /\ NeedsStmt
  /\ Read
  /\ quads' = EmitCondition(quads, Id)
  /\ Push([sym |-> "if", id |-> Id, ifprefix |-> NextQuadLabel(quads) + 1])
  /\ UNCHANGED <<lp_handler, outcome>>

(* Mutant of IfStmt: the way out leads to the last quad of the statement.  *)
IfStmtShort ==
  /\ Parsing
  /\ Top.sym = "stmt"
  /\ Under("if")
  /\ quads' = PatchLabel(quads, {Below.ifprefix}, NextQuadLabel(quads) - 1)
  /\ Reduced(2, Choice(Below.id, Top.frag, Empty))
  /\ UNCHANGED <<lp_handler, tokens, outcome>>

IfStmt ==
  /\ Parsing
  /\ Top.sym = "stmt"
  /\ Under("if")
  /\ quads' = PatchLabel(quads, {Below.ifprefix}, NextQuadLabel(quads))
  /\ Reduced(2, Choice(Below.id, Top.frag, Empty))
  /\ UNCHANGED <<lp_handler, tokens, outcome>>

ElsePrefix ==
  /\ Top.sym = "stmt"
  /\ Under("if")
  /\ Read
  /\ quads' = IncompleteJump(quads)
  /\ stack' = ReplaceTop(Popped(1),
       [sym |-> "else", id |-> Below.id, ifprefix |-> Below.ifprefix,
        elseprefix |-> NextQuadLabel(quads), yes |-> Top.frag])
  /\ UNCHANGED <<lp_handler, outcome>>

IfElseStmt ==
  /\ Parsing
  /\ Top.sym = "stmt"
  /\ Under("else")
  /\ quads' = PatchLabel(PatchLabel(quads, {Below.ifprefix}, Below.elseprefix + 1),
                         {Below.elseprefix}, NextQuadLabel(quads))
  /\ Reduced(2, Choice(Below.id, Below.yes, Top.frag))
  /\ UNCHANGED <<lp_handler, tokens, outcome>>

-----------------------------------------------------------------------------
(* while and for.                                                          *)

(* WHILE log_next_quad whilecond *)
WhileCond ==
  /\ NeedsStmt
  /\ Read
  /\ quads' = EmitCondition(quads, Id)
  /\ lp_handler' = EnterLoop(lp_handler)
  /\ Push([sym |-> "while", id |-> Id, first_quadno |-> NextQuadLabel(quads),
           whilecond |-> NextQuadLabel(quads) + 1])
  /\ UNCHANGED outcome

WhileStmt ==
  LET first == Below.first_quadno
      looped == EmitLabelled(quads, Jump, first)
      exit == NextQuadLabel(looped)
      left == PatchLabel(looped, {Below.whilecond} \cup TopOf(lp_handler.breaks), exit)
  IN  /\ Parsing
      /\ Top.sym = "stmt"
      /\ Under("while")
      /\ quads' = PatchLabel(left, TopOf(lp_handler.continues), first)
      /\ lp_handler' = ExitLoop(lp_handler)
      /\ Reduced(2, Loop(Below.id, Top.frag, Event(Below.id)))
      /\ UNCHANGED <<tokens, outcome>>

(* forprefix with an elist of one expression, then emit_incomplete_jmp.    *)
(* The condition is the event after the initial one.                       *)
ForPrefix ==
  LET init == Emit(quads, Perform(Id))
      cond == NextQuadLabel(init)
      test == EmitLabelled(init, Test(Id + 1), 0)
  IN  /\ NeedsStmt
      /\ Parsing
      /\ tokens + 2 < MaxTokens
      /\ tokens' = tokens + 2
      /\ quads' = IncompleteJump(test)
      /\ lp_handler' = EnterLoop(lp_handler)
      /\ Push([sym |-> "incr", id |-> Id, cond_first_quadno |-> cond, comparator_quadno |-> cond,
               exit_jmp |-> NextQuadLabel(test), funcs |-> {}])
      /\ UNCHANGED outcome

(* The increment's elist, empty or of one expression, and the jump to the  *)
(* condition.                                                              *)
ForIncrement(increments) ==
  LET incr == IF increments THEN Emit(quads, Perform(Id)) ELSE quads
  IN  /\ Top.sym = "incr"
      /\ Read
      /\ quads' = IncompleteJump(incr)
      /\ stack' = ReplaceTop(stack,
           [sym |-> "for", id |-> Top.id, cond_first_quadno |-> Top.cond_first_quadno,
            comparator_quadno |-> Top.comparator_quadno, exit_jmp |-> Top.exit_jmp,
            cond_jmp |-> NextQuadLabel(incr), funcs |-> Top.funcs,
            incr |-> IF increments THEN Simple(Id) ELSE Empty])
      /\ UNCHANGED <<lp_handler, outcome>>

(* emit_incomplete_jmp after the body, then forstmt. *)
ForStmt ==
  LET closed  == IncompleteJump(quads)
      closure == NextQuadLabel(quads)
      exit    == NextQuadLabel(closed)
      incr    == Below.exit_jmp + 1
      entered == PatchLabel(closed, {Below.comparator_quadno}, Below.cond_jmp + 1)
      left    == PatchLabel(entered, {Below.exit_jmp} \cup TopOf(lp_handler.breaks), exit)
      tested  == PatchLabel(left, {Below.cond_jmp}, Below.cond_first_quadno)
      cond    == Event(Below.id + 1)
      again   == Redirect(Below.incr, {"next"}, cond)
      loop    == Loop(Below.id + 1, Top.frag, again.entry)
  IN  /\ Parsing
      /\ Top.sym = "stmt"
      /\ Under("for")
      /\ quads' = PatchLabel(tested, {closure} \cup TopOf(lp_handler.continues), incr)
      /\ lp_handler' = ExitLoop(lp_handler)
      /\ Reduced(2, Then(Simple(Below.id),
                         Fragment(loop.entry, loop.edges \cup again.edges \cup Below.funcs)))
      /\ UNCHANGED <<tokens, outcome>>

(* program -> stmts *)
EndOfFile ==
  /\ Parsing
  /\ Len(stack) = 1
  /\ outcome' = "compiled"
  /\ UNCHANGED <<quads, lp_handler, stack, tokens>>

Init ==
  /\ quads = << >>
  /\ lp_handler = NewLoopHandler
  /\ stack = <<[sym |-> "program", frag |-> Empty]>>
  /\ tokens = 0
  /\ outcome = "parsing"

Next ==
  \/ ExprStmt \/ EmptyStmt \/ ReturnStmt \/ BreakStmt \/ ContinueStmt
  \/ BlockOpen \/ StmtsStmt \/ BlockClose \/ FuncOpen \/ FuncClose
  \/ IfPrefix \/ IfStmt \/ ElsePrefix \/ IfElseStmt
  \/ WhileCond \/ WhileStmt \/ ForPrefix \/ ForStmt
  \/ \E increments \in BOOLEAN : ForIncrement(increments)
  \/ EndOfFile

Spec == Init /\ [][Next]_vars

-----------------------------------------------------------------------------
LoopSyms == {"while", "for", "incr"}

OpenLoops == {i \in DOMAIN stack : stack[i].sym \in LoopSyms}
OpenFuncs == {i \in DOMAIN stack : stack[i].sym = "func"}

(* The loops that the d-th function has open; the first is the program.    *)
LoopsOf(d) == {i \in OpenLoops : Cardinality({f \in OpenFuncs : f < i}) = d - 1}

(* The place of an open loop's lists in the loop handler.                  *)
LoopNr(i) == Cardinality({k \in OpenLoops : k <= i})

(* The first quad of a loop or function that is open. *)
Header(item) ==
  CASE item.sym = "while"           -> item.whilecond
    [] item.sym \in {"incr", "for"} -> item.comparator_quadno
    [] item.sym = "func"            -> item.iaddress

(* The incomplete jumps that an open statement has to patch. *)
Kept(item) ==
  CASE item.sym = "if"    -> {item.ifprefix}
    [] item.sym = "else"  -> {item.ifprefix, item.elseprefix}
    [] item.sym = "while" -> {item.whilecond}
    [] item.sym = "incr"  -> {item.comparator_quadno, item.exit_jmp}
    [] item.sym = "for"   -> {item.comparator_quadno, item.exit_jmp, item.cond_jmp}
    [] OTHER              -> {}

KeptIn(keeper, lists) == UNION {{<<keeper, i, n>> : n \in lists[i]} : i \in DOMAIN lists}

(* The jumps that wait for their targets, each with the open statement or  *)
(* the list of the loop handler that it is kept in.                        *)
Keepings ==
  KeptIn("stack", [i \in DOMAIN stack |-> Kept(stack[i])])
    \cup KeptIn("breaks", lp_handler.breaks)
    \cup KeptIn("continues", lp_handler.continues)

TypeOK ==
  /\ \A q \in ToSet(quads) : q.label \in 0 .. NextQuadLabel(quads) + 1
  /\ Range(lp_handler.depths) \subseteq Nat
  /\ \A list \in Range(lp_handler.breaks \o lp_handler.continues) :
       list \subseteq 0 .. NextQuadLabel(quads) - 1
  /\ tokens \in 0 .. MaxTokens
  /\ \A i \in DOMAIN stack : stack[i].sym \in
       LoopSyms \cup {"program", "block", "func", "if", "else", "stmt"}

(* Each jump that waits for its target is kept in one place, an open       *)
(* statement or a list of the loop handler, until it is patched.  A jump   *)
(* that nobody keeps has its target; that is quad 0 only after a while     *)
(* statement at the start.                                                 *)
OneKeeperPerJump ==
  outcome = "parsing" =>
    /\ \A k \in Keepings : quads[k[3] + 1].op \in Jumps /\ quads[k[3] + 1].label = 0
    /\ \A k, l \in Keepings : k[3] = l[3] => k = l
    /\ \A n \in DOMAIN quads :
         (quads[n].op \in Jumps /\ quads[n].label = 0 /\ quads[1].op # "if_eq")
           => \E k \in Keepings : k[3] = n - 1

(* The loop handler's stacks follow the nesting of the source: for each    *)
(* open function the number of its open loops, for each open loop a pair   *)
(* of lists; and the jumps in a loop's lists come from its own body,       *)
(* neither from a loop nor from a function inside it.                      *)
LoopListsFollowNesting ==
  /\ Len(lp_handler.depths) = Cardinality(OpenFuncs) + 1
  /\ \A d \in DOMAIN lp_handler.depths : lp_handler.depths[d] = Cardinality(LoopsOf(d))
  /\ Len(lp_handler.breaks) = Cardinality(OpenLoops)
  /\ Len(lp_handler.continues) = Cardinality(OpenLoops)
  /\ \A i \in OpenLoops, j \in OpenLoops \cup OpenFuncs : j >= i =>
       \A n \in lp_handler.breaks[LoopNr(i)] \cup lp_handler.continues[LoopNr(i)] :
         IF i = j THEN n > Header(stack[i]) ELSE n < Header(stack[j])

(* What encloses the next statement, out to the function it belongs to.    *)
InnerStart == Max({i \in DOMAIN stack : stack[i].sym \in {"func", "program"}})

(* A break or continue is refused only outside of every loop of its        *)
(* function, a return only outside of every function.                      *)
OnlyStrayJumpsRefused ==
  /\ outcome \in {"break_outside_loop", "continue_outside_loop"} =>
       \A i \in InnerStart .. Len(stack) : stack[i].sym \notin LoopSyms
  /\ outcome = "return_outside_function" => OpenFuncs = {}
=============================================================================
