------------------------------- MODULE Scopes -------------------------------
(***************************************************************************)
(* How the parser gives names a meaning and variables a place: the symbol  *)
(* table (symbol_table.cpp), scopes and scope spaces (scope_handler.cpp),  *)
(* the stack of open functions (Func_handler.cpp), hidden variables        *)
(* (hidden_var_handler.cpp), and the handlers of identifiers, blocks and   *)
(* functions in parser_manager.cpp that use them.                          *)
(*                                                                         *)
(* The symbol table is the sequence of all entries in the order they were  *)
(* inserted; an entry stays when its scope is left and is hidden.  The     *)
(* field `home' of a variable is history: the function it belongs to, or 0 *)
(* for the program.                                                        *)
(***************************************************************************)
EXTENDS Integers, Sequences, FiniteSetsExt, SequencesExt

CONSTANTS
  Ids,        \* the identifiers of the source
  LibFuncs,   \* those that name library functions, LIB_FUNC_NAMES
  MaxEntries, \* bound of the model: symbol table entries made by the source
  MaxScope,   \* bound of the model: depth of blocks
  MaxHidden,  \* bound of the model: names of hidden variables
  MaxFormals  \* bound of the model: formal arguments of a function

ASSUME ScopesAssumption ==
  /\ LibFuncs \in Seq(Ids)
  /\ \A i, j \in DOMAIN LibFuncs : LibFuncs[i] = LibFuncs[j] => i = j
  /\ {MaxEntries, MaxScope, MaxHidden, MaxFormals} \subseteq Nat

VARIABLES
  sym_table,   \* the entries
  scp_handler, \* scope, scope spaces, their offsets, scopes of functions
  func_handler, \* the open functions, as entries of the table
  open,        \* the parser's stack: for an open block 0, for the open body
               \* of a function its entry; innermost last
  found,       \* the entry that the lvalue or hidden variable just read is, or 0
  outcome      \* "parsing", "compiled" or what stopped the parser

vars == <<sym_table, scp_handler, func_handler, open, found, outcome>>

GLOBAL_SCOPE == 0

HiddenId(n)  == <<"_t", n>>
GenericId(n) == <<"_gfunc", n>>
NoName       == << >>

HiddenNumbers == 0 .. MaxHidden - 1
GenericNames  == {GenericId(n) : n \in Len(LibFuncs) .. Len(LibFuncs) + MaxEntries}

(* An identifier begins with a letter (alpha_flex.l 42), the names that    *)
(* the parser makes up begin with an underscore.                           *)
ASSUME IdsAssumption ==
  Ids \cap ({NoName} \cup {HiddenId(n) : n \in HiddenNumbers} \cup GenericNames) = {}

-----------------------------------------------------------------------------
(* scope_handler                                                           *)

ScopeHandler ==
  [scope |-> GLOBAL_SCOPE, ss_stack |-> <<"PROGRAM_SS">>, ss_offset_stack |-> <<0>>,
   func_scope_stack |-> << >>]

CurrentSS(h)   == Last(h.ss_stack)
NextOffset(h)  == Last(h.ss_offset_stack)
IncreaseScope(h) == [h EXCEPT !.scope = @ + 1]
DecreaseScope(h) == [h EXCEPT !.scope = @ - 1]

ActiveFunctionScope(h) ==
  IF h.func_scope_stack = << >> THEN GLOBAL_SCOPE ELSE Last(h.func_scope_stack)

(* fetch_and_incr_cur_ssoffset, n times *)
IncrOffset(h, n) == [h EXCEPT !.ss_offset_stack = Append(Front(@), Last(@) + n)]

EnterSS(h, ss) ==
  [h EXCEPT !.ss_stack = Append(@, ss), !.ss_offset_stack = Append(@, 0)]

(* Mutant of LeaveSS: the offset of the space that is left stays.          *)
LeaveSSOffsetKept(h) == [h EXCEPT !.ss_stack = Front(@)]

LeaveSS(h) ==
  [h EXCEPT !.ss_stack = Front(@), !.ss_offset_stack = Front(@)]

EnterFunctionSS(h) ==
  [EnterSS(h, "FUNCTION_LOCALS_SS") EXCEPT !.func_scope_stack = Append(@, h.scope)]

(* Mutant of ExitFunctionSS: the function's scope stays the active one.    *)
ExitFunctionSSActive(h) == LeaveSS(h)

(* Mutant of ExitFunctionSS: the scope that the body's block has left is   *)
(* left again.                                                             *)
ExitFunctionSSDecreasing(h) ==
  [DecreaseScope(LeaveSS(h)) EXCEPT !.func_scope_stack = Front(@)]

ExitFunctionSS(h) == [LeaveSS(h) EXCEPT !.func_scope_stack = Front(@)]

-----------------------------------------------------------------------------
(* symbol_table                                                            *)

VarEntry(scope, name, type, ss, offset, home) ==
  [scope |-> scope, name |-> name, visible |-> TRUE,
   type |-> IF scope = GLOBAL_SCOPE THEN "GLOBAL" ELSE type,
   ss |-> ss, offset |-> offset, home |-> home]

(* total_locals is set when the function is complete.                      *)
FuncEntry(scope, name, type) ==
  [scope |-> scope, name |-> name, visible |-> TRUE, type |-> type,
   total_locals |-> 0]

IsFunc(e) == e.type \in {"USER_FUNC", "LIB_FUNC"}

(* lookup: the visible entries of a name in one scope.                     *)
Lookup(table, name, scope) ==
  {i \in DOMAIN table : table[i].name = name /\ table[i].scope = scope /\ table[i].visible}

(* recursive_lookup: in a scope and all those around it.                   *)
RecursiveLookup(table, name, scope) ==
  UNION {Lookup(table, name, s) : s \in GLOBAL_SCOPE .. scope}

(* Mutant of Accessible: a function's own scope counts as inside it.       *)
AccessibleAround(e, scope, active) == scope >= active \/ scope = GLOBAL_SCOPE \/ IsFunc(e)

(* What exists_accessible_symbol demands of the innermost entry.           *)
Accessible(e, scope, active) == scope > active \/ scope = GLOBAL_SCOPE \/ IsFunc(e)

(* hide *)
Hide(table, scope) ==
  [i \in DOMAIN table |-> IF table[i].scope = scope THEN [table[i] EXCEPT !.visible = FALSE]
                                                    ELSE table[i]]

(* LIB_FUNC entries with a name, of those a lookup in scope 0 yields.      *)
ShadowsLibFunc(table, name) ==
  \E i \in Lookup(table, name, GLOBAL_SCOPE) : table[i].type = "LIB_FUNC"

-----------------------------------------------------------------------------
Home    == IF func_handler = << >> THEN 0 ELSE Last(func_handler)
Scope   == scp_handler.scope
Parsing == outcome = "parsing"
Room(n) == Len(sym_table) + n <= Len(LibFuncs) + MaxEntries

Stop(error) ==
  /\ outcome' = error
  /\ found' = 0
  /\ UNCHANGED <<sym_table, scp_handler, func_handler, open>>

(* A new variable in the current scope and scope space.  insert throws     *)
(* when the name is taken.                                                 *)
NewVar(name) ==
  IF Lookup(sym_table, name, Scope) # {} THEN Stop("runtime_error")
  ELSE /\ sym_table' = Append(sym_table, VarEntry(Scope, name, "LOCAL", CurrentSS(scp_handler),
                                                  NextOffset(scp_handler), Home))
       /\ scp_handler' = IncrOffset(scp_handler, 1)
       /\ found' = Len(sym_table) + 1
       /\ UNCHANGED <<func_handler, open, outcome>>

Refer(i) ==
  /\ found' = i
  /\ UNCHANGED <<sym_table, scp_handler, func_handler, open, outcome>>

(* The one entry that is there; more than one fails an assertion.          *)
ReferToOnly(entries) ==
  IF Cardinality(entries) = 1 THEN Refer(Max(entries)) ELSE Stop("assertion")

(* lvalue -> IDENTIFIER *)
Identifier(id) ==
  LET all_entries == RecursiveLookup(sym_table, id, Scope)
      key_scope   == Max({sym_table[i].scope : i \in all_entries})
      found_entry == Min(Lookup(sym_table, id, key_scope))
  IN  /\ Parsing
      /\ Room(1)
      /\ IF all_entries = {} THEN NewVar(id)
         ELSE IF Accessible(sym_table[found_entry], key_scope, ActiveFunctionScope(scp_handler))
              THEN Refer(found_entry) ELSE Stop("syntax_error")

(* lvalue -> LOCAL IDENTIFIER *)
LocalIdentifier(id) ==
  LET scope_entries == Lookup(sym_table, id, Scope)
  IN  /\ Parsing
      /\ Room(1)
      /\ IF scope_entries # {} THEN ReferToOnly(scope_entries)
         ELSE IF ShadowsLibFunc(sym_table, id) THEN Stop("syntax_error") ELSE NewVar(id)

(* lvalue -> DOUBLE_COLON IDENTIFIER *)
GlobalIdentifier(id) ==
  LET global_entries == Lookup(sym_table, id, GLOBAL_SCOPE)
  IN  /\ Parsing
      /\ IF global_entries = {} THEN Stop("syntax_error") ELSE ReferToOnly(global_entries)

(* Mutant of MakeNew: a hidden variable of an enclosing function will do.  *)
MakeNewAnywhere(n) ==
  LET entries == RecursiveLookup(sym_table, HiddenId(n), Scope)
  IN  /\ Parsing
      /\ Room(1)
      /\ IF entries = {} THEN NewVar(HiddenId(n)) ELSE Refer(Max(entries))

(* hidden_var_handler::make_new, called by the handlers of expressions.    *)
(* Its counter, which names the variable, is the matter of ShortCircuit;   *)
(* it starts again with every statement, so here it may stand anywhere.    *)
MakeNew(n) ==
  LET local_entries == Lookup(sym_table, HiddenId(n), Scope)
  IN  /\ Parsing
      /\ Room(1)
      /\ IF local_entries = {} THEN NewVar(HiddenId(n)) ELSE ReferToOnly(local_entries)

(* block_open *)
BlockOpen ==
  /\ Parsing
  /\ Scope < MaxScope
  /\ scp_handler' = IncreaseScope(scp_handler)
  /\ open' = Append(open, 0)
  /\ found' = 0
  /\ UNCHANGED <<sym_table, func_handler, outcome>>

(* Mutant of LeaveBlock: the block's names stay visible.                   *)
LeaveBlockVisible(table, h) == [table |-> table, h |-> DecreaseScope(h)]

(* block_close and block: decrease_scope, then hide of the scope left.     *)
LeaveBlock(table, h) == [table |-> Hide(table, h.scope), h |-> DecreaseScope(h)]

BlockClose ==
  LET left == LeaveBlock(sym_table, scp_handler)
  IN  /\ Parsing
      /\ open # << >>
      /\ Last(open) = 0
      /\ sym_table' = left.table
      /\ scp_handler' = left.h
      /\ open' = Front(open)
      /\ found' = 0
      /\ UNCHANGED <<func_handler, outcome>>

-----------------------------------------------------------------------------
(* Functions.                                                              *)

(* funcprefix: the scope of the formals. *)
FuncPrefix(h) == IncreaseScope(EnterSS(h, "FORMAL_ARGUMENTS_SS"))

(* funcargs *)
FuncArgs(h) == EnterFunctionSS(DecreaseScope(LeaveSS(h)))

(* What lets the loop of idlist run to its end. *)
LegalFormals(ids) ==
  /\ IsInjective(ids)
  /\ \A id \in ToSet(ids) : /\ Lookup(sym_table, id, Scope + 1) = {}
                            /\ ~ShadowsLibFunc(sym_table, id)

(* The entries that the loop inserts, for the function whose entry is home. *)
Formals(h, ids, home) ==
  [k \in DOMAIN ids |-> VarEntry(h.scope, ids[k], "FORMAL_ARG", CurrentSS(h),
                                NextOffset(h) + k - 1, home)]

(* funcprefix, idlist, funcargs and the body's block_open; nothing else    *)
(* can stand between them.  A function without a name is given one.        *)
FuncOpen(name, ids) ==
  LET home   == Len(sym_table) + 1
      prefix == FuncPrefix(scp_handler)
  IN  /\ Parsing
      /\ Room(1 + Len(ids))
      /\ Scope < MaxScope
      /\ IF \/ Lookup(sym_table, name, Scope) # {} \/ ShadowsLibFunc(sym_table, name)
            \/ ~LegalFormals(ids)
         THEN Stop("syntax_error")
         ELSE /\ sym_table' = Append(sym_table, FuncEntry(Scope, name, "USER_FUNC"))
                                 \o Formals(prefix, ids, home)
              /\ scp_handler' = IncreaseScope(FuncArgs(IncrOffset(prefix, Len(ids))))
              /\ func_handler' = Append(func_handler, home)
              /\ open' = Append(open, home)
              /\ found' = 0
              /\ UNCHANGED outcome

(* Mutant of FuncClose: the function is given the totals of its caller.    *)
FuncCloseLate ==
  LET left  == LeaveBlock(sym_table, scp_handler)
      outer == ExitFunctionSS(left.h)
  IN  /\ Parsing
      /\ open # << >>
      /\ Last(open) # 0
      /\ sym_table' = [left.table EXCEPT ![Last(open)].total_locals = NextOffset(outer)]
      /\ scp_handler' = outer
      /\ func_handler' = Front(func_handler)
      /\ open' = Front(open)
      /\ found' = 0
      /\ UNCHANGED outcome

(* The body's block_close and block, then funcbody and funcdef.            *)
FuncClose ==
  LET left == LeaveBlock(sym_table, scp_handler)
  IN  /\ Parsing
      /\ open # << >>
      /\ Last(open) # 0
      /\ sym_table' = [left.table EXCEPT ![Last(open)].total_locals = NextOffset(left.h)]
      /\ scp_handler' = ExitFunctionSS(left.h)
      /\ func_handler' = Front(func_handler)
      /\ open' = Front(open)
      /\ found' = 0
      /\ UNCHANGED outcome

(* returnstmt.  That the function has a value is noted in its entry, where *)
(* nobody reads it.                                                        *)
ReturnStmt ==
  /\ Parsing
  /\ IF CurrentSS(scp_handler) # "FUNCTION_LOCALS_SS" THEN Stop("syntax_error") ELSE Refer(0)

(* program -> stmts, and get_total_program_vars.                           *)
EndOfFile ==
  /\ Parsing
  /\ open = << >>
  /\ Stop(IF CurrentSS(scp_handler) = "PROGRAM_SS" THEN "compiled" ELSE "assertion")

LibEntry(id) == FuncEntry(GLOBAL_SCOPE, id, "LIB_FUNC")

Init ==
  /\ sym_table = [i \in DOMAIN LibFuncs |-> LibEntry(LibFuncs[i])]
  /\ scp_handler = ScopeHandler
  /\ func_handler = << >>
  /\ open = << >>
  /\ found = 0
  /\ outcome = "parsing"

IdLists == UNION {[1 .. n -> Ids] : n \in 0 .. MaxFormals}

Next ==
  \/ \E id \in Ids : Identifier(id) \/ LocalIdentifier(id) \/ GlobalIdentifier(id)
  \/ \E n \in HiddenNumbers : MakeNew(n)
  \/ BlockOpen \/ BlockClose
  \/ \E ids \in IdLists : \/ \E id \in Ids : FuncOpen(id, ids)
                          \/ FuncOpen(GenericId(Len(sym_table)), ids)
  \/ FuncClose
  \/ ReturnStmt
  \/ EndOfFile

Spec == Init /\ [][Next]_vars

-----------------------------------------------------------------------------
Names == Ids \cup {HiddenId(n) : n \in HiddenNumbers}

ScopeSpaces == {"PROGRAM_SS", "FUNCTION_LOCALS_SS", "FORMAL_ARGUMENTS_SS"}

Entries ==
       [scope : Nat, name : Names \cup GenericNames, visible : BOOLEAN, type : {"GLOBAL", "LOCAL", "FORMAL_ARG"},
        ss : ScopeSpaces, offset : Nat, home : Nat]
  \cup [scope : Nat, name : Names \cup GenericNames, visible : BOOLEAN, type : {"USER_FUNC", "LIB_FUNC"},
        total_locals : Nat]

TypeOK ==
  /\ sym_table \in Seq(Entries)
  /\ scp_handler \in [scope : Nat, ss_stack : Seq(ScopeSpaces), ss_offset_stack : Seq(Nat),
                      func_scope_stack : Seq(Nat)]
  /\ func_handler \in Seq(DOMAIN sym_table)
  /\ open \in Seq({0} \cup DOMAIN sym_table)
  /\ found \in {0} \cup DOMAIN sym_table
  /\ outcome \in {"parsing", "compiled", "syntax_error", "runtime_error", "assertion"}

IsVar(i) == ~IsFunc(sym_table[i])

(* The function that encloses a position of the parser's stack.            *)
FunctionsIn(items) == {i \in DOMAIN items : items[i] # 0}

HomeOf(items) == IF FunctionsIn(items) = {} THEN 0 ELSE items[Max(FunctionsIn(items))]

(* The three handlers agree about where the parser is, with one another    *)
(* and with the braces it has read: the scope, the open functions, their   *)
(* scope spaces, and the scopes below which their variables begin.         *)
HandlersInStep ==
  LET depth == Len(func_handler)
      below == scp_handler.func_scope_stack
  IN  /\ Scope = Len(open)
      /\ scp_handler.ss_stack = [k \in 1 .. depth + 1 |->
                                   IF k = 1 THEN "PROGRAM_SS" ELSE "FUNCTION_LOCALS_SS"]
      /\ Len(scp_handler.ss_offset_stack) = depth + 1
      /\ Len(below) = depth
      /\ \A j, k \in 1 .. depth : j < k => below[j] < below[k]
      /\ FunctionsIn(open) = {below[k] + 1 : k \in 1 .. depth}
      /\ \A k \in 1 .. depth : open[below[k] + 1] = func_handler[k]

(* The assertions of parser_manager.cpp and the exception of insert say    *)
(* that a scope has at most one visible entry of a name, and that nothing  *)
(* is visible of the scopes that were left.                                *)
OneVisibleEntry ==
  /\ outcome \notin {"runtime_error", "assertion"}
  /\ \A i \in DOMAIN sym_table : sym_table[i].visible =>
       /\ sym_table[i].scope <= Scope
       /\ Lookup(sym_table, sym_table[i].name, sym_table[i].scope) = {i}

(* What the source may name where it does is what the machine can reach    *)
(* there: a function, a variable in the program's space, or a variable of  *)
(* the function being parsed, never one of a function around it.           *)
OperandsInScope ==
  found # 0 =>
    \/ IsFunc(sym_table[found])
    \/ sym_table[found].ss = "PROGRAM_SS"
    \/ sym_table[found].home = Home /\ Home # 0

(* Two variables of a function, or of the program, never share a place,    *)
(* although each function defined within it counts its own from zero.      *)
PlacesDistinct ==
  \A i, j \in DOMAIN sym_table :
    (i # j /\ IsVar(i) /\ IsVar(j)
       /\ sym_table[i].home = sym_table[j].home /\ sym_table[i].ss = sym_table[j].ss)
      => sym_table[i].offset # sym_table[j].offset

(* How many locals a function has so far, or had when it was complete.     *)
TotalLocals(home) ==
  IF \E k \in DOMAIN func_handler : func_handler[k] = home
  THEN scp_handler.ss_offset_stack[1 + CHOOSE k \in DOMAIN func_handler : func_handler[k] = home]
  ELSE sym_table[home].total_locals

(* The locals that funcenter allocates, and the cells of the program, are  *)
(* enough for every variable that was given a place in them.               *)
EnoughLocals ==
  \A i \in DOMAIN sym_table : IsVar(i) =>
    /\ sym_table[i].ss = "FUNCTION_LOCALS_SS" => sym_table[i].offset < TotalLocals(sym_table[i].home)
    /\ sym_table[i].ss = "PROGRAM_SS" => sym_table[i].offset < Head(scp_handler.ss_offset_stack)

-----------------------------------------------------------------------------
(* The refinement: an open scope declares its visible entries.  The name   *)
(* that a function without one is given is not the source's.               *)
Binding(i) ==
  LET e == sym_table[i]
  IN  CASE e.type = "LIB_FUNC"  -> [is |-> "libfunc"]
        [] e.type = "USER_FUNC" -> [is |-> "func", home |-> i]
        [] OTHER -> [is |-> "var", home |-> e.home, slot |-> e.offset,
                     in |-> IF e.ss = "FORMAL_ARGUMENTS_SS" THEN "formals" ELSE "body"]

Declared(scope) ==
  LET visible == {i \in DOMAIN sym_table : /\ sym_table[i].scope = scope
                                           /\ sym_table[i].visible
                                           /\ sym_table[i].name \in Names}
  IN  [n \in {sym_table[i].name : i \in visible} |->
         Binding(CHOOSE i \in visible : sym_table[i].name = n)]

OpenScopes ==
  [k \in 1 .. Scope + 1 |-> [home  |-> HomeOf(SubSeq(open, 1, k - 1)), names |-> Declared(k - 1)]]

FoundMeaning == IF found = 0 THEN [is |-> "nothing"] ELSE Binding(found)

Env == INSTANCE Environments WITH
  None     <- NoName,
  LibFuncs <- ToSet(LibFuncs),
  Homes    <- 1 .. Len(LibFuncs) + MaxEntries,
  Slots    <- 0 .. MaxEntries,
  scopes   <- OpenScopes,
  meaning  <- FoundMeaning,
  status   <- outcome

(* Names mean what the rules of the language say, for every sequence of    *)
(* declarations, uses, blocks and functions: each handler of the parser    *)
(* implements the rule for the piece of source that it handles, and so the *)
(* parser implements Env!Spec.                                             *)
NamesMeanTheInnermost ==
  /\ Env!Init
  /\ [][/\ \A id \in Ids : /\ Identifier(id) => Env!Use(id)
                           /\ LocalIdentifier(id) => Env!UseLocal(id)
                           /\ GlobalIdentifier(id) => Env!UseGlobal(id)
        /\ \A n \in HiddenNumbers : MakeNew(n) => Env!UseLocal(HiddenId(n))
        /\ \A ids \in IdLists :
             /\ \A id \in Ids : FuncOpen(id, ids) => Env!OpenFunction(id, ids)
             /\ FuncOpen(GenericId(Len(sym_table)), ids) => Env!OpenFunction(NoName, ids)
        /\ BlockOpen => Env!OpenBlock
        /\ BlockClose \/ FuncClose => Env!Close
        /\ ReturnStmt => Env!Return
        /\ EndOfFile => Env!Finish]_vars
=============================================================================
