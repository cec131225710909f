# A verification of the alpha compiler and virtual machine

The repository holds a compiler for the dynamically typed language *alpha* (flex lexer, bison
parser, intermediate code, target code, a binary file) and the virtual machine that runs its
output. This directory models the parts whose correctness depends on state that many handlers
share, checks them with TLC on small instances, and proves the central ones with TLAPS for every
size of stack and every program.

The program is sequential and has no scheduler, no retry and no persistence: a compiler run and a
machine run are each one thread, with a file between them. What is hard to test in it is *long sequences of legal steps*:
values that live in a stack cell while hundreds of other steps write around it, reference counts,
lists of jumps that wait for their targets, counters that are reset while something still uses
what they counted.

## 1. Inventory

| Component (under `src/`) | State it keeps | Operations | Correct when |
|---|---|---|---|
| Lexer `alpha_lex/`, `utilities.cpp` | start condition and its stack, lines of open comments and strings, the string being read | one token per call | tokens are the source, comments nest, strings mean what they say, every source ends in a token, the end or an error |
| Scopes, symbol table `syntax_analyzer/scope_handler`, `symbol_table`, `Func_handler` | scope number; stacks of scope spaces, offsets, function scopes; entries and which are hidden | enter and leave blocks, functions, formals; insert, look up, hide | two live variables never share a slot; a name means the innermost visible one; a local of an enclosing function is refused |
| Hidden variables `hidden_var_handler` | one counter | `make_new`, `reset_count` | a hidden variable in use is not handed out again |
| Expressions `parser_manager.cpp`, `intermediate_code/expr` | semantic values with true and false lists; the quads | one handler per grammar rule | the quads compute what the expression says |
| Statements `parser_manager.cpp`, `loop_handler` | quad numbers on the parser's stack; loop depths, break and continue lists | handlers of if, while, for, break, continue, return, blocks, functions | control goes where the program says |
| Target code `target_code/VMcode_generator` | address links, incomplete jumps, stacks of returns and of function starts | one generator per quad, final patching | each quad's jump becomes a jump to the code of its target |
| Constants pool `common_interface/Constants_pool` | four maps from index to constant, one from address to function | register, look up | an index names the same constant for compiler and machine |
| Binary file `target_code/Binary_writer`, `virtual_machine/RDP` | position in the file | write, recursive-descent read | what is read is what was written |
| Program stack `AVM/Program_stack` | 4096 cells, `top`, `topsp`, `total_actuals`, call depth, saved pointers | allocate, push argument, save and restore environment, index operations, move up and down | the environment of every active function survives until its return |
| Calls `AVM/dispatcher/functions.cpp`, `AVM.cpp` | `pc`, `retval`, `finished` | pusharg, call, funcenter, funcexit, one cycle | a return undoes its call |
| Cells and tables `AVM/Memcell`, `AVM/Table`, `dispatcher/tables.cpp` | cells; tables with reference counters | assign, clear, compare, get and set members, copy, print | counters are exact: nothing used is freed, nothing unused is kept |
| Library functions `AVM/builtin_funcs/` | none of their own | `argument`, `totalarguments`, `object*`, `print`, numeric functions | they see the caller's record and leave the stack as it was |
| Drivers, printing, errors | none | | not modelled: input and output |

**Interaction.** The parser calls handlers bottom-up; handlers share the quad vector, the counter of
hidden variables, the loop handler and the scope handler, and a function defined *inside an
expression or a loop* re-enters all of them while the outer construct is incomplete. The target
code generator reads the finished quads and calls the constants pool. The file carries code,
constants and the number of program variables to the machine. In the machine every instruction
goes through operand translation into the program stack; library functions run between
`save_environment` and `restore_environment` of one cycle; destructors of tables cascade through
assignment of any cell.

**What is hard.** Re-entrance in the compiler (nested functions), order of emission against order
of execution (for statements, argument lists), destruction during assignment in the machine,
boundaries of the stack (a full stack leaves `top` at -1, read as unsigned in two assertions), and
stale content of released cells. Section 6 and the hazards of `PROJECT.json` go through them.

## 2. Modules

| Module | Models | State and actions |
|---|---|---|
| `Memcells` | `Memcell.h/.cpp`: types, `clear`, `promote_to_bool`, `operator==` | operators only |
| `ProgramStack` | `Program_stack.cpp`, `Stack_manipulator.cpp` | one operator per method, on a record of the object's fields |
| `Calls` | `dispatcher/functions.cpp`, `misc.cpp`, `AVM.cpp`, `builtin_funcs/functions.cpp` | `program_stack`, `retval`, `pc`, `outcome`; one action per instruction, plus the ways in which one fails |
| `ActivationRecords` | nothing: the abstract calling sequence | a stack of records, no cells |
| `FrameChain` | `Calls` with a history variable | `frames`, what each caller's registers were; states the invariants and the refinement mapping |
| `Heap` | `Memcell.cpp` assign and clear, `Table.cpp`, `dispatcher/tables.cpp`, library functions on tables, print | `cells`, `tables`, `outcome` |
| `Lexer` | `alpha_flex.l`, `utilities::escape_str` and `unescape_ch` | the source and the position in it, start condition and stack, lines, string, tokens; one action per rule |
| `Quads` | `quad.h`, `icode_generator.cpp` | operators on the vector of quads |
| `ExprCode` | `expr.cpp`, `arithm_ops.cpp`, what the expression handlers of `parser_manager.cpp` emit | operators on quads, the counter of hidden variables and semantic values |
| `ShortCircuit` | handlers of boolean, arithmetic, assignment, call and list rules | parser stack, quads and counter; one action per reduction or shifted token |
| `TableExpressions` | handlers of members, methods, objects, `++` and `--`; the whole expression grammar | the same, with its specification and structural invariants |
| `ExpressionMeaning` | the machine's instructions on values: `dispatcher/arithmetic.cpp`, `relational.cpp`, `tables.cpp`, `functions.cpp` | `Run`, what the quads do, against `Eval`, what the syntax tree says |
| `Statements` | statement handlers, `loop_handler.cpp` | parser stack, quads, `lp_handler`; one action per piece of source with all the reductions it causes |
| `TargetCode` | `VMcode_generator.cpp`, `generate_funcs/` | one operator per generator function, one fold over the quads |
| `Flow` | nothing: what statements mean | fragments of control flow and how statements combine them |
| `ControlFlow` | both halves of the compiler | the edges of the generated code against the edges of the program |
| `Scopes` | `scope_handler.cpp`, `symbol_table.cpp`, `Func_handler.cpp`, `make_new`, handlers of identifiers, blocks, functions | `sym_table`, `scp_handler`, `func_handler`, the open braces, the entry found last; one action per handler, function headers as a whole |
| `Environments` | nothing: what names mean | the open blocks and functions, each with the names it declares |
| `ConstantsPool` | `Constants_pool.cpp`, `Userfunc::operator==` | operators only: the pool as four sequences and the map from addresses |
| `BinaryFile` | `translate_operand`, `Binary_writer.cpp`, `RDP.cpp`, `Lookahead.cpp` | the generator's pool and code, the file's tokens, the reader; one action per generated instruction, one for writing, one per rule of `rule_binaryfile` |
| `MCCalls`, `MCHeap`, `MCExpression`, `MCScopes`, `MCBinaryFile`, `MCLexer` | | values of the constants for TLC |
| `FrameChainProofs` | | theorems about `FrameChain`: its invariants, and the refinement of `ActivationRecords` |
| `HeapProofs`, `ScopesProofs`, `StatementsProofs`, `ExpressionsProofs`, `BinaryFileProofs`, `LexerProofs` | | theorems about the module each is named for (`TableExpressions` for expressions) |
| `NaturalSets` | | lemmas that these share: induction and recursive definitions stated with a set, least and greatest elements, series without repetition |

Names follow the source wherever TLA+ allows it. `PROJECT.json` maps each definition to its lines.

### How the models correspond to the code

*Calls.* A program is the most general one the generator can emit: any instruction may stand at any
body address, with any operand that is in scope. The guards hold what the generator guarantees: a
function is entered only through its funcenter, local offsets are below the number of locals, no
call is directly followed by a funcexit (a `getretval` stands between), arguments pushed are used
by the next call. Failing assertions and exceptions are outcomes in which the machine stops, with
the state before the instruction: neither the cells that the code allocated up to an overflow nor
the registers that `argument` had moved when it threw are kept, since nothing reads them again.

*Heap.* A table is its address, and addresses are reused. Keys are copied into a table but not
counted, as in the code. `Release` is the cascade of destructors: the cells still to be cleared are
a sequence, and `ClearNext` clears the first of them, putting the members of a table that it
destroys in front of the rest, as the nested calls do. A key list is described by the places of its
keys, which `MapOrder` and their values decide. A read of freed memory and a recursion of
`to_string` without end are outcomes of their own.

*Lexer.* flex's choice of the longest match is the guard of `Token`: of all rules that match at a
position the ones with the longest match may fire. Keywords are words like identifiers (their rules
differ in nothing but the token they return); `ControlOf` is the table of the seven control
characters that have an escape sequence. `EscapeStr` repeats `EscapeNext` on the characters of the string, which the code
does in place, two characters becoming one. Where the end of the file finds the scanner right after a backslash the code returns
an ordinary end of file, and the model does; a control character after a backslash becomes its
letter before the sequence is validated, and does so here. The conversion of digits to numbers is
left out (`std::stol` throws `out_of_range` for a long literal, which `main` does not catch).

*ShortCircuit, TableExpressions.* A semantic value is an `expr` with its place (variable, hidden
variable, constant), its index and its two lists. Parentheses may stand anywhere, so that any order
of reductions is possible. Every value carries the syntax tree it came from. `hazards` records the
situations that the parser gets wrong: a hidden variable handed out while in use (`recycled`), and
a boolean value patched late as the first of several arguments or elements (`late_argument`), as
the key of an element (`late_key`, `[{not x : not x}]`) or as the index of a member of a member
(`late_index`, `x.a[not x]`). That lets one run claim faithfulness for everything else and another
exhibit the first kind of late patch. Operands are split between the values that the handlers keep
and the quads they emit; an operation refused leaves its tree, which `OnlyFailingRefused` executes.

*ExpressionMeaning.* `Run` executes quads on variables, tables, `retval` and the list of calls;
`Eval` computes the tree on the same memory. A plain variable is read when its operation is applied,
because `expr` holds its storage and not its value, and a callee or an outer table that is a member
is fetched after the arguments or the index, because `emit_iftableitem` runs then; that is the
language these quads define, not an error. Library functions return their first argument; a
function defined in an expression returns nothing and leaves `retval` as it is.

*Statements.* An expression is one quad and one event. A piece of source is one action with all the
reductions that follow from it; statement fragments that are complete are reduced into what
encloses them. The dangling else needs no lookahead: both readings are enumerated, one of them
standing for the source with braces.

*TargetCode.* The operands of quads are carried along; jumps, links, `funcenter`, `funcexit` and
the closing `nop` are generated as in the source.

*Scopes.* The table is the sequence of all entries ever made; the code's vector of hash maps only
finds them faster. A function's header (`funcprefix`, `idlist`, `funcargs`, the body's `{`) is one
action because nothing can stand between its parts; every other handler is an action of its own and
any order of them that a grammar of blocks allows is a source. Expressions appear as the names they
read and the hidden variables they ask for, with any number the recycled counter may have. `home`,
the function a variable was declared in, is the only history. The refinement mapping reads an
environment off the visible entries, so a hidden entry that is found, or a visible one that is not
the innermost, shows as a difference in meaning. Each handler is compared with *its* rule of
`Environments`, which is stronger than comparing the next-state relations.

*BinaryFile.* The file is a sequence of typed tokens, as the writer's typed writes and the reader's
typed lookahead treat it; the characters of one string are one token that knows how many they are,
and `UpToNul` is the string that `string(c_str)` makes of them. Whatever is not of the type or
length that was written is outcome `misread`, the end of the file the reader's exception. A write may
stop after any token. The sections of the file have one form, a total and as many items: `WriteArray`
and `WriteOne` write them, `RuleArray` and `RuleOne` read them, `RegisterAll` puts what was read into
the reader's pool. Operands are translated in any order, because they are arguments of one call
of C++, and the value of an argument for `nil` or the return value is any of `Junk`, because
nobody sets it. Numbers are compared as the pool does it, so that `NaN` equals no number; the sign
of zero is left out. The history `source` keeps the operands each instruction was made from.
A key of the generated code leads to its string (`KeysStayValid`), a key of the loaded code to the
part of it before its first NUL (`LoadedMeansCompiled`). The latter excludes programs with two strings that are equal up to a NUL: the reader
merges them, and every later string of the program moves by one.

## 3. Runs

| Run | Checks | Bounds, and why they are enough |
|---|---|---|
| `frames` | types, `ChainInv`, `NeverLosesEnvironment`, `ReturnRestoresCaller`, refinement of `ActivationRecords` | 11 cells hold a program variable and two frames with argument and local; a third call overflows. Three body addresses give two call sites. The proofs of section 5 remove the bounds, for the refinement too. |
| `lib_calls` | `FreeCellsOwnNothing`, refinement | tables as functors, `argument`, `totalarguments` and a function that leaves a string in `retval`; 11 cells. Proved without bounds. |
| `heap` | `RefCountExact`, `NoDanglingReference`, `OnlyCyclesLeak` | two tables suffice for a cycle, for a cascade and for reuse of an address; one variable, `retval` and an argument slot; two members. Proved without bounds. |
| `expressions` | types, `EveryJumpWaits`, `HiddenVariablesStay`, `CompiledFaithfully`, `OnlyFailingRefused` | five fragments of the grammar (booleans, calls and functions, arithmetic, members, objects) of five or six tokens: all nestings of two binary operators, calls with two arguments, members of members as operands, targets, callees and indices, objects of two elements; each statement is executed for every assignment of seven values (undefined, nil, two numbers, a boolean, two tables of which one is a functor). The first three are proved for every size. |
| `lexer` | types, `ConditionsFollowSource`, `StringsMean`, `NothingLost`, `EverySourceDecided` | eight characters of comment marks open three comments and close them in any order; six of strings hold two escape sequences, and five hold a control character that is a blank and one that is not; five of numbers and operators, and five of marks within strings and strings within comments. All but `EverySourceDecided` are proved for every source. |
| `control_flow` | types, `OneKeeperPerJump`, `LoopListsFollowNesting`, `OnlyStrayJumpsRefused`, `CodeFollowsProgram` | six pieces of source: a loop in a loop with break and continue in each, a function in a loop, in a for's increment, in a function, if with both branches in a loop; `NoBranchToItself`. All that is said of `Statements` is proved for every source. |
| `scopes` | types, `HandlersInStep`, `OneVisibleEntry`, `OperandsInScope`, `PlacesDistinct`, `EnoughLocals`, refinement of `Environments` | one identifier, one library function and one hidden variable, four entries, depth two: a function in a function, a block in a function and the reverse, one argument, the same name at each depth and again after it was left. Proved for every source, the refinement too. |
| `binary_file` | types, `KeysStayValid`, `LoadedMeansCompiled`, `OnlyPartialFilesRefused`, `NeverMisread` | three instructions: a constant met again after another one of its kind, before or after constants of the other kinds; two strings of which one has a NUL; a number and `NaN`; two functions; each truncation of each file. All are proved for every program. |

Three runs of the machine and one of the compiler end in a violation; each states what a comment or
document of the repository says and shows what the code does instead (section 6).

Deadlock is not checked: the machine stops at the end of the program or at an error, the parser at
the end of the source.

**Liveness and fairness.** `Lexer` states weak fairness of its next-state relation: the parser's loop
calls `yylex` as long as it returns tokens, and within `yylex` flex matches until a rule returns or
throws; nothing else takes part. `EverySourceDecided` then says that no start condition is without a
rule that consumes something or ends the scan. No other component waits for anything: an alpha
program may loop forever by right, the parser is driven by its tokens, and the writer and the reader
go through a fixed sequence of rules, whose only possible failure, to refuse what they should accept
or the reverse, is the invariant `OnlyPartialFilesRefused`.

## 4. Bounds

`AVM_STACK_SIZE` (4096 in the code) and `TotalProgramVars` are constants; `MaxActuals` bounds the
arguments of a call, `MaxMembers` the members of all tables, `MaxTokens` and `MaxArgs` of a fragment the statement, `Sources` the characters and the length of a
file; `MaxEntries`,
`MaxScope`, `MaxHidden` and `MaxFormals` the names of a source; `MaxInstructions` the code in a
file, `Shapes` the operands of an instruction and `Junk` the values of memory that nobody set.
Unsigned comparisons use `UIntRange` in place of 2^32, larger than any index. Numbers are integers;
no property depends on fractions except that a fractional index is refused.

## 5. Theorems

TLC's runs look at small instances; the theorems hold for every value of the constants that meets
the named assumption of the module that declares them. Each rests on an inductive invariant, `IInv`
in its module, of which the property that a run checks is a part.

**The machine (`FrameChainProofs`;** `StackAssumption`, `CallsAssumption`**).**

* `TypeCorrect`: `TypeOK`, with every reachable function value naming a funcenter;
* `ChainNeverDamaged`: `ChainInv`, the heart of the machine;
* `EnvironmentNeverLost`: the assertions of `restore_environment` and `get_env_value` cannot fail;
* `ReturnsRestore`: the action property that a return undoes its call;
* `NothingLeaksInFreeCells`: no free cell owns a string or a table;
* `RecordsImplemented`: the stack of cells implements the stack of activation records.

`IInv` is `TypeOK`, `ChainInv` and that no environment assertion has failed. `ChainInv` has to say
three things at once to be inductive: what the four cells of each active frame hold
(`EnvironmentsIntact`), how the frames lie one below the other (`Linked`), and how the registers
describe the newest of them (`RegistersMatch`). The argument then is one of disjointness: `OperandCell`
shows which cells an instruction may write, none of which is an environment cell, and `SameFrames`
that a step which leaves these alone keeps the chain; calls extend the chain by one frame, returns
drop one. Each action has a lemma. `FreeCellsOwnNothing` is preserved under `IInv` because a
return clears all it releases and nothing writes below `top`.

The refinement reads each value of the records off a region of the stack. The regions of the
program, of each record and of the pending arguments are disjoint (`Regions`), an operand is one
value of the newest record (`OperandMaps`), and a step that leaves a region's cells and bounds alone
leaves its values alone (`SameRecord`, `SameGlobals`). It needs one fact more than `IInv`: control is
at a funcenter only between a call and the allocation of the callee's locals (`AtEntry`).

**Tables (`HeapProofs`;** `HeapAssumption`**).** `RefCountsAreExact` (`RefCountExact`),
`NothingDangles` (`NoDanglingReference`) and `LeaksAreCycles` (`OnlyCyclesLeak`), for any finite
number of variables and addresses. `IInv` is the types of cells and tables and that every counter is
exact. In the middle of an instruction it is not: a cell that is being overwritten still holds what
was released, and the cells that a destructor has yet to clear belong to no table. `Counted` therefore counts a table's
references from the slots, the members and a sequence of cells still to be cleared, with one slot or
member left out; `ClearNext` keeps it, since destroying a table moves its members to that sequence,
and each step takes a cell that was a member when the cascade began, so that the cascade has ended
after as many steps as `Release` makes. For the leaks, a table that nothing leads to has a counter above 0,
hence a table that refers to it and that nothing leads to either; going back along such references
through finitely many tables meets one of them twice, which is a cycle.

**Names (`ScopesProofs`;** `ScopesAssumption`, `IdsAssumption`**).** `TypeCorrect`, `HandlersAgree`
(`HandlersInStep`), `NamesUnambiguous` (`OneVisibleEntry`), `OperandsReachable` (`OperandsInScope`),
`VariablesApart` (`PlacesDistinct`) and `LocalsReserved` (`EnoughLocals`). That offsets of one
function stay apart although blocks and other functions come between them cannot be seen from the
offsets alone. `Structure` therefore adds that open functions were inserted in the order in which
they nest, that hidden or not an entry is in the program's space exactly if it is the program's, and
that a visible entry of a scope belongs to the function which that scope belongs to (`HomeAt`). The
actions change the state in five ways only: no entry, a new variable, entering a block, entering a
function, leaving a block. Each way has a lemma for each conjunct that it disturbs.

`NamesImplementEnvironments` (`NamesMeanTheInnermost`) and `ScopesImplementEnvironments`
(`Spec => Env!Spec`) are the refinement. What an open scope declares is read off the entries that a
lookup in it finds, one for each name (`IsDeclaration`); a new entry then binds one name more
(`DeclaredMore`), hiding takes the last scope away (`LeavingCloses`), and the other scopes are as
they were. `exists_accessible_symbol` compares scope numbers where the rule compares functions:
`AboveActive` shows that the two agree, from the positions of functions among the open braces.
`Named` adds to `IInv` that library functions stay visible, that a name made up for a function is
its own, and that no scope space counts more variables than were inserted, so that the next place is
free (`NextPlaceFree`). `IdsAssumption` is needed for the names that the parser makes up, `_t0` and
`_gfunc3`: an identifier cannot be one of them because it begins with a letter
(`alpha_flex.l:42`).

**Statements (`StatementsProofs`;** `StatementsAssumption`**).** `TypeCorrect`, `JumpsKept`
(`OneKeeperPerJump`), `NestingFollowed` (`LoopListsFollowNesting`) and `RefusalsJustified`
(`OnlyStrayJumpsRefused`). An action cuts the parser's stack and puts one item on what is left
(`Cut`), adds quads and patches some (`Grown`); what it cuts off says which jumps lose their keeper,
and the lemmas match these with the jumps that it patches or hands on. The properties need each
other: that the jumps of a loop's lists lie in its body is what makes patching them at the loop's
end leave everybody else's jumps alone.

**Expressions (`ExpressionsProofs`;** `ShortCircuitAssumption`, `MemberNamesAssumption`**).**
`TypeCorrect`, `JumpsWait` (`EveryJumpWaits`) and `HiddenStay` (`HiddenVariablesStay`). The invariant
says of the generator that what it emitted is complete and fetches no member over its own table
(`GenOK`), of every value on the stack that it has a place, or is a boolean with lists, and that its
hidden variables have been handed out (`StackOK`), and that each waiting jump is on one list of one
value (`Balanced`). Each operator of `ExprCode` takes a good generator to a good one that is further
on (`Later`); a reduction replaces the values on top by one that keeps their jumps (`Replaced`). What
keeps a hidden variable from being handed out twice is the counter, which only a definition of a
function resets: hence the exception for statements that define one (section 6).

**The constants pool and its file (`BinaryFileProofs`;** `BinaryFileAssumption`**).** `KeysNeverMove`
(`KeysStayValid`), `NothingIsMisread` (`NeverMisread`), `WholeFilesAreAccepted`
(`OnlyPartialFilesRefused`), `LoadedIsCompiled` (`LoadedMeansCompiled`) and `BinaryFileTypes` (`TypeOK`).
A pool only grows (`Grows`), what `register_...` returns leads to the constant registered, and the map
from addresses leads to the function registered under each (`AddressesLead`), so a key keeps its
constant in whatever order the operands of an instruction are evaluated. The file is proved rule by
rule: faced with what its counterpart of the writer wrote, or with as much of it as was written, a
rule takes it all and leaves the values it was written from, or ends in an exception at the end of
the file (`Reads`). For the sections this is an induction over their items. The invariant
(`Reads1`) is that before each rule the reader is at the rest of the file which that rule expects.
That the reader's pool is the generator's needs that no pool holds a constant twice (`AllOnce`):
only then does registering a section's constants in their order give each the key it had
(`RegistersAll`), and the invariant `PoolRead` says which sections the reader has so far. Cutting
strings at their first NUL leaves each once only under the premise of `LoadedMeansCompiled`.

**The lexer (`LexerProofs`;** `LexerAssumption`**).** `TypeCorrect`, `ScannerFollowsSource`
(`ConditionsFollowSource`), `NothingIsLost` (`NothingLost`) and `StringsAreMeant` (`StringsMean`). The specification describes a source
by an account of it, a recursive function from each position to the part of the source that it is
in; the proof unrolls the account over the characters of one match and shows that each rule takes
the scanner to the condition the account has. `Nesting` ties flex's stack to the lines of
comments that are still open, `AllTaken` the tokens to the characters outside comments and strings.
Strings need one more invariant, `OpenString`: the quote that opened the string (`OpenedAt`), and
that `escape_str` would make of `current_str`, as far as it was read, what the text since that
quote means (`Told`), with a backslash more where an escape sequence is half read, or would throw
exactly if the text has an invalid sequence. A character more of the text is one or two more of
`current_str`: a control character was unescaped and `escape_str` puts it back, which is why an
escaped one is left out of the property.

**Induction.** The induction theorems of the library take an operator as a parameter, which the
provers cannot instantiate. `NaturalSets` states induction for a *set* of naturals instead and
derives it from the existence of minimal elements; folds, accounts, `escape_str` and least elements use it.

**Model-checked only.** `CompiledFaithfully` and `OnlyFailingRefused` of expressions, where the reference
semantics is a RECURSIVE operator, which the provers cannot use; `CodeFollowsProgram` and `NoBranchToItself`, which compare a whole program
with its code after two passes of translation; and the liveness property `EverySourceDecided`, which is beyond the proof system.

## 6. What disagrees with the documents

| Run | Property | The code |
|---|---|---|
| `full_stack` | `StopsByRuntimeError` | with `top` at -1 a legal access fails an assertion |
| `member_keys` | `MemberKeysExist` | a freed table is listed among the keys |
| `printing` | `PrintingEnds` | `to_string` recurses without end |
| `late_argument` | `FirstArgumentIsPatched` | `f(not x, g())` never calls `g` |

Others are in the models or the code without a run of their own. A function defined inside an
expression resets the counter of hidden variables, so that `x + 1` kept in `_t0` is overwritten by
the rest of the expression (`recycled`; `hidden_var_handler.h:33` calls the reset a heuristic). Keys
of elements and indices of members of members are patched late as first arguments are. A source that ends
after a backslash in a string is accepted without the message for open strings
(`alpha_flex.l:107`), and a backslash before a control character is read as the escape sequence of
that character (`alpha_flex.l:116`). A modulo of constants by zero is a `numeric_error` where the division is a
semantic error (`parser_manager.cpp:152`). Naming a formal that got no actual
argument fails an assertion (outcome `assert_actuals` of `Calls`), although `Program_stack.h:36`
allows fewer actuals than formals. `generate_binary_file` promises `ofstream::failure`
(`Binary_writer.h:26`) but throws a copy of it as `std::exception`, which `main` does not catch.

## 7. Plan

Done: the calling sequence with its refinement, tables, the whole expression grammar with
arithmetic, statements, target code, scopes, the constants pool, the binary file and the lexer; the
theorems of section 5. What a further stage would add:

1. Composition: code of `ControlFlow` in the machine of `Calls`, for functions without a return.


**Not modelled.** Drivers and printing of quads and instructions (input, output and formatting);
the library functions `typeof`, `strtonum`, `sqrt`, `cos`, `sin` and `input`, which compute one
cell from one argument; rounding, fractions and overflow of `long double`; the conversion of digits
to numbers in the lexer; the bison automaton, whose reductions are the actions of `Statements`,
`Scopes` and `TableExpressions`.
