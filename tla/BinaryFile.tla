----------------------------- MODULE BinaryFile -----------------------------
(***************************************************************************)
(* From the constants of a program to those of the machine that runs it:   *)
(* the generator translates operands and registers their constants         *)
(* (VMcode_generator::translate_operand), Binary_writer.cpp writes pool    *)
(* and code to a file, RDP.cpp reads the file and registers what it reads  *)
(* in a pool of its own.                                                   *)
(*                                                                         *)
(* The file is a sequence of tokens.  The characters of a string are one   *)
(* token that knows how many they are; a string constant may contain NUL   *)
(* characters, since the lexer takes any character between quotes.         *)
(***************************************************************************)
EXTENDS ConstantsPool

CONSTANTS
  Strings,   \* string constants
  Numbers,   \* numeric constants
  LibFuncs,  \* names of library functions
  UserFuncs, \* user functions
  Address,   \* address of a user function's funcenter
  NrLocals,  \* the number of its locals
  StrLen,    \* length of a string or name
  UpToNul,   \* the part of a string or name before its first NUL
  Shapes,    \* bound of the model: the operands an instruction may have
  Junk,      \* bound of the model: values of memory that nobody initialised
  TotalVars, \* variables of the program's scope space
  MaxInstructions \* bound of the model: instructions of a program

Names == Strings \cup LibFuncs \cup UserFuncs

(* An operand of a quad is its type and, for a constant, the constant, for *)
(* a variable its place, for a label the address it leads to.              *)
Operands ==
       [type : {"program", "local", "formal", "label"}, of : Nat]
  \cup [type : {"string"}, of : Strings]
  \cup [type : {"number"}, of : Numbers]
  \cup [type : {"boolean"}, of : BOOLEAN]
  \cup [type : {"userfunc"}, of : UserFuncs]
  \cup [type : {"libfunc"}, of : LibFuncs]
  \cup [type : {"retval", "nil", "nullptr"}]

ASSUME BinaryFileAssumption ==
  /\ Address \in [UserFuncs -> Nat] /\ NrLocals \in [UserFuncs -> Nat]
  /\ \A f, g \in UserFuncs : Address[f] = Address[g] => f = g
  /\ StrLen \in [Names -> Nat] /\ UpToNul \in [Names -> Names]
  /\ \A n \in LibFuncs \cup UserFuncs : UpToNul[n] = n
  /\ Junk \subseteq Nat /\ TotalVars \in Nat /\ MaxInstructions \in Nat
  /\ Shapes \subseteq [1 .. 3 -> Operands]

VARIABLES
  source,          \* history: the operands each instruction was made from
  const_pool,      \* the generator's pool, of which the writer has a copy
  vm_instructions, \* the generated code
  file,            \* the tokens in the file
  rdp,             \* the reader's position, pool, instructions, variables
  phase            \* what is done next, or how the reader ended

vars == <<source, const_pool, vm_instructions, file, rdp, phase>>

MAGICNUMBER == "magic"

VMarg(type, value) == [type |-> type, value |-> value]
NullArg            == [type |-> "nullptr"]

Userfunc(f) == [address |-> Address[f], nr_locals |-> NrLocals[f], name |-> f]

-----------------------------------------------------------------------------
(* Generation.                                                             *)

InPool(registered, type) == [pool |-> registered.pool, arg |-> VMarg(type, registered.key)]

(* Mutant of DirectArg: nor is that of a truth value.                      *)
DirectArgUnset(e, junk) ==
  VMarg(e.type, IF e.type \in {"nil", "retval", "boolean"} THEN junk ELSE e.of)

(* Arguments without an entry in the pool.  The value of one that is nil   *)
(* or the return value is never set.                                       *)
DirectArg(e, junk) ==
  VMarg(e.type, CASE e.type \in {"nil", "retval"} -> junk
                  [] e.type = "boolean"           -> IF e.of THEN 1 ELSE 0
                  [] OTHER                        -> e.of)

TranslateOperand(pool, e, junk) ==
  CASE e.type = "string"   -> InPool(RegisterString(pool, e.of), e.type)
    [] e.type = "number"   -> InPool(RegisterNumber(pool, e.of), e.type)
    [] e.type = "userfunc" -> InPool(RegisterUserfunc(pool, Userfunc(e.of)), e.type)
    [] e.type = "libfunc"  -> InPool(RegisterLibfunc(pool, e.of), e.type)
    [] e.type = "nullptr"  -> [pool |-> pool, arg |-> NullArg]
    [] OTHER               -> [pool |-> pool, arg |-> DirectArg(e, junk)]

(* The operands of an instruction are arguments of one call of its         *)
(* constructor, so the compiler may translate them in any order.           *)
Generate(operands, order, junk) ==
  LET Translated(g, k) ==
        LET t == TranslateOperand(g.pool, operands[k], junk)
        IN  [pool |-> t.pool, args |-> [g.args EXCEPT ![k] = t.arg]]
      start == [pool |-> const_pool, args |-> [k \in 1 .. 3 |-> NullArg]]
  IN  Translated(Translated(Translated(start, order[1]), order[2]), order[3])

GenerateInstruction(operands) ==
  /\ phase = "generate"
  /\ Len(vm_instructions) < MaxInstructions
  /\ \E order \in SetToSeqs(1 .. 3), junk \in Junk :
       LET g == Generate(operands, order, junk)
       IN  /\ const_pool' = g.pool
           /\ vm_instructions' = Append(vm_instructions,
                [opcode |-> "assign", args |-> g.args, source_line |-> Len(vm_instructions) + 1])
  /\ source' = Append(source, operands)
  /\ UNCHANGED <<file, rdp, phase>>

-----------------------------------------------------------------------------
(* Binary_writer                                                           *)

Token(type, count, value) == <<[type |-> type, count |-> count, value |-> value]>>

WriteUInt(n)    == Token("unsigned int", 1, n)
WriteUShort(n)  == Token("unsigned short", 1, n)
WriteDouble(n)  == Token("double long", 1, n)
WriteBoolean(b) == Token("boolean", 1, b)

(* Mutant of WriteOneString: the length counts the closing NUL.            *)
WriteOneStringCountingNul(s) == WriteUInt(StrLen[s] + 1) \o Token("char", StrLen[s] + 1, s)

WriteOneString(s) == WriteUInt(StrLen[s]) \o Token("char", StrLen[s] + 1, s)

WriteUserfunc(f) == WriteUInt(f.address) \o WriteUInt(f.nr_locals) \o WriteOneString(f.name)

(* write_vmarg: an argument that is not used is written as a label behind  *)
(* the code.                                                               *)
WriteVMarg(arg) ==
  IF arg = NullArg
  THEN WriteBoolean(FALSE) \o WriteUShort("label") \o WriteUInt(Len(vm_instructions))
  ELSE WriteBoolean(TRUE) \o WriteUShort(arg.type) \o WriteUInt(arg.value)

WriteInstruction(i) ==
  WriteUShort(i.opcode) \o WriteVMarg(i.args[1]) \o WriteVMarg(i.args[2])
    \o WriteVMarg(i.args[3]) \o WriteUInt(i.source_line)

(* One of the items of a section of the file. *)
WriteOne(section, item) ==
  CASE section \in {"strings", "libfunctions"} -> WriteOneString(item)
    [] section = "numbers"       -> WriteDouble(item)
    [] section = "userfunctions" -> WriteUserfunc(item)
    [] section = "code"          -> WriteInstruction(item)

WriteArray(section, array) ==
  WriteUInt(Len(array)) \o FlattenSeq([i \in DOMAIN array |-> WriteOne(section, array[i])])

(* write_binary_file *)
BinaryFile ==
  WriteUInt(MAGICNUMBER)
    \o WriteArray("strings", const_pool.strings)
    \o WriteArray("numbers", const_pool.numbers)
    \o WriteArray("userfunctions", const_pool.userfuncs)
    \o WriteArray("libfunctions", const_pool.libfuncs)
    \o WriteArray("code", vm_instructions)
    \o WriteUInt(TotalVars)

Reader == [pos |-> 1, const_pool |-> EmptyPool, instructions |-> << >>, total_program_vars |-> 0]

(* generate_binary_file.  A write may fail at any point; what was written  *)
(* stays in the file, and nothing keeps the machine from being run on it.  *)
GenerateBinaryFile ==
  /\ phase = "generate"
  /\ file' \in Prefixes(BinaryFile)
  /\ phase' = "magicnumber"
  /\ UNCHANGED <<source, const_pool, vm_instructions, rdp>>

-----------------------------------------------------------------------------
(* RDP.  A rule reads tokens from a position on and leaves values, those   *)
(* of the newest token last, or an error: "failure" is the exception of    *)
(* the stream at its end, "misread" a read of bytes that were written as   *)
(* something else.                                                         *)
Reading(pos) == [pos |-> pos, values |-> << >>, error |-> "none"]

(* The lookahead token's match and consume; a match always precedes a      *)
(* consume of the same type.                                               *)
Consume(r, type, count) ==
  IF r.error # "none" THEN r
  ELSE IF r.pos > Len(file) THEN [r EXCEPT !.error = "failure"]
  ELSE IF file[r.pos].type # type \/ file[r.pos].count # count THEN [r EXCEPT !.error = "misread"]
  ELSE [r EXCEPT !.pos = @ + 1, !.values = Append(@, file[r.pos].value)]

UInt(r)    == Consume(r, "unsigned int", 1)
UShort(r)  == Consume(r, "unsigned short", 1)
Double(r)  == Consume(r, "double long", 1)
Boolean(r) == Consume(r, "boolean", 1)

(* The newest n values become one. *)
Reduce(r, n, Make(_)) ==
  LET kept == Len(r.values) - n
  IN  IF r.error # "none" THEN r
      ELSE [r EXCEPT !.values = Append(SubSeq(@, 1, kept), Make(SubSeq(@, kept + 1, Len(@))))]

(* rule_onestring: string(c_str) ends at the first NUL. *)
RuleOneString(r) ==
  LET size == UInt(r)
  IN  IF size.error # "none" THEN size
      ELSE Reduce(Consume(size, "char", Last(size.values) + 1), 2, LAMBDA v : UpToNul[v[2]])

RuleOneUserfunc(r) ==
  Reduce(RuleOneString(UInt(UInt(r))), 3,
         LAMBDA v : [address |-> v[1], nr_locals |-> v[2], name |-> v[3]])

(* Mutant of RuleVMarg: an argument that is not used is taken for a label. *)
RuleVMargUsed(r) == Reduce(UInt(UShort(Boolean(r))), 3, LAMBDA v : VMarg(v[2], v[3]))

RuleVMarg(r) ==
  Reduce(UInt(UShort(Boolean(r))), 3, LAMBDA v : IF v[1] THEN VMarg(v[2], v[3]) ELSE NullArg)

RuleOneInstruction(r) ==
  Reduce(UInt(RuleVMarg(RuleVMarg(RuleVMarg(UShort(r))))), 5,
         LAMBDA v : [opcode |-> v[1], args |-> <<v[2], v[3], v[4]>>, source_line |-> v[5]])

RuleOne(section, r) ==
  CASE section \in {"strings", "libfunctions"} -> RuleOneString(r)
    [] section = "numbers"       -> Double(r)
    [] section = "userfunctions" -> RuleOneUserfunc(r)
    [] section = "code"          -> RuleOneInstruction(r)

(* rule_total, and a loop that is driven by it. *)
RuleArray(section, r) ==
  LET total == UInt(r)
      loop[i \in 0 .. Last(total.values)] ==
        IF i = 0 THEN [total EXCEPT !.values = Front(@)] ELSE RuleOne(section, loop[i - 1])
  IN  IF total.error # "none" THEN total ELSE loop[Last(total.values)]

(* A rule of rule_binaryfile: what it read goes to the reader's pool, code *)
(* or variables, and the next rule follows.                                *)
Parse(rule, r, loaded, next) ==
  /\ phase = rule
  /\ IF r.error = "none" THEN rdp' = [loaded EXCEPT !.pos = r.pos] /\ phase' = next
                     ELSE UNCHANGED rdp /\ phase' = r.error
  /\ UNCHANGED <<source, const_pool, vm_instructions, file>>

RegisterOne(section, pool, value) ==
  CASE section = "strings"       -> RegisterString(pool, value)
    [] section = "numbers"       -> RegisterNumber(pool, value)
    [] section = "userfunctions" -> RegisterUserfunc(pool, value)
    [] section = "libfunctions"  -> RegisterLibfunc(pool, value)

RegisterAll(section, values) ==
  LET pools[i \in 0 .. Len(values)] ==
        IF i = 0 THEN rdp.const_pool ELSE RegisterOne(section, pools[i - 1], values[i]).pool
  IN  pools[Len(values)]

RuleConstants(section, next) ==
  LET r == RuleArray(section, Reading(rdp.pos))
  IN  Parse(section, r, [rdp EXCEPT !.const_pool = RegisterAll(section, r.values)], next)

RuleMagicNumber ==
  LET r == UInt(Reading(rdp.pos))
      invalid == r.error = "none" /\ Last(r.values) # MAGICNUMBER
  IN  Parse("magicnumber", IF invalid THEN [r EXCEPT !.error = "failure"] ELSE r, rdp, "strings")

RuleStrings       == RuleConstants("strings", "numbers")
RuleNumbers       == RuleConstants("numbers", "userfunctions")
RuleUserfunctions == RuleConstants("userfunctions", "libfunctions")
RuleLibfunctions  == RuleConstants("libfunctions", "code")

RuleCode ==
  LET r == RuleArray("code", Reading(rdp.pos))
  IN  Parse("code", r, [rdp EXCEPT !.instructions = r.values], "nr_program_vars")

(* Mutant of RuleNrProgramVars: a program without variables may omit them. *)
RuleNrProgramVarsOptional ==
  LET r == UInt(Reading(rdp.pos))
  IN  Parse("nr_program_vars", [r EXCEPT !.error = "none"],
            [rdp EXCEPT !.total_program_vars = IF r.error = "none" THEN Last(r.values) ELSE 0], "loaded")

RuleNrProgramVars ==
  LET r == UInt(Reading(rdp.pos))
  IN  Parse("nr_program_vars", r, [rdp EXCEPT !.total_program_vars = Last(r.values)], "loaded")

Init ==
  /\ source = << >>
  /\ const_pool = EmptyPool
  /\ vm_instructions = << >>
  /\ file = << >>
  /\ rdp = Reader
  /\ phase = "generate"

Generator ==
  \/ \E operands \in Shapes : GenerateInstruction(operands)
  \/ GenerateBinaryFile

RuleBinaryFile ==
  \/ RuleMagicNumber \/ RuleStrings \/ RuleNumbers \/ RuleUserfunctions \/ RuleLibfunctions
  \/ RuleCode \/ RuleNrProgramVars

Next == Generator \/ RuleBinaryFile

Spec == Init /\ [][Next]_vars

-----------------------------------------------------------------------------
ArgTypes == {"program", "local", "formal", "label", "retval", "nil", "boolean", "number",
             "string", "userfunc", "libfunc"}

Instructions ==
  [opcode : {"assign"}, args : [1 .. 3 -> [type : ArgTypes, value : Nat] \cup {NullArg}],
   source_line : Nat]

(* Types, with the assertion of VMarg's constructor about truth values.    *)
TypeOK ==
  /\ source \in Seq(Shapes)
  /\ vm_instructions \in Seq(Instructions)
  /\ rdp.instructions \in Seq(Instructions)
  /\ \A i \in DOMAIN rdp.instructions, k \in 1 .. 3 :
       rdp.instructions[i].args[k].type = "boolean" => rdp.instructions[i].args[k].value \in {0, 1}
  /\ rdp.pos \in 1 .. Len(file) + 1
  /\ rdp.total_program_vars \in Nat
  /\ phase \in {"generate", "magicnumber", "strings", "numbers", "userfunctions", "libfunctions",
               "code", "nr_program_vars", "loaded", "failure", "misread"}

(* An argument stands for an operand: its key is that of the operand's     *)
(* constant, of which the pool keeps, if it is a string, the part kept[n]. *)
StandsFor(arg, pool, e, kept) ==
  CASE e.type = "nullptr" -> arg = NullArg
    [] e.type \in {"nil", "retval"} -> arg.type = e.type
    [] e.type = "boolean" -> arg = VMarg(e.type, IF e.of THEN 1 ELSE 0)
    [] e.type = "string"  ->
         arg.type = e.type /\ HasKey(pool.strings, arg.value)
           /\ At(pool.strings, arg.value) = kept[e.of]
    [] e.type = "number"  ->
         arg.type = e.type /\ HasKey(pool.numbers, arg.value) /\ At(pool.numbers, arg.value) = e.of
    [] e.type = "libfunc" ->
         arg.type = e.type /\ HasKey(pool.libfuncs, arg.value) /\ At(pool.libfuncs, arg.value) = e.of
    [] e.type = "userfunc" ->
         /\ arg.type = e.type
         /\ HasKey(pool.userfuncs, arg.value)
         /\ At(pool.userfuncs, arg.value) = Userfunc(e.of)
         /\ UserfuncOnAddress(pool, Address[e.of]) = Userfunc(e.of)
    [] OTHER -> arg = VMarg(e.type, e.of)

AllStandFor(instructions, pool, kept) ==
  /\ Len(instructions) = Len(source)
  /\ \A i \in DOMAIN source, k \in 1 .. 3 :
       StandsFor(instructions[i].args[k], pool, source[i][k], kept)

Whole == [n \in Names |-> n]

(* However many constants are registered after it, in whatever order, each *)
(* argument of the generated code goes on standing for its operand.        *)
KeysStayValid == AllStandFor(vm_instructions, const_pool, Whole)

(* The reader numbers the constants anew.  If no two strings become equal  *)
(* by being cut, its code and pool mean what the program's operands did,   *)
(* with exactly the part before the first NUL of every string.             *)
LoadedMeansCompiled ==
  (/\ phase = "loaded"
   /\ \A s, t \in ToSet(const_pool.strings) : UpToNul[s] = UpToNul[t] => s = t)
    => /\ AllStandFor(rdp.instructions, rdp.const_pool, UpToNul)
       /\ rdp.total_program_vars = TotalVars

(* A file that was not written to its end is never run, and one that was   *)
(* is never refused, whatever its pools hold.                              *)
OnlyPartialFilesRefused ==
  phase \in {"loaded", "failure"} => (phase = "loaded" <=> file = BinaryFile)

(* The reader asks for every token as what the writer wrote it.            *)
NeverMisread == phase # "misread"
=============================================================================
