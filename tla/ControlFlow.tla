---------------------------- MODULE ControlFlow ----------------------------
(***************************************************************************)
(* Both halves of the compiler together: the quads of a program's          *)
(* statements, translated for the virtual machine, against the flow of     *)
(* control that the program describes.                                     *)
(***************************************************************************)
EXTENDS Statements

Compiled == GenerateTargetCode(quads)

(* Where control is when it has come to an address: jumps do nothing else. *)
Arrive(code, address) ==
  LET follow(a, i) == IF a < Len(code) /\ code[a + 1].op = "jump" THEN code[a + 1].label ELSE a
      at == FoldLeft(follow, address, [i \in DOMAIN code |-> i])
  IN  IF at >= Len(code) THEN Way("end")
      ELSE CASE code[at + 1].op \in {"assign", "jeq"} -> Event(code[at + 1].arg.event)
             [] code[at + 1].op = "funcexit"          -> Way("exit")
             [] code[at + 1].op = "nop"               -> Way("end")
             [] OTHER                                 -> Way("astray")

(* The edges that leave the instruction at an address.  A function is      *)
(* called at the address that translate_operand gives it.                  *)
EdgesAt(code, a) ==
  LET instr == code[a + 1]
      n     == instr.arg.event
      after == Arrive(code, a + 1)
  IN  CASE instr.op = "assign"    -> {Edge(n, "next", after)}
        [] instr.op = "jeq"       -> {Edge(n, "true", Arrive(code, instr.label)),
                                      Edge(n, "false", after)}
        [] OTHER                  -> {}

FunctionEdges(compiled) ==
  {LET address == UserFuncAddress(compiled.links, q - 1)
   IN  IF compiled.code[address + 1].op = "funcenter"
       THEN Edge(quads[q].arg1.event, "call", Arrive(compiled.code, address + 1))
       ELSE Edge(quads[q].arg1.event, "call", Way("astray"))
     : q \in {i \in DOMAIN quads : quads[i].op = "funcstart"}}

CodeEdges(compiled) ==
  UNION {EdgesAt(compiled.code, a) : a \in 0 .. Len(compiled.code) - 1}
    \cup FunctionEdges(compiled)
    \cup {Edge(0, "start", Arrive(compiled.code, 0))}

(* After a simple statement, after each outcome of a condition, and after  *)
(* a call, the machine goes on where the program says: loops repeat, break *)
(* and continue leave and repeat their own loop, a return ends its own     *)
(* function, control passes by definitions and ends at the end.            *)
CodeFollowsProgram ==
  outcome = "compiled" => CodeEdges(Compiled) = Program(stack[1].frag)

(* No instruction of a compiled program branches to itself, not even for   *)
(* an empty statement: the cycle of the machine takes an unchanged pc for  *)
(* an instruction that did not branch (execute_cycle, AVM.cpp 149), and    *)
(* would fall through the jump.                                            *)
NoBranchToItself ==
  outcome = "compiled" =>
    LET code == Compiled.code
    IN  \A i \in DOMAIN code : code[i].op \in {"jump", "jeq"} => code[i].label # i - 1
=============================================================================
