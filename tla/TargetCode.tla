----------------------------- MODULE TargetCode -----------------------------
(***************************************************************************)
(* The generator of the virtual machine's code                             *)
(* (target_code/VMcode_generator.cpp and generate_funcs/): one pass over   *)
(* the quads, then the jumps forward are patched.  An instruction keeps    *)
(* the operand of its quad; the translation of operands to storage is left *)
(* out.                                                                    *)
(***************************************************************************)
EXTENDS Quads, SequencesExt

Instr(op, label, arg) == [op |-> op, label |-> label, arg |-> arg]

(* address_links is a sequence: the links of quads 0, 1, ... in order.     *)
NewGenerator ==
  [code |-> << >>, address_links |-> << >>, incomplete_jumps |-> {},
   func_stack |-> << >>, jumps_before_funcenter |-> << >>]

NextVmInstrAddress(g) == Len(g.code)

EmitInstr(g, instr) == [g EXCEPT !.code = Append(@, instr)]

PatchInstr(code, addresses, label) ==
  [i \in DOMAIN code |-> IF i - 1 \in addresses THEN [code[i] EXCEPT !.label = label]
                                                ELSE code[i]]

(* generate_relational: all that jumps, conditionally or not.              *)
GenerateRelational(g, quad, curr_proc_quad) ==
  LET op == IF quad.op = "jump" THEN "jump" ELSE "jeq"
  IN  IF quad.label < curr_proc_quad
      THEN EmitInstr(g, Instr(op, g.address_links[quad.label + 1], quad.arg1))
      ELSE [EmitInstr(g, Instr(op, 0, quad.arg1)) EXCEPT
              !.incomplete_jumps = @ \cup {[from |-> NextVmInstrAddress(g), to |-> quad.label]}]

(* Mutant of GenerateFuncStart: the quad is linked to the funcenter.       *)
GenerateFuncStartLinked(g, quad) ==
  [EmitInstr(EmitInstr(g, Instr("jump", 0, None)), Instr("funcenter", 0, quad.arg1)) EXCEPT
     !.address_links          = [@ EXCEPT ![Len(@)] = NextVmInstrAddress(g) + 1],
     !.jumps_before_funcenter = Append(@, NextVmInstrAddress(g)),
     !.func_stack             = Append(@, {})]

(* A jump over the function stands before its funcenter.                   *)
GenerateFuncStart(g, quad) ==
  [EmitInstr(EmitInstr(g, Instr("jump", 0, None)), Instr("funcenter", 0, quad.arg1)) EXCEPT
     !.jumps_before_funcenter = Append(@, NextVmInstrAddress(g)),
     !.func_stack             = Append(@, {})]

(* retval = arg1; jump to the function's end *)
GenerateRet(g, quad) ==
  LET assigned == EmitInstr(g, Instr("assign", 0, quad.arg1))
  IN  [EmitInstr(assigned, Instr("jump", 0, None)) EXCEPT
         !.func_stack = [@ EXCEPT ![Len(@)] = @ \cup {NextVmInstrAddress(assigned)}]]

GenerateFuncEnd(g, quad) ==
  LET funcexit == NextVmInstrAddress(g)
      returns  == PatchInstr(g.code, Last(g.func_stack), funcexit)
      exited   == Append(returns, Instr("funcexit", 0, quad.arg1))
  IN  [g EXCEPT !.code = PatchInstr(exited, {Last(g.jumps_before_funcenter)}, funcexit + 1),
                !.func_stack = Front(@),
                !.jumps_before_funcenter = Front(@)]

(* One turn of the loop of generate_target_code. *)
Generate(g, quad, curr_proc_quad) ==
  LET linked == [g EXCEPT !.address_links = Append(@, NextVmInstrAddress(g))]
  IN  CASE quad.op \in Jumps      -> GenerateRelational(linked, quad, curr_proc_quad)
        [] quad.op = "funcstart" -> GenerateFuncStart(linked, quad)
        [] quad.op = "ret"       -> GenerateRet(linked, quad)
        [] quad.op = "funcend"   -> GenerateFuncEnd(linked, quad)
        [] OTHER                 -> EmitInstr(linked, Instr(quad.op, 0, quad.arg1))

(* The end of generate_target_code: a nop, then the incomplete jumps.  A   *)
(* jump past the last quad leads past the nop, to the ending pc.           *)
GenerateTargetCode(quads) ==
  LET turn(g, q) == Generate(g, quads[q], q - 1)
      g    == FoldLeft(turn, NewGenerator, [q \in DOMAIN quads |-> q])
      code == Append(g.code, Instr("nop", 0, None))
      target(to) == IF to = Len(quads) THEN Len(code) ELSE g.address_links[to + 1]
  IN  [code  |-> [i \in DOMAIN code |->
                    IF \E j \in g.incomplete_jumps : j.from = i - 1
                    THEN [code[i] EXCEPT !.label =
                            target((CHOOSE j \in g.incomplete_jumps : j.from = i - 1).to)]
                    ELSE code[i]],
       links |-> g.address_links]

(* translate_operand: the address of a user function is its funcenter, the *)
(* second instruction that its funcstart quad yields.                      *)
UserFuncAddress(links, iaddress) == links[iaddress + 1] + 1
=============================================================================
