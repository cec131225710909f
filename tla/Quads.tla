-------------------------------- MODULE Quads --------------------------------
(***************************************************************************)
(* The intermediate code (intermediate_code/quad.h, icode_generator.cpp):  *)
(* a vector of quads, numbered from 0.  The label of a jump is the number  *)
(* of the quad it leads to; jumps forward are emitted with label 0 and     *)
(* patched when the parser learns their target.                            *)
(***************************************************************************)
EXTENDS Naturals, Sequences

None == [none |-> TRUE]

Quad(op, result, arg1, arg2) ==
  [op |-> op, result |-> result, arg1 |-> arg1, arg2 |-> arg2, label |-> 0]

(* icode_generator::next_quad_label *)
NextQuadLabel(quads) == Len(quads)

(* icode_generator::emit_quad, with a label and without one.               *)
EmitLabelled(quads, quad, label) == Append(quads, [quad EXCEPT !.label = label])
Emit(quads, quad) == EmitLabelled(quads, quad, NextQuadLabel(quads))

(* icode_generator::patch_label of every quad of a list.                   *)
PatchLabel(quads, quadnos, label) ==
  [i \in DOMAIN quads |-> IF i - 1 \in quadnos THEN [quads[i] EXCEPT !.label = label]
                                               ELSE quads[i]]

Jump == Quad("jump", None, None, None)

(* The quads whose label is a target.                                      *)
Jumps == {"jump", "if_eq", "if_noteq", "if_less", "if_lesseq", "if_greater", "if_greatereq"}
=============================================================================
