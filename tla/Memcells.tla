------------------------------ MODULE Memcells ------------------------------
(***************************************************************************)
(* The memory cell of the alpha virtual machine (Memcell.h, Memcell.cpp):  *)
(* a type tag and the union member that the tag selects.  The payload is   *)
(* an integer: the number itself, the identity of a string or of a table,  *)
(* the address of a user function, the index of a library function, 0 or 1 *)
(* for a boolean.  Where the tag selects no member the payload is 0: the   *)
(* code never reads it.                                                    *)
(***************************************************************************)
EXTENDS Integers

MemcellType ==
  {"number", "string", "boolean", "table", "userfunc", "libfunc", "nil", "undef"}

Memcell == [type : MemcellType, value : Int]

Number(n)   == [type |-> "number",   value |-> n]
String(s)   == [type |-> "string",   value |-> s]
Boolean(b)  == [type |-> "boolean",  value |-> b]
TableRef(t) == [type |-> "table",    value |-> t]
UserFunc(a) == [type |-> "userfunc", value |-> a]
LibFunc(f)  == [type |-> "libfunc",  value |-> f]
Nil         == [type |-> "nil",      value |-> 0]
Undef       == [type |-> "undef",    value |-> 0]

(* The types whose payload owns memory: only they have a clear function.   *)
Resource == {"string", "table"}

(* Memcell::clear: a cell that owns memory releases it and becomes undef;  *)
(* a cell of any other type keeps both its type and its payload.           *)
Clear(cell) == IF cell.type \in Resource THEN Undef ELSE cell

(* Memcell::promote_to_bool.  An undef operand trips assert(false) in      *)
(* undef_tobool: callers must not ask.                                     *)
PromoteToBool(cell, EmptyString) ==
  CASE cell.type = "number"  -> cell.value # 0
    [] cell.type = "string"  -> cell.value # EmptyString
    [] cell.type = "boolean" -> cell.value = 1
    [] cell.type = "nil"     -> FALSE
    [] OTHER                 -> TRUE

(* Memcell::operator==.  It throws for an undef operand and for operands   *)
(* of different types, unless one is boolean or nil; a boolean compares    *)
(* with the truth value of the other.                                      *)
EqualityFails(a, b) ==
  \/ "undef" \in {a.type, b.type}
  \/ a.type # b.type /\ {a.type, b.type} \cap {"boolean", "nil"} = {}

Equal(a, b, EmptyString) ==
  IF "boolean" \in {a.type, b.type}
  THEN PromoteToBool(a, EmptyString) = PromoteToBool(b, EmptyString)
  ELSE a = b
=============================================================================
