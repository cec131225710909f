--------------------------- MODULE ConstantsPool ---------------------------
(***************************************************************************)
(* The pool of constants, common_interface/Constants_pool.cpp: the         *)
(* constants of each kind in the order they were registered.  The code     *)
(* keeps maps whose keys are 0, 1, 2 ...; the key k is position k + 1.     *)
(***************************************************************************)
EXTENDS Integers, Sequences, SequencesExt

CONSTANT NaN  \* the number that differs from itself

EmptyPool ==
  [numbers |-> << >>, strings |-> << >>, libfuncs |-> << >>, userfuncs |-> << >>,
   addr_to_userfuncs |-> << >>]

(* get_numeric, get_string, get_libfunc, get_userfunc_on_idx               *)
At(array, key) == array[key + 1]
HasKey(array, key) == key \in 0 .. Len(array) - 1

(* The comparisons of the four loops: two functions are equal when their   *)
(* addresses are (Userfunc::operator==).                                   *)
EqualNumbers(a, b)   == a = b /\ a # NaN
EqualStrings(a, b)   == a = b
EqualUserfuncs(a, b) == a.address = b.address

Registered(array, key) == [array |-> array, key |-> key]

(* What register_number, register_string, register_libfunc and             *)
(* register_userfunc have in common: the key of the first equal value, or  *)
(* of the one inserted.                                                    *)
Register(array, value, Equal(_, _)) ==
  LET found == SelectInSeq(array, LAMBDA item : Equal(item, value))
  IN  IF found # 0 THEN Registered(array, found - 1)
                   ELSE Registered(Append(array, value), Len(array))

RegisterNumber(pool, value) ==
  LET r == Register(pool.numbers, value, EqualNumbers)
  IN  [pool |-> [pool EXCEPT !.numbers = r.array], key |-> r.key]

(* Mutant of RegisterString: the key is the size after the insertion.      *)
RegisterStringAfter(pool, str) ==
  LET r == Register(pool.strings, str, EqualStrings)
  IN  [pool |-> [pool EXCEPT !.strings = r.array], key |-> Len(r.array)]

RegisterString(pool, str) ==
  LET r == Register(pool.strings, str, EqualStrings)
  IN  [pool |-> [pool EXCEPT !.strings = r.array], key |-> r.key]

RegisterLibfunc(pool, name) ==
  LET r == Register(pool.libfuncs, name, EqualStrings)
  IN  [pool |-> [pool EXCEPT !.libfuncs = r.array], key |-> r.key]

RegisterUserfunc(pool, userfunc) ==
  LET r      == Register(pool.userfuncs, userfunc, EqualUserfuncs)
      linked == [address \in DOMAIN pool.addr_to_userfuncs \cup {userfunc.address} |->
                   IF address = userfunc.address THEN r.key ELSE pool.addr_to_userfuncs[address]]
  IN  [pool |-> [pool EXCEPT !.userfuncs = r.array, !.addr_to_userfuncs = linked],
       key  |-> r.key]

(* get_userfunc_on_address *)
UserfuncOnAddress(pool, address) == At(pool.userfuncs, pool.addr_to_userfuncs[address])
=============================================================================
