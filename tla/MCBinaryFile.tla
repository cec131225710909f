---------------------------- MODULE MCBinaryFile ----------------------------
EXTENDS BinaryFile

CONSTANTS str, strNUL, one, print, fun1, fun2  \* model values

MCStrings   == {str, strNUL}
MCNumbers   == {one, NaN}
MCLibFuncs  == {print}
MCUserFuncs == {fun1, fun2}
MCAddress   == (fun1 :> 1) @@ (fun2 :> 4)
MCNrLocals  == (fun1 :> 0) @@ (fun2 :> 2)
MCStrLen    == (str :> 1) @@ (strNUL :> 3) @@ (print :> 5) @@ (fun1 :> 1) @@ (fun2 :> 1)
MCUpToNul   == [n \in {str, strNUL, print, fun1, fun2} |-> IF n = strNUL THEN str ELSE n]

Of(type, c) == [type |-> type, of |-> c]
Unused      == [type |-> "nullptr"]

(* Instructions: an assignment of each constant, two constants at once, a  *)
(* call, a jump.                                                           *)
MCShapes ==
  {<<Of("program", 0), Of("string", t), Unused>> : t \in MCStrings}
    \cup {<<Of("local", 1), Of("number", n), Of("number", one)>> : n \in MCNumbers}
    \cup {<<Of("label", 1), Of("userfunc", fun1), Of("string", strNUL)>>,
          <<[type |-> "retval"], Of("userfunc", fun2), [type |-> "nil"]>>,
          <<Unused, Of("libfunc", print), Unused>>,
          <<Of("formal", 0), Of("boolean", TRUE), Of("boolean", FALSE)>>}

MCJunk == {0, 7}
=============================================================================
