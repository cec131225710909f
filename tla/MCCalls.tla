------------------------------- MODULE MCCalls -------------------------------
(***************************************************************************)
(* Instances of FrameChain for TLC.                                        *)
(***************************************************************************)
EXTENDS FrameChain, TLC

(* One function at address 0 with one local; three addresses for bodies,   *)
(* so that two call sites return to different places.                      *)
OneFunc     == 0 :> 1
NoLocals    == 0 :> 0
ThreeBodies == {1, 2, 3}
TwoBodies   == {1, 2}
NoTables    == << >>
Functors    == (1 :> UserFunc(0)) @@ (2 :> LibFunc(2)) @@ (3 :> LibFunc(3))

(* 1 and 2 are the libfuncs argument and totalarguments, 3 any other; the  *)
(* string 9, which the others return, is the name of none.                 *)
FrameLiterals == {UserFunc(0)}
LibLiterals   == {Number(0), LibFunc(1)}
Libs          == {1, 2, 3}
LibReturns    == {String(9)}
=============================================================================
