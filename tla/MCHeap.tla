------------------------------- MODULE MCHeap -------------------------------
(***************************************************************************)
(* Instances of Heap for TLC.                                              *)
(***************************************************************************)
EXTENDS Heap

OneVar    == {"x"}
TwoTables == {1, 2}

(* nil and undef reach the cells without being constants.                  *)
Pool      == {Number(0)}
=============================================================================
