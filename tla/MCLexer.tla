------------------------------ MODULE MCLexer ------------------------------
EXTENDS Lexer

Source(chars, length) == [chars |-> chars, length |-> length]

(* Comments and their nesting, strings, strings with a control character   *)
(* that is a blank of the code and one that is not, numbers with operators,*)
(* and all of them together.                                               *)
MCSources ==
  {Source({"/", "*", "LF"}, 8),
   Source({"\"", "\\", "n", "x", "LF"}, 6),
   Source({"\"", "\\", "b", "BS", "VT"}, 5),
   Source({"1", ".", "x", "=", "!"}, 5),
   Source({"/", "*", "\"", "\\", "1", " "}, 5)}
=============================================================================
