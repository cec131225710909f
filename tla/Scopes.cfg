SPECIFICATION Spec
CONSTANTS
  x = x
  print = print
  Ids <- MCIds
  LibFuncs <- OneLibFunc
  MaxEntries = 4
  MaxScope = 2
  MaxHidden = 1
  MaxFormals = 1
INVARIANTS
  TypeOK
  HandlersInStep
  OneVisibleEntry
  OperandsInScope
  PlacesDistinct
  EnoughLocals
PROPERTIES
  NamesMeanTheInnermost

\* The parser is done at the end of the source or after an error.
CHECK_DEADLOCK FALSE
