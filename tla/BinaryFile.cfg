SPECIFICATION Spec
CONSTANTS
  str = str
  strNUL = strNUL
  one = one
  NaN = NaN
  print = print
  fun1 = fun1
  fun2 = fun2
  Strings <- MCStrings
  Numbers <- MCNumbers
  LibFuncs <- MCLibFuncs
  UserFuncs <- MCUserFuncs
  Address <- MCAddress
  NrLocals <- MCNrLocals
  StrLen <- MCStrLen
  UpToNul <- MCUpToNul
  Shapes <- MCShapes
  Junk <- MCJunk
  TotalVars = 1
  MaxInstructions = 3
INVARIANTS
  TypeOK
  KeysStayValid
  LoadedMeansCompiled
  OnlyPartialFilesRefused
  NeverMisread

\* The reader is done with the file or refuses it.
CHECK_DEADLOCK FALSE
