SPECIFICATION HSpec
CONSTANTS
  AVM_STACK_SIZE = 11
  TotalProgramVars = 0
  UIntRange = 1000000
  BodyAddresses <- TwoBodies
  StartAddress = 1
  UserFuncs <- NoLocals
  NrFormals = 1
  MaxActuals = 1
  Literals <- LibLiterals
  Functor <- Functors
  LibNames <- Libs
  Argument = 1
  TotalArguments = 2
  LibResults <- LibReturns
INVARIANTS
  FreeCellsOwnNothing
PROPERTIES
  ImplementsRecords
CHECK_DEADLOCK FALSE
