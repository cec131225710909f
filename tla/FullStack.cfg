SPECIFICATION HSpec
CONSTANTS
  AVM_STACK_SIZE = 5
  TotalProgramVars = 0
  UIntRange = 1000000
  BodyAddresses <- ThreeBodies
  StartAddress = 1
  UserFuncs <- OneFunc
  NrFormals = 0
  MaxActuals = 1
  Literals <- FrameLiterals
  Functor <- NoTables
  LibNames <- Libs
  Argument = 1
  TotalArguments = 2
  LibResults <- LibReturns
INVARIANTS
  StopsByRuntimeError
CHECK_DEADLOCK FALSE
