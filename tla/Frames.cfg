SPECIFICATION HSpec
CONSTANTS
  AVM_STACK_SIZE = 11
  TotalProgramVars = 1
  UIntRange = 1000000
  BodyAddresses <- ThreeBodies
  StartAddress = 1
  UserFuncs <- OneFunc
  NrFormals = 1
  MaxActuals = 1
  Literals <- FrameLiterals
  Functor <- NoTables
  LibNames <- Libs
  Argument = 1
  TotalArguments = 2
  LibResults <- LibReturns
INVARIANTS
  TypeOK
  ChainInv
  NeverLosesEnvironment
PROPERTIES
  ReturnRestoresCaller
  ImplementsRecords
CHECK_DEADLOCK FALSE
