SPECIFICATION Spec
CONSTANTS
  Variables = {"x", "y"}
  Functions <- MCFunctions
  MemberNames <- MCMemberNames
  Fragments <- MCFragments
  InitialValues <- MCInitialValues
  InitialTables <- MCInitialTables
INVARIANTS
  TypeOK
  EveryJumpWaits
  HiddenVariablesStay
  CompiledFaithfully
  OnlyFailingRefused

\* The parser is done after the statement or an error.
CHECK_DEADLOCK FALSE
