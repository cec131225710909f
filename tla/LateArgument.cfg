SPECIFICATION Spec
CONSTANTS
  Variables = {"x", "y"}
  Functions <- MCFunctions
  MemberNames <- MCMemberNames
  Fragments <- MCArgumentFragments
  InitialValues <- MCInitialValues
  InitialTables <- MCInitialTables
INVARIANTS
  FirstArgumentIsPatched

\* The parser is done after the statement or an error.
CHECK_DEADLOCK FALSE
