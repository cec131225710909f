SPECIFICATION Spec
CONSTANTS
  Variables <- OneVar
  Addresses <- TwoTables
  Constants <- Pool
  MaxMembers = 1
INVARIANTS
  PrintingEnds
CHECK_DEADLOCK FALSE
