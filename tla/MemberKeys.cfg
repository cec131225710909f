SPECIFICATION Spec
CONSTANTS
  Variables <- OneVar
  Addresses <- TwoTables
  Constants <- Pool
  MaxMembers = 1
INVARIANTS
  MemberKeysExist
CHECK_DEADLOCK FALSE
