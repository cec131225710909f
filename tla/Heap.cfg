SPECIFICATION Spec
CONSTANTS
  Variables <- OneVar
  Addresses <- TwoTables
  Constants <- Pool
  MaxMembers = 2
INVARIANTS
  RefCountExact
  NoDanglingReference
  OnlyCyclesLeak
CHECK_DEADLOCK FALSE
