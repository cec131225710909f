SPECIFICATION Spec
CONSTANT
  Sources <- MCSources
INVARIANTS
  TypeOK
  ConditionsFollowSource
  StringsMean
  NothingLost
PROPERTIES
  EverySourceDecided

\* The scanner is done at the end of the file or after an error.
CHECK_DEADLOCK FALSE
