SPECIFICATION Spec
CONSTANT
  MaxTokens = 6
INVARIANTS
  TypeOK
  OneKeeperPerJump
  LoopListsFollowNesting
  OnlyStrayJumpsRefused
  CodeFollowsProgram
  NoBranchToItself

\* The parser is done at the end of the source or after an error.
CHECK_DEADLOCK FALSE
