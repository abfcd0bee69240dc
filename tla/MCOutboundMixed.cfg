SPECIFICATION Spec
CONSTANTS
  NumItems = 2
  BatchSize = 2
  NewList = FALSE
  MaxTries = 1
  MaxGrants = 1
  MaxTokens = 1
INVARIANTS
  UnknownCanAdvance
CHECK_DEADLOCK FALSE
