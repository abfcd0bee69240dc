SPECIFICATION Spec
CONSTANTS
  NumItems = 2
  BatchSize = 1
  NewList = FALSE
  MaxTries = 1
  MaxGrants = 1
  MaxTokens = 1
INVARIANTS
  FrozenManifest
CHECK_DEADLOCK FALSE
