SPECIFICATION FairSpec
CONSTANTS
  NumItems = 1
  BatchSize = 1
  NewList = TRUE
  MaxTries = 1
  MaxGrants = 2
  MaxTokens = 2
INVARIANTS
  OutboundInv
  OneConsumedGrant
PROPERTIES
  FinalIsFinal
  RunningSettles
CHECK_DEADLOCK FALSE
