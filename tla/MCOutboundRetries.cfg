SPECIFICATION QuietMemberSpec
CONSTANTS
  NumItems = 2
  BatchSize = 1
  NewList = FALSE
  MaxTries = 2
  MaxGrants = 1
  MaxTokens = 1
INVARIANTS
  LedgerAgrees
  OutcomesAgree
  WrittenOnce
PROPERTIES
  SettledItemsStay
  ImplementsPromise
CHECK_DEADLOCK FALSE
