SPECIFICATION PagingSpec
CONSTANTS
  Document <- Documents
  Limits <- Sizes
  None = None
  MaxTime = 2
INVARIANTS NobodyTwice WalkComplete ListComplete
CHECK_DEADLOCK FALSE
