CONSTANTS
  MaxTick = 2
  OverflowChecks = TRUE
  MaxDelay = 3
  MaxFrames = 5
SPECIFICATION Spec
INVARIANTS
  TypeOK
  Sorted
  DtsNotAfterPts
  DtsIsPtsInOrder
  TailHoldsLargest
CHECK_DEADLOCK FALSE
