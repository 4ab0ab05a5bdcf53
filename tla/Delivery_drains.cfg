SPECIFICATION FairSpec
CONSTANTS
  code = code
  board = board
  Document = {code}
  Board = board
  MaxAttempts = 2
  Quiet = 1
  MaxWait = 2
  RetryBase = 1
  RetryMax = 2
  AccessMayLapse = TRUE
  MaxRecorded = 2
  MaxCrashes = 0
INVARIANTS
  QueueHoldsLatest
  QueueIsServed
  DebounceBounded
PROPERTIES
  Drains
