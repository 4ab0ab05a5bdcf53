SPECIFICATION Spec
CONSTANTS
  code = code
  board = board
  Document = {code}
  Board = board
  MaxAttempts = 3
  Quiet = 1
  MaxWait = 2
  RetryBase = 1
  RetryMax = 2
  AccessMayLapse = TRUE
  MaxRecorded = 2
  MaxCrashes = 1
INVARIANTS
  NothingLost
  AlarmPending
  RetriesBounded
PROPERTIES
  NoResurrection
  ImplementsOutbox
