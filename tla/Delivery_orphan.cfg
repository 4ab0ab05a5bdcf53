SPECIFICATION FairSpec
CONSTANTS
  code = code
  board = board
  Document = {code}
  Board = board
  MaxAttempts = 2
  Quiet = 1
  MaxWait = 1
  RetryBase = 1
  RetryMax = 1
  AccessMayLapse = TRUE
  MaxRecorded = 1
  MaxCrashes = 1
PROPERTIES
  Drains
