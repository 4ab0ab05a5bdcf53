SPECIFICATION FairSpec
CONSTANTS
  Request = {q1, q2}
  Remote = {r1}
  MaxSockets = 3
  maxAutomaticReconnectAttempts = 1
INVARIANTS
  TabIsHonest
  DepartureIsFinal
PROPERTIES
  AttemptSettles
CHECK_DEADLOCK FALSE
