SPECIFICATION Spec
CONSTANTS
  Request = {}
  Remote = {}
  MaxSockets = 1
  maxAutomaticReconnectAttempts = 1
INVARIANTS
  NoGhost
CHECK_DEADLOCK FALSE
