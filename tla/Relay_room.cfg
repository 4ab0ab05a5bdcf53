SPECIFICATION Spec
CONSTANTS
  Tab = {t1, t2}
  Window = 2
  History = 3
  maxWhiteboardStrokes = 1
  HistoryMayBeLate = FALSE
  MaxSent = 3
  MaxJoins = 3
SYMMETRY Symmetric
INVARIANTS
  RoomConverges
  MessagesDelivered
PROPERTIES
  ViewersOnlyWatch
CHECK_DEADLOCK FALSE
