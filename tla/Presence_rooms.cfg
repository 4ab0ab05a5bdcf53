SPECIFICATION FairSpec
CONSTANTS
  Socket = {s1, s2, s3}
  User = {u1, u2}
INVARIANTS
  PresenceLedger
  HibernationInvisible
  ViewsAgree
  NobodyHidden
PROPERTIES
  DepartureIsSeen
CHECK_DEADLOCK FALSE
