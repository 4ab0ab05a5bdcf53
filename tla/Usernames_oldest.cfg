SPECIFICATION EdgesSpec
CONSTANTS
  Off = Off
  None = None
  Parts = {"names"}
  Registration = {g1}
  Edit = {e1}
  Old = {o1, o2}
  Email = {m1}
  Name = {ann, bob}
  Generated = {x1, x2}
  LongName = {}
  Call = {k1, k2}
  Limit = 1
  Window = 2
  MaxClock = 3
  Use = {u1, u2}
  Revoke = {v1}
  Granted = {read}
  Refused = {write}
  Interval = 1
  LastTick = 3
  Authorization = {a1}
  Exchange = {c1, c2}
  Refresh = {f1, f2}
  Revocation = {w1}
  Client = {web, other, unknown}
  Registered = {web, other}
  CodeLife = 1
  RefreshLife = 2
  AccessLife = 1
  EndOfTime = 2
  Place = {lab, hall}
  Restricted = {hall}
  Person = {ann}
  Delivery = {d1, d2}
  Attempt = {1, 2}
  Meeting = {s1}
  PageLimit = 1
  FeedLimit = 1
  LastTime = 2
  Ticket = {1, 2, 3, 4}
  Guest = {ann, bob}
  Lifetime = 2
  CacheFor = 1
  MaxCached = 1
  LastHour = 1
  Joining = {n1}
  TicketLife = 2
  Job = {j1, j2}
  MaxCommits = 3
  MaxDocuments = 2
  Owner = {ann, bob}
  LastMoment = 3
PROPERTIES
  OldestKeepsUsername
CHECK_DEADLOCK FALSE
