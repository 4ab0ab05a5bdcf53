SPECIFICATION AccountSpec
CONSTANTS
  Request = {r1, r2, r3}
  Session = {first, s1, s2}
  First = first
  Link = {l1}
  CodesPerSet = 1
  Ops = {"use", "logout", "revoke", "change", "regenerate", "login", "confirm", "redeem"}
  Off = Off
  None = None
  Org = {acme, zeta}
  Front = acme
  Former = gone
  MaxLoads = 5
  Change = {h0, h1, h2}
  Mount = h0
  Item = {i1, i2}
  Token = {i1}
  Person = {ann, bob}
  Tab = {p1, p2}
  MaxEdits = 4
  MaxReloads = 3
SYMMETRY Symmetric
INVARIANTS
  EvictionComplete
  SecretsSingleUse
  PagesSound
PROPERTIES
  RevocationSettles
CHECK_DEADLOCK FALSE
