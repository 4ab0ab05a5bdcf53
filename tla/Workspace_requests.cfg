SPECIFICATION Spec
CONSTANTS
  Request = {r1, r2}
  User = {owner, u1}
  Owner = owner
  First = first
  Ops = {"join", "add", "regenerate", "settings", "role", "create", "roomAdd", "roomRemove"}
  Grants <- SomeGrants
  Kinds <- SomeKinds
SYMMETRY Symmetric
INVARIANTS
  RoomMembersBelong
  CreatorOwnsRoom
PROPERTIES
  AdminsGrantedByOwner
  MembershipKept
CHECK_DEADLOCK FALSE
