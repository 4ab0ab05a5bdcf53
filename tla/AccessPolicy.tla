---------------------------- MODULE AccessPolicy ----------------------------
(***************************************************************************)
(* Who may do what in an organization and its rooms                        *)
(* (apps/api/src/policy.ts).  The decisions are functions of documents the *)
(* caller has read; Workspace says how stale those may be.                 *)
(***************************************************************************)

Attribute == {"canCreateRooms", "canManageMembers", "canSchedule"}
Membership == [role : {"owner", "admin", "member"}, attributes : SUBSET Attribute]
NoMember == [role |-> "none", attributes |-> {}]

Room == [visibility : {"organization", "restricted"},
         classification : {"internal", "confidential"}]
RoomRole == {"owner", "host", "member", "viewer"}

OrganizationAction == {"read", "create_room", "manage_members", "schedule"}
RoomAction == {"read", "join_live", "write", "manage"}

Administers(m) == m.role \in {"owner", "admin"}

(* The attribute that delegates each action to an ordinary member.          *)
DelegatedBy(action) ==
  CASE action = "create_room"    -> "canCreateRooms"
    [] action = "manage_members" -> "canManageMembers"
    [] OTHER                     -> "canSchedule"

canOrganization(m, action) ==
  /\ m # NoMember
  /\ action = "read" \/ Administers(m) \/ DelegatedBy(action) \in m.attributes

canInviteToOrganization(m, allowMemberInvites) ==
  m # NoMember /\ (Administers(m) \/ allowMemberInvites)

(* "none": no access.  An explicit room role comes first, even before an    *)
(* administrator's.                                                         *)
effectiveRoomRole(m, room, roomRole) ==
  CASE m = NoMember -> "none"
    [] m # NoMember /\ roomRole # "none" -> roomRole
    [] m # NoMember /\ roomRole = "none" /\ Administers(m) -> "host"
    [] m # NoMember /\ roomRole = "none" /\ ~Administers(m) ->
         IF room.visibility = "organization" /\ room.classification # "confidential"
           THEN "member" ELSE "none"

canRoom(m, room, roomRole, action) ==
  LET role == effectiveRoomRole(m, room, roomRole)
  IN  /\ role # "none"
      /\ \/ action \in {"read", "join_live"}
         \/ action = "write" /\ role # "viewer"
         \/ /\ action = "manage"
            /\ Administers(m) \/ "canManageMembers" \in m.attributes \/ roomRole = "owner"
=============================================================================
