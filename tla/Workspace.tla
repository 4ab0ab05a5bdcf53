------------------------------ MODULE Workspace ------------------------------
(***************************************************************************)
(* One organization: its invite code, its members and their roles, and one *)
(* of its rooms with that room's explicit members                          *)
(* (apps/api/src/application.ts, with the queries of MongoRepository).     *)
(*                                                                         *)
(* As in Account, requests run concurrently, one step is one repository    *)
(* call, an update replaces the whole document by the copy the handler     *)
(* read, and a request may fail between two calls.  Memberships and room   *)
(* memberships have a unique index, so a second insert is an error.        *)
(***************************************************************************)
EXTENDS AccessPolicy

CONSTANTS
  Request,  \* requests; each is made once, which bounds a behaviour
  User,
  Owner,    \* who created the organization
  First,    \* the join code the organization was created with
  Ops,      \* the operations requests may ask for
  Grants,   \* the attribute sets members are given
  Kinds     \* the kinds of room that are created

ASSUME OwnerAssumption == Owner \in User
ASSUME KindsAssumption ==
  Grants \subseteq SUBSET Attribute /\ {} \in Grants /\ Kinds \subseteq Room
ASSUME CodesAssumption == First \notin Request

VARIABLES
  org,       \* the organization's joinCode and allowMemberInvites
  members,   \* the membership of each user, NoMember for none
  room,      \* the room, or NoRoom until somebody creates it
  roomRole,  \* the explicit role of each user in the room, "none" for none
  req,       \* the requests and their handlers' local state
  retired    \* history: codes a regeneration has replaced

vars == <<org, members, room, roomRole, req, retired>>

(* A random code never repeats; it is named by the request that drew it.    *)
Code == Request \cup {First}
Organization == [joinCode : Code, allowMemberInvites : BOOLEAN]
NoRoom == [visibility |-> "none"]
Unread == [role |-> "unread", attributes |-> {}]

InOrganization == {"add", "regenerate", "settings", "role"}
InRoom == {"roomAdd", "roomRemove"}
Op == InOrganization \cup InRoom \cup {"join", "create"}

(* A handler: what it was asked (op, by, target, role, flag), the documents *)
(* it has read (caller, callerRoom, held, copy) and what it does next.      *)
Running == {"org", "write org", "target", "list", "write role", "exists", "insert",
            "initial", "room", "owner", "first member",
            "access", "belongs", "in room", "insert room", "removable", "delete"}
Handler == [pc : Running \cup {"new", "done", "refused", "failed"}, op : Op, by : User,
            target : User, role : {"admin", "host", "member", "viewer"}, flag : BOOLEAN,
            caller : Membership \cup {NoMember, Unread}, callerRoom : RoomRole \cup {"none", "unread"},
            held : Membership \cup {NoMember}, copy : Organization]

TypeOK ==
  /\ org \in Organization
  /\ members \in [User -> Membership \cup {NoMember}]
  /\ room \in Room \cup {NoRoom}
  /\ roomRole \in [User -> RoomRole \cup {"none"}]
  /\ req \in [Request -> Handler]
  /\ retired \subseteq Code

(* An organization at any point of its life, its room created or not.       *)
Init ==
  /\ org \in [joinCode : {First}, allowMemberInvites : BOOLEAN]
  /\ members \in {m \in [User -> Membership \cup {NoMember}] :
                    /\ m[Owner] = [role |-> "owner", attributes |-> {}]
                    /\ \A u \in User \ {Owner} : m[u].role # "owner" /\ m[u].attributes \in Grants}
  /\ \/ room = NoRoom /\ roomRole = [u \in User |-> "none"]
     \/ /\ room \in Kinds
        /\ \E u \in User : /\ members[u] # NoMember
                           /\ roomRole = [v \in User |-> IF v = u THEN "owner" ELSE "none"]
  /\ req = [r \in Request |->
              [pc |-> "new", op |-> "join", by |-> Owner, target |-> Owner, role |-> "member",
               flag |-> FALSE, caller |-> Unread, callerRoom |-> "unread",
               held |-> NoMember, copy |-> [joinCode |-> First, allowMemberInvites |-> FALSE]]]
  /\ retired = {}

-----------------------------------------------------------------------------
Goes(r, pc) == req' = [req EXCEPT ![r].pc = pc]
If(allowed, pc) == IF allowed THEN pc ELSE "refused"

(* The request as its handler first knows it, with the caller's membership. *)
Asks(r, op, by, target, role, flag, pc) ==
  /\ req[r].pc = "new" /\ op \in Ops
  /\ req' = [req EXCEPT ![r] = [@ EXCEPT !.pc = pc, !.op = op, !.by = by, !.target = target,
               !.role = role, !.flag = flag, !.caller = members[by]]]
  /\ UNCHANGED <<org, members, room, roomRole, retired>>

-----------------------------------------------------------------------------
(* Becoming a member.                                                       *)

(* POST /v1/join: only the current code finds the organization.             *)
Join(r, u, code) ==
  Asks(r, "join", u, u, "member", FALSE, If(code = org.joinCode, "exists"))

Mutant_anyManagerGrants(m, role) == TRUE
MayGrant(m, role) == role = "admin" => m.role = "owner"

(* POST /v1/orgs/:orgId/members                                             *)
AddMember(r, u, t, role) ==
  Asks(r, "add", u, t, role, FALSE,
       If(canOrganization(members[u], "manage_members") /\ MayGrant(members[u], role), "exists"))

(* Both look whether the user belongs already ...                           *)
CheckMember(r) ==
  /\ req[r].pc = "exists"
  /\ Goes(r, If(members[req[r].target] = NoMember, "insert"))
  /\ UNCHANGED <<org, members, room, roomRole, retired>>

(* ... and insert; the index refuses a second membership.                   *)
Mutant_noIndex(t) == TRUE
IndexAllows(t) == members[t] = NoMember

InsertMember(r) ==
  LET t == req[r].target
  IN  /\ req[r].pc = "insert"
      /\ \/ /\ IndexAllows(t)
            /\ \E given \in IF req[r].op = "add" THEN Grants ELSE {{}} :
                 members' = [members EXCEPT ![t] = [role |-> req[r].role, attributes |-> given]]
            /\ Goes(r, "done")
         \/ /\ ~IndexAllows(t)
            /\ Goes(r, "failed") /\ UNCHANGED members
      /\ UNCHANGED <<org, room, roomRole, retired>>

-----------------------------------------------------------------------------
(* The invite code and the settings.                                        *)

(* POST /v1/orgs/:orgId/invite/regenerate reads the caller, ...             *)
Regenerate(r, u) == Asks(r, "regenerate", u, u, "member", FALSE, If(members[u] # NoMember, "org"))

(* PATCH /v1/orgs/:orgId/settings likewise, ...                             *)
ChangeSettings(r, u, flag) ==
  Asks(r, "settings", u, u, "member", flag, If(canOrganization(members[u], "manage_members"), "org"))

(* ... then the organization, ...                                           *)
ReadOrganization(r) ==
  LET allowed == req[r].op = "regenerate" =>
                   canInviteToOrganization(req[r].caller, org.allowMemberInvites)
  IN  /\ req[r].pc = "org"
      /\ req' = [req EXCEPT ![r].copy = org, ![r].pc = If(allowed, "write org")]
      /\ UNCHANGED <<org, members, room, roomRole, retired>>

(* ... and replaces it: updateOrganization() of the changed copy.           *)
WriteOrganization(r) ==
  LET old == req[r].copy
  IN  /\ req[r].pc = "write org"
      /\ IF req[r].op = "regenerate"
           THEN org' = [old EXCEPT !.joinCode = r] /\ retired' = retired \cup {old.joinCode}
           ELSE org' = [old EXCEPT !.allowMemberInvites = req[r].flag] /\ UNCHANGED retired
      /\ Goes(r, "done")
      /\ UNCHANGED <<members, room, roomRole>>

-----------------------------------------------------------------------------
(* PATCH /v1/orgs/:orgId/members/:userId                                    *)
ChangeRole(r, u, t, role) ==
  Asks(r, "role", u, t, role, FALSE, If(canOrganization(members[u], "manage_members"), "target"))

StepsDown(h, target) == h.by = h.target /\ target.role = "admin" /\ h.role = "member"

MayChange(h, target) ==
  target # NoMember /\ target.role # "owner" /\ MayGrant(h.caller, h.role)

ReadTarget(r) ==
  LET t == members[req[r].target]
  IN  /\ req[r].pc = "target"
      /\ req' = [req EXCEPT ![r].held = t,
           ![r].pc = If(MayChange(req[r], t), IF StepsDown(req[r], t) THEN "list" ELSE "write role")]
      /\ UNCHANGED <<org, members, room, roomRole, retired>>

(* An administrator may step down only if there is another.                 *)
ListAdministrators(r) ==
  LET others == {u \in User \ {req[r].target} : members[u].role = "admin"}
  IN  /\ req[r].pc = "list"
      /\ Goes(r, If(others # {}, "write role"))
      /\ UNCHANGED <<org, members, room, roomRole, retired>>

WriteRole(r) ==
  /\ req[r].pc = "write role"
  /\ members' = [members EXCEPT ![req[r].target] = [req[r].held EXCEPT !.role = req[r].role]]
  /\ Goes(r, "done")
  /\ UNCHANGED <<org, room, roomRole, retired>>

-----------------------------------------------------------------------------
(* POST /v1/orgs/:orgId/rooms, with at most one initial member besides its  *)
(* creator, who is dropped from the list.                                   *)
CreateRoom(r, u, t) ==
  Asks(r, "create", u, t, "member", FALSE, If(canOrganization(members[u], "create_room"), "initial"))

Mutant_anyInitialMember(t) == TRUE
Belongs(t) == members[t] # NoMember

CheckInitial(r) ==
  /\ req[r].pc = "initial"
  /\ Goes(r, If(Belongs(req[r].target), "room"))
  /\ UNCHANGED <<org, members, room, roomRole, retired>>

InsertRoom(r, new) ==
  /\ req[r].pc = "room" /\ room = NoRoom
  /\ room' = new
  /\ Goes(r, "owner")
  /\ UNCHANGED <<org, members, roomRole, retired>>

(* createRoomMembership(), or the owner's insert of createRoom().           *)
InsertRoomMember(r, t, role, pc) ==
  \/ /\ roomRole[t] = "none"
     /\ roomRole' = [roomRole EXCEPT ![t] = role]
     /\ Goes(r, pc)
  \/ /\ roomRole[t] # "none"
     /\ Goes(r, "failed") /\ UNCHANGED roomRole

InsertOwner(r) ==
  LET alone == req[r].target = req[r].by
  IN  /\ req[r].pc = "owner"
      /\ InsertRoomMember(r, req[r].by, "owner", IF alone THEN "done" ELSE "first member")
      /\ UNCHANGED <<org, members, room, retired>>

InsertInitial(r) ==
  /\ req[r].pc = "first member"
  /\ InsertRoomMember(r, req[r].target, "member", "done")
  /\ UNCHANGED <<org, members, room, retired>>

-----------------------------------------------------------------------------
(* Room members.  roomAccess() reads the caller's two memberships at once,  *)
(* in either order.                                                         *)
EntersRoom(r, op, u, t, role) ==
  /\ op \in InRoom /\ room # NoRoom
  /\ req[r].pc = "new" /\ op \in Ops
  /\ req' = [req EXCEPT ![r] = [@ EXCEPT !.pc = "access", !.op = op, !.by = u, !.target = t, !.role = role]]
  /\ UNCHANGED <<org, members, room, roomRole, retired>>

ReadMembership(r) ==
  /\ req[r].pc = "access" /\ req[r].caller = Unread
  /\ req' = [req EXCEPT ![r].caller = members[req[r].by]]
  /\ UNCHANGED <<org, members, room, roomRole, retired>>

ReadRoomMembership(r) ==
  /\ req[r].pc = "access" /\ req[r].callerRoom = "unread"
  /\ req' = [req EXCEPT ![r].callerRoom = roomRole[req[r].by]]
  /\ UNCHANGED <<org, members, room, roomRole, retired>>

DecideAccess(r) ==
  LET h == req[r]
  IN  /\ h.pc = "access" /\ h.caller # Unread /\ h.callerRoom # "unread"
      /\ Goes(r, If(canRoom(h.caller, room, h.callerRoom, "manage"),
                    IF h.op = "roomAdd" THEN "belongs" ELSE "removable"))
      /\ UNCHANGED <<org, members, room, roomRole, retired>>

(* POST /v1/rooms/:roomId/members                                           *)
CheckBelongs(r) ==
  /\ req[r].pc = "belongs"
  /\ Goes(r, If(Belongs(req[r].target), "in room"))
  /\ UNCHANGED <<org, members, room, roomRole, retired>>

CheckRoomMember(r) ==
  /\ req[r].pc = "in room"
  /\ Goes(r, If(roomRole[req[r].target] = "none", "insert room"))
  /\ UNCHANGED <<org, members, room, roomRole, retired>>

AddRoomMember(r) ==
  /\ req[r].pc = "insert room"
  /\ InsertRoomMember(r, req[r].target, req[r].role, "done")
  /\ UNCHANGED <<org, members, room, retired>>

(* DELETE /v1/rooms/:roomId/members/:userId                                 *)
Mutant_anyoneRemovable(t) == roomRole[t] # "none"
Removable(t) == roomRole[t] \notin {"none", "owner"}

CheckRemovable(r) ==
  /\ req[r].pc = "removable"
  /\ Goes(r, If(Removable(req[r].target), "delete"))
  /\ UNCHANGED <<org, members, room, roomRole, retired>>

RemoveRoomMember(r) ==
  /\ req[r].pc = "delete"
  /\ roomRole' = [roomRole EXCEPT ![req[r].target] = "none"]
  /\ Goes(r, "done")
  /\ UNCHANGED <<org, members, room, retired>>

-----------------------------------------------------------------------------
(* A request ends between two repository calls.                             *)
Fail(r) ==
  /\ req[r].pc \in Running
  /\ Goes(r, "failed")
  /\ UNCHANGED <<org, members, room, roomRole, retired>>

Begins(r) ==
  \E u, t \in User :
    \/ \E code \in Code : Join(r, u, code)
    \/ \E role \in {"admin", "member"} : AddMember(r, u, t, role) \/ ChangeRole(r, u, t, role)
    \/ Regenerate(r, u)
    \/ \E flag \in BOOLEAN : ChangeSettings(r, u, flag)
    \/ CreateRoom(r, u, t)
    \/ \E role \in RoomRole \ {"owner"} : EntersRoom(r, "roomAdd", u, t, role)
    \/ EntersRoom(r, "roomRemove", u, t, "member")

Next ==
  \E r \in Request :
    \/ Begins(r) \/ Fail(r)
    \/ CheckMember(r) \/ InsertMember(r)
    \/ ReadOrganization(r) \/ WriteOrganization(r)
    \/ ReadTarget(r) \/ ListAdministrators(r) \/ WriteRole(r)
    \/ CheckInitial(r) \/ InsertOwner(r) \/ InsertInitial(r)
    \/ \E new \in Kinds : InsertRoom(r, new)
    \/ ReadMembership(r) \/ ReadRoomMembership(r) \/ DecideAccess(r)
    \/ CheckBelongs(r) \/ CheckRoomMember(r) \/ AddRoomMember(r)
    \/ CheckRemovable(r) \/ RemoveRoomMember(r)

Spec == Init /\ [][Next]_vars

-----------------------------------------------------------------------------
(* "Only an owner may grant admin": whoever becomes an administrator does so *)
(* in a step of a request whose caller is the owner at that very moment,     *)
(* although the caller's role was read some steps before.                    *)
OwnerGrants ==
  \A u \in User :
    members'[u].role = "admin" /\ members[u].role # "admin" =>
      \E r \in Request : req'[r] # req[r] /\ members[req[r].by].role = "owner"

AdminsGrantedByOwner == [][OwnerGrants]_vars

(* A member stays one, with the attributes once delegated, whatever joins,   *)
(* additions and role changes race; and the owner, "a fallback               *)
(* administrator", stays the owner, so the organization is always managed.   *)
Keeps ==
  \A u \in User : members[u] # NoMember =>
    /\ members'[u] # NoMember
    /\ members'[u].attributes = members[u].attributes
    /\ members'[u].role \in {"admin", "member"} \cup {members[u].role}
    /\ members[u].role = "owner" => members'[u].role = "owner"

MembershipKept == [][Keeps]_vars

(* "Only organization members can be added to a room": whoever has a role in *)
(* the room belongs to the organization, however long ago that was checked.  *)
RoomMembersBelong == \A u \in User : roomRole[u] # "none" => members[u] # NoMember

(* "Creator becomes room owner" and cannot be removed: once a creation has   *)
(* answered, its caller owns the room for good.  The exception: room and     *)
(* owner are two inserts, and somebody who added the creator between them    *)
(* may have been overtaken by a removal that still saw that first role.      *)
AddedByHand ==
  {u \in User : \E q \in Request : req[q].op = "roomAdd" /\ req[q].target = u /\ req[q].pc = "done"}

CreatorOwnsRoom ==
  \A r \in Request : req[r].op = "create" /\ req[r].pc = "done" =>
    roomRole[req[r].by] = "owner" \/ req[r].by \in AddedByHand

(* "Regenerating invalidates the previous code immediately", which the code  *)
(* does not keep (README, 4.2): a code that was replaced never works again.  *)
RetiredCodeStaysRetired == org.joinCode \notin retired

-----------------------------------------------------------------------------
(* The inductive invariant behind Workspace_proofs.                         *)

OneOwner == \A u \in User : members[u].role = "owner" <=> u = Owner

(* What a handler has checked and may still rely on, because memberships    *)
(* are never removed, never lose an attribute, and owners never change.     *)
CheckHolds(r) ==
  LET h == req[r]
  IN  /\ h.pc = "new" => h.caller = Unread
      /\ h.caller.role = "owner" => h.by = Owner
      /\ h.pc \in {"exists", "insert", "target", "list", "write role"} => h.role \in {"admin", "member"}
      /\ h.pc \in {"access", "belongs", "in room", "insert room"} => h.role \in RoomRole
      /\ h.pc \in {"exists", "insert", "list", "write role"} /\ h.role = "admin" => h.by = Owner
      /\ h.pc \in {"list", "write role"} =>
           /\ h.target # Owner /\ members[h.target] # NoMember
           /\ h.held \in Membership
           /\ h.held.attributes = members[h.target].attributes
      /\ h.pc \in {"initial", "room", "owner"} => members[h.by] # NoMember
      /\ h.pc \in {"room", "owner", "first member", "in room", "insert room"} =>
           members[h.target] # NoMember

ChecksHold == \A r \in Request : CheckHolds(r)

(* A handler is only where its operation takes it.                          *)
OnPath(h) ==
  /\ h.pc \in {"exists", "insert"} => h.op \in {"join", "add"}
  /\ h.pc \in {"org", "write org"} => h.op \in {"regenerate", "settings"}
  /\ h.pc \in {"target", "list", "write role"} => h.op = "role"
  /\ h.pc \in {"initial", "room", "owner", "first member"} => h.op = "create"
  /\ h.pc = "access" => h.op \in InRoom
  /\ h.pc \in {"belongs", "in room", "insert room"} => h.op = "roomAdd"
  /\ h.pc \in {"removable", "delete"} => h.op = "roomRemove"

OwnPath == \A r \in Request : OnPath(req[r])

Creating(r) == req[r].op = "create" /\ req[r].pc \in {"owner", "first member", "done"}

(* One creation made the room, and before it the room has no members and no *)
(* requests.                                                                *)
RoomBegins ==
  /\ \A r \in Request :
       Creating(r) \/ (req[r].op \in InRoom /\ req[r].pc \in Running) => room # NoRoom
  /\ \A q, r \in Request : Creating(q) /\ Creating(r) => q = r
  /\ room = NoRoom => \A u \in User : roomRole[u] = "none"

(* A removal reaches an owner only if that user was added by hand.          *)
Untouched(r) ==
  LET h == req[r]
  IN  /\ h.pc = "owner" /\ roomRole[h.by] # "none" => h.by \in AddedByHand
      /\ h.pc = "first member" => roomRole[h.by] = "owner" \/ h.by \in AddedByHand
      /\ h.pc = "delete" =>
           h.target \in AddedByHand
           \/ /\ roomRole[h.target] # "owner"
              /\ \A q \in Request : req[q].pc = "owner" => req[q].by # h.target

OwnerUntouched == \A r \in Request : Untouched(r)

IInv ==
  /\ TypeOK /\ OneOwner /\ RoomMembersBelong /\ ChecksHold
  /\ OwnPath /\ RoomBegins /\ OwnerUntouched /\ CreatorOwnsRoom
=============================================================================
