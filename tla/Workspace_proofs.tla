--------------------------- MODULE Workspace_proofs ---------------------------
(***************************************************************************)
(* Proofs about Workspace, for any requests, users, attribute sets and     *)
(* kinds of room.                                                          *)
(***************************************************************************)
EXTENDS Workspace, TLAPS

-----------------------------------------------------------------------------
(* What a step does to a handler.                                           *)

SameRequest(h, i) == i.op = h.op /\ i.by = h.by /\ i.target = h.target /\ i.role = h.role
SameReads(h, i) == i.caller = h.caller /\ i.callerRoom = h.callerRoom /\ i.held = h.held
OthersWait(r) == \A q \in Request : q # r => req'[q] = req[q]

(* A handler that moves on, and nothing else.                               *)
LEMMA GoesFrame ==
  ASSUME TypeOK, NEW r \in Request, NEW pc, Goes(r, pc)
  PROVE  /\ OthersWait(r) /\ req'[r].pc = pc
         /\ SameRequest(req[r], req'[r]) /\ SameReads(req[r], req'[r])
BY DEF TypeOK, Goes, Handler, OthersWait, SameRequest, SameReads

LEMMA GoesType ==
  ASSUME TypeOK, NEW r \in Request, NEW pc \in Running \cup {"done", "refused", "failed"}, Goes(r, pc)
  PROVE  req' \in [Request -> Handler]
BY DEF TypeOK, Goes, Handler

(* A request that begins by reading its caller's membership.                *)
LEMMA AsksFrame ==
  ASSUME TypeOK, NEW r \in Request, NEW op, NEW by, NEW target, NEW role, NEW flag, NEW pc,
         Asks(r, op, by, target, role, flag, pc)
  PROVE  /\ OthersWait(r) /\ req[r].pc = "new"
         /\ req'[r].pc = pc /\ req'[r].op = op /\ req'[r].by = by /\ req'[r].target = target
         /\ req'[r].role = role /\ req'[r].caller = members[by]
         /\ UNCHANGED <<org, members, room, roomRole, retired>>
BY DEF TypeOK, Asks, Handler, OthersWait

LEMMA AsksType ==
  ASSUME TypeOK, NEW r \in Request, NEW op \in Op, NEW by \in User, NEW target \in User,
         NEW role \in {"admin", "host", "member", "viewer"}, NEW flag \in BOOLEAN,
         NEW pc \in Running \cup {"refused"},
         Asks(r, op, by, target, role, flag, pc)
  PROVE  TypeOK'
<1>1. members[by] \in Membership \cup {NoMember, Unread}
  BY DEF TypeOK
<1> DEFINE new == [req[r] EXCEPT !.pc = pc, !.op = op, !.by = by, !.target = target,
                     !.role = role, !.flag = flag, !.caller = members[by]]
<1>2. req[r] \in Handler /\ req \in [Request -> Handler]
  BY DEF TypeOK
<1>3. new \in Handler
  BY <1>1, <1>2 DEF Handler
<1>4. req' = [req EXCEPT ![r] = new] /\ UNCHANGED <<org, members, room, roomRole, retired>>
  BY DEF Asks
<1> HIDE DEF new
<1>5. req' \in [Request -> Handler]
  BY <1>2, <1>3, <1>4
<1> QED
  BY <1>4, <1>5 DEF TypeOK

(* A request about the room begins.                                         *)
LEMMA EntersFrame ==
  ASSUME TypeOK, NEW r \in Request, NEW op \in InRoom, NEW u \in User, NEW t \in User,
         NEW role \in {"host", "member", "viewer"}, EntersRoom(r, op, u, t, role)
  PROVE  /\ TypeOK' /\ OthersWait(r)
         /\ req[r].pc = "new" /\ room # NoRoom /\ UNCHANGED <<org, members, room, roomRole, retired>>
         /\ req'[r].pc = "access" /\ req'[r].op = op /\ req'[r].by = u /\ req'[r].target = t
         /\ req'[r].role = role /\ SameReads(req[r], req'[r])
<1> DEFINE new == [req[r] EXCEPT !.pc = "access", !.op = op, !.by = u, !.target = t, !.role = role]
<1>1. req[r] \in Handler /\ req \in [Request -> Handler]
  BY DEF TypeOK
<1>2. op \in Op /\ "access" \in Running
  BY DEF Op, Running
<1>3. new \in Handler
  BY <1>1, <1>2 DEF Handler
<1>4. /\ new.pc = "access" /\ new.op = op /\ new.by = u /\ new.target = t
      /\ new.role = role /\ SameReads(req[r], new)
  BY <1>1 DEF Handler, SameReads
<1>5. /\ req' = [req EXCEPT ![r] = new] /\ req[r].pc = "new" /\ room # NoRoom
      /\ UNCHANGED <<org, members, room, roomRole, retired>>
  BY DEF EntersRoom
<1> HIDE DEF new
<1>6. req' \in [Request -> Handler] /\ OthersWait(r) /\ req'[r] = new
  BY <1>1, <1>3, <1>5 DEF OthersWait
<1>7. TypeOK'
  BY <1>5, <1>6 DEF TypeOK
<1> QED
  BY <1>4, <1>5, <1>6, <1>7

(* The handlers that read a document and keep it.                           *)
LEMMA ReadFrame ==
  ASSUME TypeOK, NEW r \in Request, ReadMembership(r) \/ ReadRoomMembership(r)
  PROVE  /\ TypeOK' /\ OthersWait(r) /\ req'[r].pc = req[r].pc
         /\ SameRequest(req[r], req'[r]) /\ req'[r].held = req[r].held
         /\ req'[r].caller \in {req[r].caller, members[req[r].by]}
BY DEF TypeOK, ReadMembership, ReadRoomMembership, Handler, OthersWait, SameRequest

LEMMA ReadOrganizationFrame ==
  ASSUME TypeOK, NEW r \in Request, ReadOrganization(r)
  PROVE  /\ TypeOK' /\ OthersWait(r) /\ req'[r].pc \in {"write org", "refused"}
         /\ SameRequest(req[r], req'[r]) /\ SameReads(req[r], req'[r])
<1> DEFINE allowed == req[r].op = "regenerate" => canInviteToOrganization(req[r].caller, org.allowMemberInvites)
           pc == If(allowed, "write org")
<1>1. pc \in {"write org", "refused"}
  BY DEF If
<1>2. req' = [req EXCEPT ![r].copy = org, ![r].pc = pc] /\ UNCHANGED <<org, members, room, roomRole, retired>>
  BY DEF ReadOrganization
<1> DEFINE new == [req[r] EXCEPT !.copy = org, !.pc = pc]
<1> HIDE DEF pc
<1>3. req[r] \in Handler /\ req \in [Request -> Handler] /\ org \in Organization
  BY DEF TypeOK
<1>4. pc \in Running \cup {"refused"}
  BY <1>1 DEF Running
<1>5. new \in Handler /\ new.pc = pc /\ SameRequest(req[r], new) /\ SameReads(req[r], new)
  BY <1>3, <1>4 DEF Handler, SameRequest, SameReads
<1>6. req' = [req EXCEPT ![r] = new]
  BY <1>2, <1>3 DEF Handler
<1> HIDE DEF new
<1>7. req' \in [Request -> Handler] /\ OthersWait(r) /\ req'[r] = new
  BY <1>3, <1>5, <1>6 DEF OthersWait
<1>8. TypeOK'
  BY <1>2, <1>7 DEF TypeOK
<1> QED
  BY <1>1, <1>5, <1>7, <1>8

LEMMA ReadTargetFrame ==
  ASSUME TypeOK, NEW r \in Request, ReadTarget(r)
  PROVE  /\ TypeOK' /\ OthersWait(r) /\ req[r].pc = "target"
         /\ UNCHANGED <<org, members, room, roomRole, retired>>
         /\ req'[r].pc \in {"list", "write role", "refused"}
         /\ req'[r].pc # "refused" => MayChange(req[r], members[req[r].target])
         /\ SameRequest(req[r], req'[r]) /\ req'[r].caller = req[r].caller
         /\ req'[r].held = members[req[r].target]
<1> DEFINE t == members[req[r].target]
           pc == If(MayChange(req[r], t), IF StepsDown(req[r], t) THEN "list" ELSE "write role")
<1>1. pc \in {"list", "write role", "refused"} /\ (pc # "refused" => MayChange(req[r], t))
  BY DEF If
<1>2. /\ req' = [req EXCEPT ![r].held = t, ![r].pc = pc] /\ req[r].pc = "target"
      /\ UNCHANGED <<org, members, room, roomRole, retired>>
  BY DEF ReadTarget
<1>3. t \in Membership \cup {NoMember}
  BY DEF TypeOK, Handler
<1> HIDE DEF pc, t
<1> DEFINE new == [req[r] EXCEPT !.held = t, !.pc = pc]
<1>4. req[r] \in Handler /\ req \in [Request -> Handler]
  BY DEF TypeOK
<1>5. pc \in Running \cup {"refused"}
  BY <1>1 DEF Running
<1>6. /\ new \in Handler /\ new.pc = pc /\ new.held = t
      /\ SameRequest(req[r], new) /\ new.caller = req[r].caller
  BY <1>3, <1>4, <1>5 DEF Handler, SameRequest
<1>7. req' = [req EXCEPT ![r] = new]
  BY <1>2, <1>4 DEF Handler
<1> HIDE DEF new
<1>8. req' \in [Request -> Handler] /\ OthersWait(r) /\ req'[r] = new
  BY <1>4, <1>6, <1>7 DEF OthersWait
<1>9. TypeOK'
  BY <1>2, <1>8 DEF TypeOK
<1> QED
  BY <1>1, <1>2, <1>6, <1>8, <1>9 DEF t

-----------------------------------------------------------------------------
(* Types.                                                                   *)

LEMMA HandlerFields ==
  ASSUME TypeOK, NEW r \in Request
  PROVE  /\ req[r].by \in User /\ req[r].target \in User /\ req[r].flag \in BOOLEAN
         /\ req[r].copy \in Organization /\ req[r].pc \in Running \cup {"new", "done", "refused", "failed"}
         /\ req[r].held \in Membership \cup {NoMember}
BY DEF TypeOK, Handler

(* A role given or changed leaves a membership.                             *)
LEMMA GrantedType ==
  /\ \A role \in {"admin", "member"}, given \in Grants \cup {{}} :
       [role |-> role, attributes |-> given] \in Membership
  /\ \A role \in {"admin", "member"}, held \in Membership :
       [held EXCEPT !.role = role] \in Membership
BY KindsAssumption DEF Membership

(* Every step keeps the types.                                              *)
LEMMA Typing == IInv /\ [Next]_vars => TypeOK'
<1> SUFFICES ASSUME IInv, [Next]_vars PROVE TypeOK'
  OBVIOUS
<1> TypeOK
  BY DEF IInv
<1>1. CASE UNCHANGED vars
  BY <1>1 DEF vars, TypeOK
<1>2. CASE Next
  <2> PICK r \in Request :
         \/ Begins(r)
         \/ Fail(r)
         \/ CheckMember(r)
         \/ InsertMember(r)
         \/ ReadOrganization(r)
         \/ WriteOrganization(r)
         \/ ReadTarget(r)
         \/ ListAdministrators(r)
         \/ WriteRole(r)
         \/ CheckInitial(r)
         \/ InsertOwner(r)
         \/ InsertInitial(r)
         \/ \E new \in Kinds : InsertRoom(r, new)
         \/ ReadMembership(r)
         \/ ReadRoomMembership(r)
         \/ DecideAccess(r)
         \/ CheckBelongs(r)
         \/ CheckRoomMember(r)
         \/ AddRoomMember(r)
         \/ CheckRemovable(r)
         \/ RemoveRoomMember(r)
    BY <1>2 DEF Next
  <2>1. CASE Begins(r)
    <3> PICK u \in User, t \in User :
           \/ \E code \in Code : Join(r, u, code)
           \/ \E role \in {"admin", "member"} : AddMember(r, u, t, role)
           \/ \E role \in {"admin", "member"} : ChangeRole(r, u, t, role)
           \/ Regenerate(r, u)
           \/ \E flag \in BOOLEAN : ChangeSettings(r, u, flag)
           \/ CreateRoom(r, u, t)
           \/ \E role \in RoomRole \ {"owner"} : EntersRoom(r, "roomAdd", u, t, role)
           \/ EntersRoom(r, "roomRemove", u, t, "member")
      BY <2>1 DEF Begins
    <3>1. CASE \E code \in Code : Join(r, u, code)
      BY <3>1, AsksType DEF Join, If, Op, InOrganization, Running
    <3>2. CASE \E role \in {"admin", "member"} : AddMember(r, u, t, role)
      BY <3>2, AsksType DEF AddMember, If, Op, InOrganization, Running
    <3>3. CASE \E role \in {"admin", "member"} : ChangeRole(r, u, t, role)
      BY <3>3, AsksType DEF ChangeRole, If, Op, InOrganization, Running
    <3>4. CASE Regenerate(r, u)
      BY <3>4, AsksType DEF Regenerate, If, Op, InOrganization, Running
    <3>5. CASE \E flag \in BOOLEAN : ChangeSettings(r, u, flag)
      BY <3>5, AsksType DEF ChangeSettings, If, Op, InOrganization, Running
    <3>6. CASE CreateRoom(r, u, t)
      BY <3>6, AsksType DEF CreateRoom, If, Op, InOrganization, Running
    <3>7. CASE \E role \in RoomRole \ {"owner"} : EntersRoom(r, "roomAdd", u, t, role)
      BY <3>7, EntersFrame DEF InRoom, RoomRole
    <3>8. CASE EntersRoom(r, "roomRemove", u, t, "member")
      BY <3>8, EntersFrame DEF InRoom, RoomRole
    <3> QED
      BY <3>1, <3>2, <3>3, <3>4, <3>5, <3>6, <3>7, <3>8
  <2>2. CASE Fail(r)
    BY <2>2, GoesType DEF TypeOK, Fail, If, Running
  <2>3. CASE CheckMember(r)
    BY <2>3, GoesType DEF TypeOK, CheckMember, If, Running
  <2>4. CASE InsertMember(r)
    <3>1. req' \in [Request -> Handler]
      BY <2>4, GoesType DEF InsertMember
    <3>2. \/ members' = members
          \/ \E given \in Grants \cup {{}} :
               members' = [members EXCEPT ![req[r].target] = [role |-> req[r].role, attributes |-> given]]
      BY <2>4 DEF InsertMember
    <3>3. req[r].role \in {"admin", "member"}
      BY <2>4 DEF InsertMember, IInv, ChecksHold, CheckHolds
    <3>4. members' = members \/ \E m \in Membership : members' = [members EXCEPT ![req[r].target] = m]
      BY <3>2, <3>3, GrantedType
    <3>5. members' \in [User -> Membership \cup {NoMember}]
      BY <3>4, HandlerFields DEF TypeOK
    <3> QED
      BY <2>4, <3>1, <3>5 DEF InsertMember, TypeOK
  <2>5. CASE ReadOrganization(r)
    BY <2>5, ReadOrganizationFrame
  <2>6. CASE WriteOrganization(r)
    <3>1. req' \in [Request -> Handler]
      BY <2>6, GoesType DEF WriteOrganization
    <3> DEFINE old == req[r].copy
    <3>2. old \in Organization
      BY HandlerFields
    <3>3. /\ [old EXCEPT !.joinCode = r] \in Organization
          /\ [old EXCEPT !.allowMemberInvites = req[r].flag] \in Organization
      BY <3>2, HandlerFields DEF Organization, Code
    <3>4. old.joinCode \in Code
      BY <3>2 DEF Organization
    <3> HIDE DEF old
    <3>5. org' \in Organization /\ retired' \subseteq Code
      BY <2>6, <3>3, <3>4 DEF WriteOrganization, TypeOK, old
    <3> QED
      BY <2>6, <3>1, <3>5 DEF WriteOrganization, TypeOK
  <2>7. CASE ReadTarget(r)
    BY <2>7, ReadTargetFrame
  <2>8. CASE ListAdministrators(r)
    BY <2>8, GoesType DEF TypeOK, ListAdministrators, If, Running
  <2>9. CASE WriteRole(r)
    BY <2>9, GoesType, HandlerFields, GrantedType DEF IInv, ChecksHold, CheckHolds, TypeOK, WriteRole
  <2>10. CASE CheckInitial(r)
    BY <2>10, GoesType DEF TypeOK, CheckInitial, If, Running
  <2>11. CASE InsertOwner(r)
    BY <2>11, GoesType, HandlerFields DEF TypeOK, InsertOwner, InsertRoomMember, Running, RoomRole
  <2>12. CASE InsertInitial(r)
    <3>1. req' \in [Request -> Handler]
      BY <2>12, GoesType DEF InsertInitial, InsertRoomMember
    <3>2. roomRole' \in [User -> RoomRole \cup {"none"}]
      BY <2>12, HandlerFields DEF InsertInitial, InsertRoomMember, RoomRole, TypeOK
    <3> QED
      BY <2>12, <3>1, <3>2 DEF InsertInitial, TypeOK
  <2>13. CASE \E new \in Kinds : InsertRoom(r, new)
    BY <2>13, GoesType, KindsAssumption DEF TypeOK, InsertRoom, Running
  <2>14. CASE ReadMembership(r)
    BY <2>14, ReadFrame
  <2>15. CASE ReadRoomMembership(r)
    BY <2>15, ReadFrame
  <2>16. CASE DecideAccess(r)
    BY <2>16, GoesType DEF TypeOK, DecideAccess, If, Running
  <2>17. CASE CheckBelongs(r)
    BY <2>17, GoesType DEF TypeOK, CheckBelongs, If, Running
  <2>18. CASE CheckRoomMember(r)
    BY <2>18, GoesType DEF TypeOK, CheckRoomMember, If, Running
  <2>19. CASE AddRoomMember(r)
    BY <2>19, GoesType, HandlerFields DEF IInv, ChecksHold, CheckHolds, TypeOK, AddRoomMember, InsertRoomMember
  <2>20. CASE CheckRemovable(r)
    BY <2>20, GoesType DEF TypeOK, CheckRemovable, If, Running
  <2>21. CASE RemoveRoomMember(r)
    BY <2>21, GoesType, HandlerFields DEF TypeOK, RemoveRoomMember
  <2> QED
    BY <2>1, <2>2, <2>3, <2>4, <2>5, <2>6, <2>7, <2>8, <2>9, <2>10, <2>11, <2>12, <2>13, <2>14, <2>15, <2>16, <2>17, <2>18, <2>19, <2>20, <2>21
<1> QED
  BY <1>1, <1>2

-----------------------------------------------------------------------------
(* Memberships.                                                             *)

(* "owner" is a role nobody is given.                                       *)
SameOwners == \A u \in User : members'[u].role = "owner" <=> members[u].role = "owner"

LEMMA SameMembers ==
  ASSUME TypeOK, UNCHANGED members
  PROVE  Keeps /\ SameOwners /\ OwnerGrants
BY DEF Keeps, SameOwners, OwnerGrants, TypeOK, Membership

LEMMA MemberShape ==
  /\ \A m \in Membership : m # NoMember /\ m.role \in {"owner", "admin", "member"}
  /\ NoMember.role = "none"
BY DEF Membership, NoMember

LEMMA GrantersOwn ==
  ASSUME IInv, NEW r \in Request, req[r].pc \in {"insert", "write role"}, req[r].role = "admin"
  PROVE  members[req[r].by].role = "owner"
BY OwnerAssumption DEF IInv, ChecksHold, CheckHolds, OneOwner

(* Only two steps write memberships: a checked insert and a checked update. *)
LEMMA MembersStep == IInv /\ [Next]_vars => Keeps /\ SameOwners /\ OwnerGrants
<1> SUFFICES ASSUME IInv, [Next]_vars PROVE Keeps /\ SameOwners /\ OwnerGrants
  OBVIOUS
<1> TypeOK
  BY DEF IInv
<1>1. CASE UNCHANGED vars
  BY <1>1, SameMembers DEF vars
<1>2. CASE Next
  <2> PICK r \in Request :
         \/ Begins(r)
         \/ Fail(r)
         \/ CheckMember(r)
         \/ InsertMember(r)
         \/ ReadOrganization(r)
         \/ WriteOrganization(r)
         \/ ReadTarget(r)
         \/ ListAdministrators(r)
         \/ WriteRole(r)
         \/ CheckInitial(r)
         \/ InsertOwner(r)
         \/ InsertInitial(r)
         \/ \E new \in Kinds : InsertRoom(r, new)
         \/ ReadMembership(r)
         \/ ReadRoomMembership(r)
         \/ DecideAccess(r)
         \/ CheckBelongs(r)
         \/ CheckRoomMember(r)
         \/ AddRoomMember(r)
         \/ CheckRemovable(r)
         \/ RemoveRoomMember(r)
    BY <1>2 DEF Next
  <2>1. CASE Begins(r)
    <3> PICK u \in User, t \in User :
           \/ \E code \in Code : Join(r, u, code)
           \/ \E role \in {"admin", "member"} : AddMember(r, u, t, role)
           \/ \E role \in {"admin", "member"} : ChangeRole(r, u, t, role)
           \/ Regenerate(r, u)
           \/ \E flag \in BOOLEAN : ChangeSettings(r, u, flag)
           \/ CreateRoom(r, u, t)
           \/ \E role \in RoomRole \ {"owner"} : EntersRoom(r, "roomAdd", u, t, role)
           \/ EntersRoom(r, "roomRemove", u, t, "member")
      BY <2>1 DEF Begins
    <3>1. CASE \E code \in Code : Join(r, u, code)
      BY <3>1, SameMembers DEF Join, Asks
    <3>2. CASE \E role \in {"admin", "member"} : AddMember(r, u, t, role)
      BY <3>2, SameMembers DEF AddMember, Asks
    <3>3. CASE \E role \in {"admin", "member"} : ChangeRole(r, u, t, role)
      BY <3>3, SameMembers DEF ChangeRole, Asks
    <3>4. CASE Regenerate(r, u)
      BY <3>4, SameMembers DEF Regenerate, Asks
    <3>5. CASE \E flag \in BOOLEAN : ChangeSettings(r, u, flag)
      BY <3>5, SameMembers DEF ChangeSettings, Asks
    <3>6. CASE CreateRoom(r, u, t)
      BY <3>6, SameMembers DEF CreateRoom, Asks
    <3>7. CASE \E role \in RoomRole \ {"owner"} : EntersRoom(r, "roomAdd", u, t, role)
      BY <3>7, SameMembers DEF EntersRoom
    <3>8. CASE EntersRoom(r, "roomRemove", u, t, "member")
      BY <3>8, SameMembers DEF EntersRoom
    <3> QED
      BY <3>1, <3>2, <3>3, <3>4, <3>5, <3>6, <3>7, <3>8
  <2>2. CASE Fail(r)
    BY <2>2, SameMembers DEF Fail
  <2>3. CASE CheckMember(r)
    BY <2>3, SameMembers DEF CheckMember
  <2>4. CASE InsertMember(r)
    <3> DEFINE t == req[r].target
    <3>1. t \in User /\ req[r].role \in {"admin", "member"} /\ req[r].pc = "insert"
      BY <2>4, HandlerFields DEF InsertMember, IInv, ChecksHold, CheckHolds
    <3>2. CASE UNCHANGED members
      BY <3>2, SameMembers
    <3>3. CASE /\ members[t] = NoMember /\ Goes(r, "done")
               /\ \E given \in Grants \cup {{}} :
                    members' = [members EXCEPT ![t] = [role |-> req[r].role, attributes |-> given]]
      <4>1. PICK m \in Membership : m.role = req[r].role /\ members' = [members EXCEPT ![t] = m]
        BY <3>1, <3>3, GrantedType
      <4>2. /\ members'[t] = m
            /\ \A u \in User : u # t => members'[u] = members[u]
        BY <3>1, <4>1 DEF TypeOK
      <4>3. req'[r] # req[r] /\ (req[r].role = "admin" => members[req[r].by].role = "owner")
        BY <3>1, <3>3, GrantersOwn, GoesFrame
      <4> HIDE DEF t
      <4> QED
        BY <3>1, <3>3, <4>1, <4>2, <4>3, MemberShape DEF Keeps, SameOwners, OwnerGrants
    <3> QED
      BY <2>4, <3>2, <3>3 DEF InsertMember, IndexAllows
  <2>5. CASE ReadOrganization(r)
    BY <2>5, SameMembers DEF ReadOrganization
  <2>6. CASE WriteOrganization(r)
    BY <2>6, SameMembers DEF WriteOrganization
  <2>7. CASE ReadTarget(r)
    BY <2>7, SameMembers DEF ReadTarget
  <2>8. CASE ListAdministrators(r)
    BY <2>8, SameMembers DEF ListAdministrators
  <2>9. CASE WriteRole(r)
    <3> DEFINE t == req[r].target
           m == [req[r].held EXCEPT !.role = req[r].role]
    <3>1. /\ t \in User /\ members' = [members EXCEPT ![t] = m]
          /\ req[r].role \in {"admin", "member"} /\ req[r].held \in Membership
          /\ members[t] # NoMember /\ t # Owner /\ req[r].held.attributes = members[t].attributes
      BY <2>9, HandlerFields DEF WriteRole, IInv, ChecksHold, CheckHolds
    <3>2. m \in Membership /\ m.role = req[r].role /\ m.attributes = req[r].held.attributes
      BY <3>1, GrantedType DEF Membership
    <3> HIDE DEF m
    <3>3. /\ members'[t] = m
          /\ \A u \in User : u # t => members'[u] = members[u]
      BY <3>1 DEF TypeOK
    <3>4. members[t].role # "owner"
      BY <3>1 DEF IInv, OneOwner
    <3>5. req'[r] # req[r] /\ (req[r].role = "admin" => members[req[r].by].role = "owner")
      <4>1. Goes(r, "done") /\ req[r].pc = "write role"
        BY <2>9 DEF WriteRole
      <4>2. req'[r].pc = "done" /\ req[r].pc = "write role"
        BY <4>1, GoesFrame
      <4> QED
        BY <4>2, GrantersOwn
    <3> QED
      BY <3>1, <3>2, <3>3, <3>4, <3>5, MemberShape DEF Keeps, SameOwners, OwnerGrants
  <2>10. CASE CheckInitial(r)
    BY <2>10, SameMembers DEF CheckInitial
  <2>11. CASE InsertOwner(r)
    BY <2>11, SameMembers DEF InsertOwner
  <2>12. CASE InsertInitial(r)
    BY <2>12, SameMembers DEF InsertInitial
  <2>13. CASE \E new \in Kinds : InsertRoom(r, new)
    BY <2>13, SameMembers DEF InsertRoom
  <2>14. CASE ReadMembership(r)
    BY <2>14, SameMembers DEF ReadMembership
  <2>15. CASE ReadRoomMembership(r)
    BY <2>15, SameMembers DEF ReadRoomMembership
  <2>16. CASE DecideAccess(r)
    BY <2>16, SameMembers DEF DecideAccess
  <2>17. CASE CheckBelongs(r)
    BY <2>17, SameMembers DEF CheckBelongs
  <2>18. CASE CheckRoomMember(r)
    BY <2>18, SameMembers DEF CheckRoomMember
  <2>19. CASE AddRoomMember(r)
    BY <2>19, SameMembers DEF AddRoomMember
  <2>20. CASE CheckRemovable(r)
    BY <2>20, SameMembers DEF CheckRemovable
  <2>21. CASE RemoveRoomMember(r)
    BY <2>21, SameMembers DEF RemoveRoomMember
  <2> QED
    BY <2>1, <2>2, <2>3, <2>4, <2>5, <2>6, <2>7, <2>8, <2>9, <2>10, <2>11, <2>12, <2>13, <2>14, <2>15, <2>16, <2>17, <2>18, <2>19, <2>20, <2>21
<1> QED
  BY <1>1, <1>2

-----------------------------------------------------------------------------
(* What handlers have checked still holds.                                  *)

LEMMA OthersHold ==
  ASSUME IInv, NEW r \in Request, OthersWait(r), Keeps
  PROVE  \A q \in Request : q # r => CheckHolds(q)'
<1> SUFFICES ASSUME NEW q \in Request, q # r PROVE CheckHolds(q)'
  OBVIOUS
<1>1. CheckHolds(q) /\ req'[q] = req[q] /\ req[q].by \in User /\ req[q].target \in User
  BY HandlerFields DEF IInv, ChecksHold, OthersWait
<1> QED
  BY <1>1 DEF CheckHolds, Keeps

(* A handler that only moves on.                                            *)
LEMMA MoverHolds ==
  ASSUME IInv, Keeps, NEW r \in Request, NEW pc \in Running \cup {"done", "refused", "failed"}, Goes(r, pc),
         pc \in {"exists", "insert", "target", "list", "write role"} => req[r].pc \in {"exists", "insert", "list", "write role"},
         pc \in {"list", "write role"} => req[r].pc \in {"list", "write role"},
         pc \in {"access", "belongs", "in room", "insert room"} =>
           req[r].pc \in {"access", "belongs", "in room", "insert room"},
         pc \in {"initial", "room", "owner"} => req[r].pc \in {"initial", "room", "owner"},
         pc \in {"room", "owner", "first member", "in room", "insert room"} => members[req[r].target] # NoMember
  PROVE  ChecksHold'
<1> pc # "new"
  BY DEF Running
<1>1. /\ OthersWait(r) /\ req'[r].pc = pc
      /\ SameRequest(req[r], req'[r]) /\ SameReads(req[r], req'[r])
  BY GoesFrame DEF IInv
<1>2. CheckHolds(r) /\ req[r].by \in User /\ req[r].target \in User
  BY HandlerFields DEF IInv, ChecksHold
<1>3. CheckHolds(r)'
  BY <1>1, <1>2 DEF CheckHolds, Keeps, SameRequest, SameReads
<1> QED
  BY <1>1, <1>3, OthersHold DEF ChecksHold

LEMMA AskerHolds ==
  ASSUME IInv, Keeps, NEW r \in Request, NEW op \in Op, NEW by \in User, NEW target \in User,
         NEW role \in {"admin", "host", "member", "viewer"}, NEW flag \in BOOLEAN,
         NEW pc \in {"exists", "target", "org", "initial", "refused"},
         Asks(r, op, by, target, role, flag, pc),
         pc \in {"exists", "target"} => role \in {"admin", "member"},
         pc = "exists" /\ role = "admin" => members[by].role = "owner",
         pc = "initial" => members[by] # NoMember
  PROVE  ChecksHold'
<1>1. /\ OthersWait(r) /\ req'[r].pc = pc /\ req'[r].by = by /\ req'[r].target = target
      /\ req'[r].role = role /\ req'[r].caller = members[by] /\ UNCHANGED members
  BY AsksFrame DEF IInv
<1>2. CheckHolds(r)'
  BY <1>1 DEF CheckHolds, IInv, OneOwner
<1> QED
  BY <1>1, <1>2, OthersHold DEF ChecksHold

(* Every check a handler made outlasts every step, its own and others.      *)
LEMMA ChecksStep == IInv /\ [Next]_vars => ChecksHold'
<1> SUFFICES ASSUME IInv, [Next]_vars PROVE ChecksHold'
  OBVIOUS
<1> TypeOK
  BY DEF IInv
<1> Keeps
  BY MembersStep
<1>1. CASE UNCHANGED vars
  BY <1>1 DEF vars, IInv, ChecksHold, CheckHolds
<1>2. CASE Next
  <2> PICK r \in Request :
         \/ Begins(r)
         \/ Fail(r)
         \/ CheckMember(r)
         \/ InsertMember(r)
         \/ ReadOrganization(r)
         \/ WriteOrganization(r)
         \/ ReadTarget(r)
         \/ ListAdministrators(r)
         \/ WriteRole(r)
         \/ CheckInitial(r)
         \/ InsertOwner(r)
         \/ InsertInitial(r)
         \/ \E new \in Kinds : InsertRoom(r, new)
         \/ ReadMembership(r)
         \/ ReadRoomMembership(r)
         \/ DecideAccess(r)
         \/ CheckBelongs(r)
         \/ CheckRoomMember(r)
         \/ AddRoomMember(r)
         \/ CheckRemovable(r)
         \/ RemoveRoomMember(r)
    BY <1>2 DEF Next
  <2>1. CASE Begins(r)
    <3> PICK u \in User, t \in User :
           \/ \E code \in Code : Join(r, u, code)
           \/ \E role \in {"admin", "member"} : AddMember(r, u, t, role)
           \/ \E role \in {"admin", "member"} : ChangeRole(r, u, t, role)
           \/ Regenerate(r, u)
           \/ \E flag \in BOOLEAN : ChangeSettings(r, u, flag)
           \/ CreateRoom(r, u, t)
           \/ \E role \in RoomRole \ {"owner"} : EntersRoom(r, "roomAdd", u, t, role)
           \/ EntersRoom(r, "roomRemove", u, t, "member")
      BY <2>1 DEF Begins
    <3>1. CASE \E code \in Code : Join(r, u, code)
      BY <3>1, AskerHolds DEF Join, If, Op, InOrganization, canOrganization, MayGrant
    <3>2. CASE \E role \in {"admin", "member"} : AddMember(r, u, t, role)
      BY <3>2, AskerHolds DEF AddMember, If, Op, InOrganization, canOrganization, MayGrant
    <3>3. CASE \E role \in {"admin", "member"} : ChangeRole(r, u, t, role)
      BY <3>3, AskerHolds DEF ChangeRole, If, Op, InOrganization, canOrganization, MayGrant
    <3>4. CASE Regenerate(r, u)
      BY <3>4, AskerHolds DEF Regenerate, If, Op, InOrganization, canOrganization, MayGrant
    <3>5. CASE \E flag \in BOOLEAN : ChangeSettings(r, u, flag)
      BY <3>5, AskerHolds DEF ChangeSettings, If, Op, InOrganization, canOrganization, MayGrant
    <3>6. CASE CreateRoom(r, u, t)
      BY <3>6, AskerHolds DEF CreateRoom, If, Op, InOrganization, canOrganization, MayGrant
    <3>7. CASE \E role \in RoomRole \ {"owner"} : EntersRoom(r, "roomAdd", u, t, role)
      <4>1. /\ OthersWait(r) /\ req[r].pc = "new" /\ req'[r].pc = "access" /\ SameReads(req[r], req'[r])
            /\ req'[r].role \in RoomRole
        BY <3>7, EntersFrame DEF InRoom, RoomRole
      <4>2. req'[r].caller = Unread /\ Unread.role # "owner"
        BY <4>1 DEF CheckHolds, SameReads, IInv, ChecksHold, Unread
      <4>3. CheckHolds(r)'
        BY <4>1, <4>2 DEF CheckHolds
      <4> QED
        BY <4>1, <4>3, OthersHold DEF ChecksHold
    <3>8. CASE EntersRoom(r, "roomRemove", u, t, "member")
      <4>1. /\ OthersWait(r) /\ req[r].pc = "new" /\ req'[r].pc = "access" /\ SameReads(req[r], req'[r])
            /\ req'[r].role \in RoomRole
        BY <3>8, EntersFrame DEF InRoom, RoomRole
      <4>2. req'[r].caller = Unread /\ Unread.role # "owner"
        BY <4>1 DEF CheckHolds, SameReads, IInv, ChecksHold, Unread
      <4>3. CheckHolds(r)'
        BY <4>1, <4>2 DEF CheckHolds
      <4> QED
        BY <4>1, <4>3, OthersHold DEF ChecksHold
    <3> QED
      BY <3>1, <3>2, <3>3, <3>4, <3>5, <3>6, <3>7, <3>8
  <2>2. CASE Fail(r)
    BY <2>2, MoverHolds DEF Fail, If, Belongs, Running, IInv, ChecksHold, CheckHolds
  <2>3. CASE CheckMember(r)
    BY <2>3, MoverHolds DEF CheckMember, If, Belongs, Running, IInv, ChecksHold, CheckHolds
  <2>4. CASE InsertMember(r)
    BY <2>4, MoverHolds DEF InsertMember, If, Belongs, Running, IInv, ChecksHold, CheckHolds
  <2>5. CASE ReadOrganization(r)
    <3>1. /\ OthersWait(r) /\ req'[r].pc \in {"write org", "refused"}
          /\ SameRequest(req[r], req'[r]) /\ SameReads(req[r], req'[r])
      BY <2>5, ReadOrganizationFrame
    <3>2. CheckHolds(r)'
      BY <3>1 DEF CheckHolds, SameRequest, SameReads, IInv, ChecksHold
    <3> QED
      BY <3>1, <3>2, OthersHold DEF ChecksHold
  <2>6. CASE WriteOrganization(r)
    BY <2>6, MoverHolds DEF WriteOrganization, If, Belongs, Running, IInv, ChecksHold, CheckHolds
  <2>7. CASE ReadTarget(r)
    <3>1. /\ OthersWait(r) /\ req[r].pc = "target" /\ UNCHANGED members
          /\ req'[r].pc \in {"list", "write role", "refused"}
          /\ req'[r].pc # "refused" => MayChange(req[r], members[req[r].target])
          /\ SameRequest(req[r], req'[r]) /\ req'[r].caller = req[r].caller
          /\ req'[r].held = members[req[r].target]
      BY <2>7, ReadTargetFrame
    <3>2. /\ CheckHolds(r) /\ req[r].target \in User
          /\ members[req[r].target] \in Membership \cup {NoMember}
          /\ members[Owner].role = "owner"
      BY HandlerFields, OwnerAssumption DEF IInv, ChecksHold, OneOwner, TypeOK
    <3>3. CheckHolds(r)'
      BY <3>1, <3>2 DEF CheckHolds, SameRequest, MayChange, MayGrant
    <3> QED
      BY <3>1, <3>3, OthersHold DEF ChecksHold
  <2>8. CASE ListAdministrators(r)
    BY <2>8, MoverHolds DEF ListAdministrators, If, Belongs, Running, IInv, ChecksHold, CheckHolds
  <2>9. CASE WriteRole(r)
    BY <2>9, MoverHolds DEF WriteRole, If, Belongs, Running, IInv, ChecksHold, CheckHolds
  <2>10. CASE CheckInitial(r)
    BY <2>10, MoverHolds DEF CheckInitial, If, Belongs, Running, IInv, ChecksHold, CheckHolds
  <2>11. CASE InsertOwner(r)
    BY <2>11, MoverHolds DEF InsertOwner, InsertRoomMember, Running, IInv, ChecksHold, CheckHolds
  <2>12. CASE InsertInitial(r)
    BY <2>12, MoverHolds DEF InsertInitial, InsertRoomMember, Running, IInv, ChecksHold, CheckHolds
  <2>13. CASE \E new \in Kinds : InsertRoom(r, new)
    BY <2>13, MoverHolds DEF InsertRoom, Running, IInv, ChecksHold, CheckHolds
  <2>14. CASE ReadMembership(r)
    <3>1. /\ OthersWait(r) /\ req'[r].pc = req[r].pc /\ req[r].pc = "access" /\ SameRequest(req[r], req'[r])
          /\ req'[r].held = req[r].held /\ req'[r].caller \in {req[r].caller, members[req[r].by]}
          /\ UNCHANGED members
      BY <2>14, ReadFrame DEF ReadMembership
    <3>2. CheckHolds(r) /\ req[r].by \in User
      BY HandlerFields DEF IInv, ChecksHold
    <3>3. CheckHolds(r)'
      BY <3>1, <3>2 DEF CheckHolds, SameRequest, IInv, OneOwner
    <3> QED
      BY <3>1, <3>3, OthersHold DEF ChecksHold
  <2>15. CASE ReadRoomMembership(r)
    <3>1. /\ OthersWait(r) /\ req'[r].pc = req[r].pc /\ req[r].pc = "access" /\ SameRequest(req[r], req'[r])
          /\ req'[r].held = req[r].held /\ req'[r].caller \in {req[r].caller, members[req[r].by]}
          /\ UNCHANGED members
      BY <2>15, ReadFrame DEF ReadRoomMembership
    <3>2. CheckHolds(r) /\ req[r].by \in User
      BY HandlerFields DEF IInv, ChecksHold
    <3>3. CheckHolds(r)'
      BY <3>1, <3>2 DEF CheckHolds, SameRequest, IInv, OneOwner
    <3> QED
      BY <3>1, <3>3, OthersHold DEF ChecksHold
  <2>16. CASE DecideAccess(r)
    BY <2>16, MoverHolds DEF DecideAccess, If, Belongs, Running, IInv, ChecksHold, CheckHolds
  <2>17. CASE CheckBelongs(r)
    BY <2>17, MoverHolds DEF CheckBelongs, If, Belongs, Running, IInv, ChecksHold, CheckHolds
  <2>18. CASE CheckRoomMember(r)
    BY <2>18, MoverHolds DEF CheckRoomMember, If, Belongs, Running, IInv, ChecksHold, CheckHolds
  <2>19. CASE AddRoomMember(r)
    BY <2>19, MoverHolds DEF AddRoomMember, InsertRoomMember, Running, IInv, ChecksHold, CheckHolds
  <2>20. CASE CheckRemovable(r)
    BY <2>20, MoverHolds DEF CheckRemovable, If, Belongs, Running, IInv, ChecksHold, CheckHolds
  <2>21. CASE RemoveRoomMember(r)
    BY <2>21, MoverHolds DEF RemoveRoomMember, If, Belongs, Running, IInv, ChecksHold, CheckHolds
  <2> QED
    BY <2>1, <2>2, <2>3, <2>4, <2>5, <2>6, <2>7, <2>8, <2>9, <2>10, <2>11, <2>12, <2>13, <2>14, <2>15, <2>16, <2>17, <2>18, <2>19, <2>20, <2>21
<1> QED
  BY <1>1, <1>2

-----------------------------------------------------------------------------
(* Handlers stay on their operation's path, and the room is made once.      *)

LEMMA PathStays ==
  ASSUME IInv, NEW r \in Request, OthersWait(r), OnPath(req'[r])
  PROVE  OwnPath'
BY DEF IInv, OwnPath, OnPath, OthersWait

LEMMA RoomStays ==
  ASSUME IInv, NEW r \in Request, OthersWait(r), UNCHANGED room,
         room # NoRoom \/ UNCHANGED roomRole,
         Creating(r)' => Creating(r),
         req'[r].op \in InRoom /\ req'[r].pc \in Running => room # NoRoom
  PROVE  RoomBegins'
BY DEF IInv, RoomBegins, OthersWait, Creating

(* A handler that moves along its path.                                     *)
LEMMA MoverRoom ==
  ASSUME IInv, NEW r \in Request, NEW pc \in Running \cup {"done", "refused", "failed"}, Goes(r, pc),
         UNCHANGED room, room # NoRoom \/ UNCHANGED roomRole,
         req[r].pc \in Running,
         OnPath([op |-> req[r].op, pc |-> pc]),
         req[r].op = "create" /\ pc \in {"owner", "first member", "done"} => req[r].pc \in {"owner", "first member"}
  PROVE  OwnPath' /\ RoomBegins'
<1>1. OthersWait(r) /\ req'[r].pc = pc /\ SameRequest(req[r], req'[r])
  BY GoesFrame DEF IInv
<1>2. OnPath(req'[r])
  BY <1>1 DEF OnPath, SameRequest
<1>3. Creating(r)' => Creating(r)
  BY <1>1 DEF Creating, SameRequest
<1>4. req'[r].op \in InRoom /\ req'[r].pc \in Running => room # NoRoom
  BY <1>1 DEF SameRequest, IInv, RoomBegins
<1> QED
  BY <1>1, <1>2, <1>3, <1>4, PathStays, RoomStays

LEMMA AskerRoom ==
  ASSUME IInv, NEW r \in Request, NEW op \in Op \ InRoom, NEW by \in User, NEW target \in User,
         NEW role \in {"admin", "host", "member", "viewer"}, NEW flag \in BOOLEAN,
         NEW pc \in {"exists", "target", "org", "initial", "refused"},
         Asks(r, op, by, target, role, flag, pc), OnPath([op |-> op, pc |-> pc])
  PROVE  OwnPath' /\ RoomBegins'
<1>1. /\ OthersWait(r) /\ req'[r].pc = pc /\ req'[r].op = op /\ UNCHANGED <<room, roomRole>>
  BY AsksFrame DEF IInv
<1>2. OnPath(req'[r])
  BY <1>1 DEF OnPath
<1> QED
  BY <1>1, <1>2, PathStays, RoomStays DEF Creating

(* Every step keeps to the path of its operation; one of them makes the room. *)
LEMMA RoomStep == IInv /\ [Next]_vars => OwnPath' /\ RoomBegins'
<1> SUFFICES ASSUME IInv, [Next]_vars PROVE OwnPath' /\ RoomBegins'
  OBVIOUS
<1> TypeOK
  BY DEF IInv
<1>1. CASE UNCHANGED vars
  BY <1>1 DEF vars, IInv, OwnPath, OnPath, RoomBegins, Creating
<1>2. CASE Next
  <2> PICK r \in Request :
         \/ Begins(r)
         \/ Fail(r)
         \/ CheckMember(r)
         \/ InsertMember(r)
         \/ ReadOrganization(r)
         \/ WriteOrganization(r)
         \/ ReadTarget(r)
         \/ ListAdministrators(r)
         \/ WriteRole(r)
         \/ CheckInitial(r)
         \/ InsertOwner(r)
         \/ InsertInitial(r)
         \/ \E new \in Kinds : InsertRoom(r, new)
         \/ ReadMembership(r)
         \/ ReadRoomMembership(r)
         \/ DecideAccess(r)
         \/ CheckBelongs(r)
         \/ CheckRoomMember(r)
         \/ AddRoomMember(r)
         \/ CheckRemovable(r)
         \/ RemoveRoomMember(r)
    BY <1>2 DEF Next
  <2>1. CASE Begins(r)
    <3> PICK u \in User, t \in User :
           \/ \E code \in Code : Join(r, u, code)
           \/ \E role \in {"admin", "member"} : AddMember(r, u, t, role)
           \/ \E role \in {"admin", "member"} : ChangeRole(r, u, t, role)
           \/ Regenerate(r, u)
           \/ \E flag \in BOOLEAN : ChangeSettings(r, u, flag)
           \/ CreateRoom(r, u, t)
           \/ \E role \in RoomRole \ {"owner"} : EntersRoom(r, "roomAdd", u, t, role)
           \/ EntersRoom(r, "roomRemove", u, t, "member")
      BY <2>1 DEF Begins
    <3>1. CASE \E code \in Code : Join(r, u, code)
      BY <3>1, AskerRoom DEF Join, If, OnPath, Op, InOrganization, InRoom
    <3>2. CASE \E role \in {"admin", "member"} : AddMember(r, u, t, role)
      BY <3>2, AskerRoom DEF AddMember, If, OnPath, Op, InOrganization, InRoom
    <3>3. CASE \E role \in {"admin", "member"} : ChangeRole(r, u, t, role)
      BY <3>3, AskerRoom DEF ChangeRole, If, OnPath, Op, InOrganization, InRoom
    <3>4. CASE Regenerate(r, u)
      BY <3>4, AskerRoom DEF Regenerate, If, OnPath, Op, InOrganization, InRoom
    <3>5. CASE \E flag \in BOOLEAN : ChangeSettings(r, u, flag)
      BY <3>5, AskerRoom DEF ChangeSettings, If, OnPath, Op, InOrganization, InRoom
    <3>6. CASE CreateRoom(r, u, t)
      BY <3>6, AskerRoom DEF CreateRoom, If, OnPath, Op, InOrganization, InRoom
    <3>7. CASE \E role \in RoomRole \ {"owner"} : EntersRoom(r, "roomAdd", u, t, role)
      <4>1. /\ OthersWait(r) /\ req'[r].pc = "access" /\ req'[r].op \in InRoom
            /\ UNCHANGED <<room, roomRole>> /\ room # NoRoom
        BY <3>7, EntersFrame DEF InRoom, RoomRole
      <4>2. OnPath(req'[r]) /\ ~Creating(r)'
        BY <4>1 DEF OnPath, Creating
      <4> QED
        BY <4>1, <4>2, PathStays, RoomStays
    <3>8. CASE EntersRoom(r, "roomRemove", u, t, "member")
      <4>1. /\ OthersWait(r) /\ req'[r].pc = "access" /\ req'[r].op \in InRoom
            /\ UNCHANGED <<room, roomRole>> /\ room # NoRoom
        BY <3>8, EntersFrame DEF InRoom, RoomRole
      <4>2. OnPath(req'[r]) /\ ~Creating(r)'
        BY <4>1 DEF OnPath, Creating
      <4> QED
        BY <4>1, <4>2, PathStays, RoomStays
    <3> QED
      BY <3>1, <3>2, <3>3, <3>4, <3>5, <3>6, <3>7, <3>8
  <2>2. CASE Fail(r)
    BY <2>2, MoverRoom DEF Fail, If, Running, IInv, OwnPath, OnPath, InRoom
  <2>3. CASE CheckMember(r)
    BY <2>3, MoverRoom DEF CheckMember, If, Running, IInv, OwnPath, OnPath, InRoom
  <2>4. CASE InsertMember(r)
    BY <2>4, MoverRoom DEF InsertMember, If, Running, IInv, OwnPath, OnPath, InRoom
  <2>5. CASE ReadOrganization(r)
    <3>1. /\ OthersWait(r) /\ req'[r].pc \in {"write org", "refused"} /\ req[r].pc = "org"
          /\ SameRequest(req[r], req'[r]) /\ UNCHANGED <<room, roomRole>>
      BY <2>5, ReadOrganizationFrame DEF ReadOrganization
    <3>2. /\ OnPath(req'[r]) /\ ~Creating(r)' /\ req'[r].op \notin InRoom
      BY <3>1 DEF SameRequest, IInv, OwnPath, OnPath, Creating, InRoom
    <3> QED
      BY <3>1, <3>2, PathStays, RoomStays
  <2>6. CASE WriteOrganization(r)
    BY <2>6, MoverRoom DEF WriteOrganization, If, Running, IInv, OwnPath, OnPath, InRoom
  <2>7. CASE ReadTarget(r)
    <3>1. /\ OthersWait(r) /\ req'[r].pc \in {"list", "write role", "refused"} /\ req[r].pc = "target"
          /\ SameRequest(req[r], req'[r]) /\ UNCHANGED <<room, roomRole>>
      BY <2>7, ReadTargetFrame
    <3>2. /\ OnPath(req'[r]) /\ ~Creating(r)' /\ req'[r].op \notin InRoom
      BY <3>1 DEF SameRequest, IInv, OwnPath, OnPath, Creating, InRoom
    <3> QED
      BY <3>1, <3>2, PathStays, RoomStays
  <2>8. CASE ListAdministrators(r)
    BY <2>8, MoverRoom DEF ListAdministrators, If, Running, IInv, OwnPath, OnPath, InRoom
  <2>9. CASE WriteRole(r)
    BY <2>9, MoverRoom DEF WriteRole, If, Running, IInv, OwnPath, OnPath, InRoom
  <2>10. CASE CheckInitial(r)
    BY <2>10, MoverRoom DEF CheckInitial, If, Running, IInv, OwnPath, OnPath, InRoom
  <2>11. CASE InsertOwner(r)
    <3>1. req[r].pc \in Running /\ OnPath(req[r]) /\ room # NoRoom
      BY <2>11 DEF InsertOwner, Running, IInv, OwnPath, OnPath, RoomBegins, Creating, InRoom
    <3> QED
      BY <2>11, <3>1, MoverRoom DEF InsertOwner, InsertRoomMember, Running, OnPath
  <2>12. CASE InsertInitial(r)
    <3>1. req[r].pc \in Running /\ OnPath(req[r]) /\ room # NoRoom
      BY <2>12 DEF InsertInitial, Running, IInv, OwnPath, OnPath, RoomBegins, Creating, InRoom
    <3> QED
      BY <2>12, <3>1, MoverRoom DEF InsertInitial, InsertRoomMember, Running, OnPath
  <2>13. CASE \E new \in Kinds : InsertRoom(r, new)
    <3>1. room = NoRoom /\ req[r].pc = "room" /\ room' \in Kinds /\ Goes(r, "owner") /\ UNCHANGED roomRole
      BY <2>13 DEF InsertRoom
    <3>2. OthersWait(r) /\ req'[r].pc = "owner" /\ req'[r].op = "create"
      BY <3>1, GoesFrame DEF IInv, OwnPath, OnPath, SameRequest
    <3>3. room' # NoRoom
      BY <3>1, KindsAssumption DEF Room, NoRoom
    <3>4. OwnPath'
      BY <3>2, PathStays DEF OnPath
    <3>5. RoomBegins'
      BY <3>1, <3>2, <3>3 DEF IInv, RoomBegins, Creating, OthersWait
    <3> QED
      BY <3>4, <3>5
  <2>14. CASE ReadMembership(r)
    <3>1. /\ OthersWait(r) /\ req'[r].pc = "access" /\ req[r].pc = "access"
          /\ SameRequest(req[r], req'[r]) /\ UNCHANGED <<room, roomRole>>
      BY <2>14, ReadFrame DEF ReadMembership
    <3>2. /\ OnPath(req'[r]) /\ ~Creating(r)' /\ room # NoRoom
      BY <3>1 DEF SameRequest, IInv, OwnPath, OnPath, Creating, InRoom, RoomBegins, Running
    <3> QED
      BY <3>1, <3>2, PathStays, RoomStays
  <2>15. CASE ReadRoomMembership(r)
    <3>1. /\ OthersWait(r) /\ req'[r].pc = "access" /\ req[r].pc = "access"
          /\ SameRequest(req[r], req'[r]) /\ UNCHANGED <<room, roomRole>>
      BY <2>15, ReadFrame DEF ReadRoomMembership
    <3>2. /\ OnPath(req'[r]) /\ ~Creating(r)' /\ room # NoRoom
      BY <3>1 DEF SameRequest, IInv, OwnPath, OnPath, Creating, InRoom, RoomBegins, Running
    <3> QED
      BY <3>1, <3>2, PathStays, RoomStays
  <2>16. CASE DecideAccess(r)
    BY <2>16, MoverRoom DEF DecideAccess, If, Running, IInv, OwnPath, OnPath, InRoom
  <2>17. CASE CheckBelongs(r)
    BY <2>17, MoverRoom DEF CheckBelongs, If, Running, IInv, OwnPath, OnPath, InRoom
  <2>18. CASE CheckRoomMember(r)
    BY <2>18, MoverRoom DEF CheckRoomMember, If, Running, IInv, OwnPath, OnPath, InRoom
  <2>19. CASE AddRoomMember(r)
    <3>1. req[r].pc \in Running /\ OnPath(req[r]) /\ room # NoRoom
      BY <2>19 DEF AddRoomMember, Running, IInv, OwnPath, OnPath, RoomBegins, Creating, InRoom
    <3> QED
      BY <2>19, <3>1, MoverRoom DEF AddRoomMember, InsertRoomMember, Running, OnPath
  <2>20. CASE CheckRemovable(r)
    BY <2>20, MoverRoom DEF CheckRemovable, If, Running, IInv, OwnPath, OnPath, InRoom
  <2>21. CASE RemoveRoomMember(r)
    <3>1. req[r].pc \in Running /\ OnPath(req[r]) /\ room # NoRoom
      BY <2>21 DEF RemoveRoomMember, Running, IInv, OwnPath, OnPath, RoomBegins, Creating, InRoom
    <3> QED
      BY <2>21, <3>1, MoverRoom DEF RemoveRoomMember, InsertRoomMember, Running, OnPath
  <2> QED
    BY <2>1, <2>2, <2>3, <2>4, <2>5, <2>6, <2>7, <2>8, <2>9, <2>10, <2>11, <2>12, <2>13, <2>14, <2>15, <2>16, <2>17, <2>18, <2>19, <2>20, <2>21
<1> QED
  BY <1>1, <1>2

-----------------------------------------------------------------------------
(* The room's members belong, and its creator owns it.                      *)

LEMMA QuietMembers ==
  ASSUME IInv, Keeps, UNCHANGED roomRole
  PROVE  RoomMembersBelong'
BY DEF IInv, RoomMembersBelong, Keeps

LEMMA NewMember ==
  ASSUME IInv, Keeps, NEW t \in User, NEW role, roomRole' = [roomRole EXCEPT ![t] = role],
         members[t] # NoMember \/ role = "none"
  PROVE  RoomMembersBelong'
BY DEF IInv, RoomMembersBelong, Keeps, TypeOK

(* Whoever was added by hand stays so.                                      *)
LEMMA HandStays ==
  ASSUME IInv, NEW r \in Request, OthersWait(r), req[r].pc # "done"
  PROVE  AddedByHand \subseteq AddedByHand'
BY DEF AddedByHand, OthersWait

LEMMA QuietOwner ==
  ASSUME IInv, NEW r \in Request, OthersWait(r), req[r].pc # "done", UNCHANGED roomRole,
         req'[r].pc \notin {"owner", "first member", "delete"},
         req'[r].pc = "done" => req'[r].op # "create"
  PROVE  OwnerUntouched' /\ CreatorOwnsRoom'
<1> AddedByHand \subseteq AddedByHand'
  BY HandStays
<1>1. OwnerUntouched'
  BY DEF IInv, OwnerUntouched, Untouched, OthersWait
<1>2. CreatorOwnsRoom'
  BY DEF IInv, CreatorOwnsRoom, OthersWait
<1> QED
  BY <1>1, <1>2

LEMMA MoverOwner ==
  ASSUME IInv, NEW r \in Request, NEW pc \in Running \cup {"done", "refused", "failed"}, Goes(r, pc),
         req[r].pc # "done", UNCHANGED roomRole,
         pc \notin {"owner", "first member", "delete"}, pc = "done" => req[r].op # "create"
  PROVE  OwnerUntouched' /\ CreatorOwnsRoom'
BY GoesFrame, QuietOwner DEF IInv, SameRequest

LEMMA AskerOwner ==
  ASSUME IInv, NEW r \in Request, NEW op \in Op, NEW by \in User, NEW target \in User,
         NEW role \in {"admin", "host", "member", "viewer"}, NEW flag \in BOOLEAN,
         NEW pc \in {"exists", "target", "org", "initial", "refused"},
         Asks(r, op, by, target, role, flag, pc)
  PROVE  UNCHANGED roomRole /\ OwnerUntouched' /\ CreatorOwnsRoom'
<1>1. OthersWait(r) /\ req[r].pc = "new" /\ req'[r].pc = pc /\ UNCHANGED roomRole
  BY AsksFrame DEF IInv
<1> QED
  BY <1>1, QuietOwner

(* No removal and no insert takes the creator's role, but for those by hand. *)
LEMMA OwnerStep == IInv /\ [Next]_vars => OwnerUntouched' /\ CreatorOwnsRoom'
<1> SUFFICES ASSUME IInv, [Next]_vars PROVE OwnerUntouched' /\ CreatorOwnsRoom'
  OBVIOUS
<1> TypeOK
  BY DEF IInv
<1>1. CASE UNCHANGED vars
  <2>1. AddedByHand' = AddedByHand /\ UNCHANGED <<req, roomRole>>
    BY <1>1 DEF vars, AddedByHand
  <2> QED
    BY <2>1 DEF IInv, OwnerUntouched, Untouched, CreatorOwnsRoom
<1>2. CASE Next
  <2> PICK r \in Request :
         \/ Begins(r)
         \/ Fail(r)
         \/ CheckMember(r)
         \/ InsertMember(r)
         \/ ReadOrganization(r)
         \/ WriteOrganization(r)
         \/ ReadTarget(r)
         \/ ListAdministrators(r)
         \/ WriteRole(r)
         \/ CheckInitial(r)
         \/ InsertOwner(r)
         \/ InsertInitial(r)
         \/ \E new \in Kinds : InsertRoom(r, new)
         \/ ReadMembership(r)
         \/ ReadRoomMembership(r)
         \/ DecideAccess(r)
         \/ CheckBelongs(r)
         \/ CheckRoomMember(r)
         \/ AddRoomMember(r)
         \/ CheckRemovable(r)
         \/ RemoveRoomMember(r)
    BY <1>2 DEF Next
  <2>1. CASE Begins(r)
    <3> PICK u \in User, t \in User :
           \/ \E code \in Code : Join(r, u, code)
           \/ \E role \in {"admin", "member"} : AddMember(r, u, t, role)
           \/ \E role \in {"admin", "member"} : ChangeRole(r, u, t, role)
           \/ Regenerate(r, u)
           \/ \E flag \in BOOLEAN : ChangeSettings(r, u, flag)
           \/ CreateRoom(r, u, t)
           \/ \E role \in RoomRole \ {"owner"} : EntersRoom(r, "roomAdd", u, t, role)
           \/ EntersRoom(r, "roomRemove", u, t, "member")
      BY <2>1 DEF Begins
    <3>1. CASE \E code \in Code : Join(r, u, code)
      BY <3>1, AskerOwner DEF Join, If, Op, InOrganization
    <3>2. CASE \E role \in {"admin", "member"} : AddMember(r, u, t, role)
      BY <3>2, AskerOwner DEF AddMember, If, Op, InOrganization
    <3>3. CASE \E role \in {"admin", "member"} : ChangeRole(r, u, t, role)
      BY <3>3, AskerOwner DEF ChangeRole, If, Op, InOrganization
    <3>4. CASE Regenerate(r, u)
      BY <3>4, AskerOwner DEF Regenerate, If, Op, InOrganization
    <3>5. CASE \E flag \in BOOLEAN : ChangeSettings(r, u, flag)
      BY <3>5, AskerOwner DEF ChangeSettings, If, Op, InOrganization
    <3>6. CASE CreateRoom(r, u, t)
      BY <3>6, AskerOwner DEF CreateRoom, If, Op, InOrganization
    <3>7. CASE \E role \in RoomRole \ {"owner"} : EntersRoom(r, "roomAdd", u, t, role)
      <4>1. OthersWait(r) /\ req[r].pc = "new" /\ req'[r].pc = "access" /\ UNCHANGED roomRole
        BY <3>7, EntersFrame DEF InRoom, RoomRole
      <4> QED
        BY <4>1, QuietOwner
    <3>8. CASE EntersRoom(r, "roomRemove", u, t, "member")
      <4>1. OthersWait(r) /\ req[r].pc = "new" /\ req'[r].pc = "access" /\ UNCHANGED roomRole
        BY <3>8, EntersFrame DEF InRoom, RoomRole
      <4> QED
        BY <4>1, QuietOwner
    <3> QED
      BY <3>1, <3>2, <3>3, <3>4, <3>5, <3>6, <3>7, <3>8
  <2>2. CASE Fail(r)
    BY <2>2, MoverOwner DEF Fail, If, Running, IInv, OwnPath, OnPath
  <2>3. CASE CheckMember(r)
    BY <2>3, MoverOwner DEF CheckMember, If, Running, IInv, OwnPath, OnPath
  <2>4. CASE InsertMember(r)
    BY <2>4, MoverOwner DEF InsertMember, If, Running, IInv, OwnPath, OnPath
  <2>5. CASE ReadOrganization(r)
    BY <2>5, ReadOrganizationFrame, QuietOwner DEF ReadOrganization, IInv
  <2>6. CASE WriteOrganization(r)
    BY <2>6, MoverOwner DEF WriteOrganization, If, Running, IInv, OwnPath, OnPath
  <2>7. CASE ReadTarget(r)
    BY <2>7, ReadTargetFrame, QuietOwner DEF IInv
  <2>8. CASE ListAdministrators(r)
    BY <2>8, MoverOwner DEF ListAdministrators, If, Running, IInv, OwnPath, OnPath
  <2>9. CASE WriteRole(r)
    BY <2>9, MoverOwner DEF WriteRole, If, Running, IInv, OwnPath, OnPath
  <2>10. CASE CheckInitial(r)
    BY <2>10, MoverOwner DEF CheckInitial, If, Running, IInv, OwnPath, OnPath
  <2>11. CASE InsertOwner(r)
    <3> DEFINE t == req[r].by
    <3>1. req[r].pc = "owner" /\ req[r].op = "create" /\ t \in User
      BY <2>11, HandlerFields DEF InsertOwner, IInv, OwnPath, OnPath
    <3>2. CASE Goes(r, "failed") /\ UNCHANGED roomRole
      BY <3>1, <3>2, MoverOwner
    <3>3. CASE /\ Goes(r, "done") \/ Goes(r, "first member")
               /\ roomRole' = [roomRole EXCEPT ![t] = "owner"]
      <4>1. OthersWait(r) /\ req'[r].pc \in {"done", "first member"} /\ SameRequest(req[r], req'[r])
        BY <3>3, GoesFrame DEF IInv
      <4>2. AddedByHand \subseteq AddedByHand'
        BY <3>1, <4>1, HandStays
      <4>3. roomRole'[t] = "owner" /\ \A u \in User : u # t => roomRole'[u] = roomRole[u]
        BY <3>1, <3>3 DEF IInv, TypeOK
      <4>4. \A q \in Request : req[q].by \in User /\ req[q].target \in User
        BY HandlerFields DEF IInv
      <4>5. \A q \in Request : q # r => ~Creating(q) /\ req[q].pc \notin {"owner", "first member"}
        BY <3>1 DEF IInv, RoomBegins, Creating, OwnPath, OnPath
      <4>6. \A q \in Request : req[q].pc = "delete" => req[q].target \in AddedByHand \/ req[q].target # t
        BY <3>1 DEF IInv, OwnerUntouched, Untouched
      <4> HIDE DEF t
      <4>7. OwnerUntouched'
        <5> SUFFICES ASSUME NEW q \in Request PROVE Untouched(q)'
          BY DEF OwnerUntouched
        <5>1. Untouched(q) /\ req[q].by \in User /\ req[q].target \in User
          BY HandlerFields DEF IInv, OwnerUntouched
        <5>2. CASE q = r
          BY <4>1, <4>2, <4>3, <4>4, <4>5, <4>6, <5>1, <5>2 DEF Untouched, OthersWait, SameRequest, t
        <5>3. CASE q # r
          BY <4>1, <4>2, <4>3, <4>4, <4>5, <4>6, <5>1, <5>3 DEF Untouched, OthersWait, SameRequest, t
        <5> QED
          BY <5>2, <5>3
      <4>8. CreatorOwnsRoom'
        BY <4>1, <4>2, <4>3, <4>4, <4>5 DEF CreatorOwnsRoom, Creating, OthersWait, SameRequest, t
      <4> QED
        BY <4>7, <4>8
    <3> QED
      BY <2>11, <3>2, <3>3 DEF InsertOwner, InsertRoomMember
  <2>12. CASE InsertInitial(r)
    <3> DEFINE t == req[r].target
    <3>1. req[r].pc = "first member" /\ req[r].op = "create" /\ t \in User /\ req[r].by \in User
      BY <2>12, HandlerFields DEF InsertInitial, IInv, OwnPath, OnPath
    <3>2. CASE Goes(r, "failed") /\ UNCHANGED roomRole
      BY <3>1, <3>2, MoverOwner
    <3>3. CASE /\ Goes(r, "done") /\ roomRole[t] = "none"
               /\ roomRole' = [roomRole EXCEPT ![t] = "member"]
      <4>1. OthersWait(r) /\ req'[r].pc = "done" /\ SameRequest(req[r], req'[r])
        BY <3>3, GoesFrame DEF IInv
      <4>2. AddedByHand \subseteq AddedByHand'
        BY <3>1, <4>1, HandStays
      <4>3. roomRole'[t] = "member" /\ \A u \in User : u # t => roomRole'[u] = roomRole[u]
        BY <3>1, <3>3 DEF IInv, TypeOK
      <4>4. \A q \in Request : req[q].by \in User /\ req[q].target \in User
        BY HandlerFields DEF IInv
      <4>5. \A q \in Request : q # r => ~Creating(q) /\ req[q].pc \notin {"owner", "first member"}
        BY <3>1 DEF IInv, RoomBegins, Creating, OwnPath, OnPath
      <4>6. roomRole[req[r].by] = "owner" \/ req[r].by \in AddedByHand
        BY <3>1 DEF IInv, OwnerUntouched, Untouched
      <4> HIDE DEF t
      <4>7. OwnerUntouched'
        <5> SUFFICES ASSUME NEW q \in Request PROVE Untouched(q)'
          BY DEF OwnerUntouched
        <5>1. Untouched(q) /\ req[q].by \in User /\ req[q].target \in User
          BY HandlerFields DEF IInv, OwnerUntouched
        <5>2. CASE q = r
          BY <4>1, <4>2, <4>3, <4>4, <4>5, <5>1, <5>2 DEF Untouched, OthersWait
        <5>3. CASE q # r
          BY <4>1, <4>2, <4>3, <4>4, <4>5, <5>1, <5>3 DEF Untouched, OthersWait
        <5> QED
          BY <5>2, <5>3
      <4>8. CreatorOwnsRoom'
        <5>1. \A q \in Request : q # r => ~Creating(q)'
          BY <4>1, <4>5 DEF Creating, OthersWait
        <5>2. roomRole'[req'[r].by] = "owner" \/ req'[r].by \in AddedByHand'
          BY <3>1, <3>3, <4>1, <4>2, <4>3, <4>6 DEF SameRequest
        <5> QED
          BY <5>1, <5>2 DEF CreatorOwnsRoom, Creating
      <4> QED
        BY <4>7, <4>8
    <3> QED
      BY <2>12, <3>2, <3>3 DEF InsertInitial, InsertRoomMember
  <2>13. CASE \E new \in Kinds : InsertRoom(r, new)
    <3>1. room = NoRoom /\ req[r].pc = "room" /\ Goes(r, "owner") /\ UNCHANGED roomRole
      BY <2>13 DEF InsertRoom
    <3>2. OthersWait(r) /\ req'[r].pc = "owner" /\ SameRequest(req[r], req'[r])
      BY <3>1, GoesFrame DEF IInv
    <3>3. \A u \in User : roomRole[u] = "none"
      BY <3>1 DEF IInv, RoomBegins
    <3>4. \A q \in Request : req[q].pc \notin {"delete", "first member", "owner"} /\ (req[q].op = "create" => req[q].pc # "done")
      BY <3>1 DEF IInv, RoomBegins, Creating, OwnPath, OnPath, Running, InRoom
    <3>5. req[r].by \in User
      BY HandlerFields DEF IInv
    <3> QED
      BY <3>1, <3>2, <3>3, <3>4, <3>5 DEF OwnerUntouched, Untouched, CreatorOwnsRoom, OthersWait, SameRequest
  <2>14. CASE ReadMembership(r)
    BY <2>14, ReadFrame, QuietOwner DEF ReadMembership, IInv
  <2>15. CASE ReadRoomMembership(r)
    BY <2>15, ReadFrame, QuietOwner DEF ReadRoomMembership, IInv
  <2>16. CASE DecideAccess(r)
    BY <2>16, MoverOwner DEF DecideAccess, If, Running, IInv, OwnPath, OnPath
  <2>17. CASE CheckBelongs(r)
    BY <2>17, MoverOwner DEF CheckBelongs, If, Running, IInv, OwnPath, OnPath
  <2>18. CASE CheckRoomMember(r)
    BY <2>18, MoverOwner DEF CheckRoomMember, If, Running, IInv, OwnPath, OnPath
  <2>19. CASE AddRoomMember(r)
    <3> DEFINE t == req[r].target
    <3>1. req[r].pc = "insert room" /\ req[r].op = "roomAdd" /\ t \in User
      BY <2>19, HandlerFields DEF AddRoomMember, IInv, OwnPath, OnPath
    <3>2. CASE Goes(r, "failed") /\ UNCHANGED roomRole
      BY <3>1, <3>2, MoverOwner
    <3>3. CASE Goes(r, "done") /\ roomRole' = [roomRole EXCEPT ![t] = req[r].role]
      <4>1. OthersWait(r) /\ req'[r].pc = "done" /\ SameRequest(req[r], req'[r])
        BY <3>3, GoesFrame DEF IInv
      <4>2. t \in AddedByHand' /\ AddedByHand \subseteq AddedByHand'
        BY <3>1, <4>1, HandStays DEF AddedByHand, SameRequest
      <4>3. \A u \in User : u # t => roomRole'[u] = roomRole[u]
        BY <3>3 DEF IInv, TypeOK
      <4>4. \A q \in Request : req[q].by \in User /\ req[q].target \in User
        BY HandlerFields DEF IInv
      <4> HIDE DEF t
      <4>5. OwnerUntouched'
        <5> SUFFICES ASSUME NEW q \in Request PROVE Untouched(q)'
          BY DEF OwnerUntouched
        <5>1. Untouched(q) /\ req[q].by \in User /\ req[q].target \in User
          BY HandlerFields DEF IInv, OwnerUntouched
        <5>2. CASE q = r
          BY <4>1, <4>2, <4>3, <4>4, <5>1, <5>2 DEF Untouched, OthersWait
        <5>3. CASE q # r
          BY <4>1, <4>2, <4>3, <4>4, <5>1, <5>3 DEF Untouched, OthersWait
        <5> QED
          BY <5>2, <5>3
      <4>6. CreatorOwnsRoom'
        <5> SUFFICES ASSUME NEW q \in Request, req'[q].op = "create", req'[q].pc = "done"
                     PROVE  roomRole'[req'[q].by] = "owner" \/ req'[q].by \in AddedByHand'
          BY DEF CreatorOwnsRoom
        <5>1. q # r /\ req'[q] = req[q]
          BY <3>1, <4>1 DEF OthersWait, SameRequest
        <5>2. roomRole[req[q].by] = "owner" \/ req[q].by \in AddedByHand
          BY <5>1 DEF IInv, CreatorOwnsRoom
        <5> QED
          BY <4>2, <4>3, <4>4, <5>1, <5>2
      <4> QED
        BY <4>5, <4>6
    <3> QED
      BY <2>19, <3>2, <3>3 DEF AddRoomMember, InsertRoomMember
  <2>20. CASE CheckRemovable(r)
    <3>1. /\ OthersWait(r) /\ req[r].pc = "removable" /\ SameRequest(req[r], req'[r]) /\ UNCHANGED roomRole
          /\ req'[r].pc = "refused" \/ (req'[r].pc = "delete" /\ Removable(req[r].target))
      <4>1. Goes(r, "refused") \/ (Goes(r, "delete") /\ Removable(req[r].target))
        BY <2>20 DEF CheckRemovable, If
      <4> QED
        BY <2>20, <4>1, GoesFrame DEF CheckRemovable, IInv
    <3>2. CASE req'[r].pc = "refused"
      BY <3>1, <3>2, QuietOwner
    <3>3. CASE req'[r].pc = "delete" /\ Removable(req[r].target)
      <4> AddedByHand \subseteq AddedByHand'
        BY <3>1, HandStays
      <4>1. CreatorOwnsRoom'
        BY <3>1, <3>3 DEF IInv, CreatorOwnsRoom, OthersWait
      <4>2. \/ req[r].target \in AddedByHand
            \/ \A q \in Request : req[q].pc = "owner" => req[q].by # req[r].target
        BY <3>3 DEF Removable, IInv, OwnerUntouched, Untouched
      <4>3. OwnerUntouched'
        <5> SUFFICES ASSUME NEW q \in Request PROVE Untouched(q)'
          BY DEF OwnerUntouched
        <5>1. Untouched(q) /\ req[q].by \in User /\ req[q].target \in User
          BY HandlerFields DEF IInv, OwnerUntouched
        <5>2. CASE q = r
          BY <3>1, <3>3, <4>2, <5>1, <5>2 DEF Untouched, OthersWait, Removable, SameRequest
        <5>3. CASE q # r
          BY <3>1, <3>3, <4>2, <5>1, <5>3 DEF Untouched, OthersWait, Removable, SameRequest
        <5> QED
          BY <5>2, <5>3
      <4> QED
        BY <4>1, <4>3
    <3> QED
      BY <3>1, <3>2, <3>3
  <2>21. CASE RemoveRoomMember(r)
    <3> DEFINE t == req[r].target
    <3>1. req[r].pc = "delete" /\ req[r].op = "roomRemove" /\ t \in User
      BY <2>21, HandlerFields DEF RemoveRoomMember, IInv, OwnPath, OnPath
    <3>2. OthersWait(r) /\ req'[r].pc = "done" /\ SameRequest(req[r], req'[r])
      BY <2>21, GoesFrame DEF RemoveRoomMember, IInv
    <3>3. AddedByHand \subseteq AddedByHand'
      BY <3>1, <3>2, HandStays
    <3>4. roomRole'[t] = "none" /\ \A u \in User : u # t => roomRole'[u] = roomRole[u]
      BY <2>21, <3>1 DEF RemoveRoomMember, IInv, TypeOK
    <3>5. \A q \in Request : req[q].by \in User /\ req[q].target \in User
      BY HandlerFields DEF IInv
    <3>6. t \in AddedByHand \/ roomRole[t] # "owner"
      BY <3>1 DEF IInv, OwnerUntouched, Untouched
    <3> HIDE DEF t
    <3>7. OwnerUntouched'
      <4> SUFFICES ASSUME NEW q \in Request PROVE Untouched(q)'
        BY DEF OwnerUntouched
      <4>1. Untouched(q) /\ req[q].by \in User /\ req[q].target \in User
        BY HandlerFields DEF IInv, OwnerUntouched
      <4>2. CASE q = r
        BY <3>1, <3>2, <3>3, <3>4, <3>5, <3>6, <4>1, <4>2 DEF Untouched, OthersWait
      <4>3. CASE q # r
        BY <3>1, <3>2, <3>3, <3>4, <3>5, <3>6, <4>1, <4>3 DEF Untouched, OthersWait
      <4> QED
        BY <4>2, <4>3
    <3>8. CreatorOwnsRoom'
      BY <3>1, <3>2, <3>3, <3>4, <3>5, <3>6 DEF IInv, CreatorOwnsRoom, OthersWait, SameRequest
    <3> QED
      BY <3>7, <3>8
  <2> QED
    BY <2>1, <2>2, <2>3, <2>4, <2>5, <2>6, <2>7, <2>8, <2>9, <2>10, <2>11, <2>12, <2>13, <2>14, <2>15, <2>16, <2>17, <2>18, <2>19, <2>20, <2>21
<1> QED
  BY <1>1, <1>2

(* A role in the room is given to members only, and members stay.           *)
LEMMA BelongStep == IInv /\ [Next]_vars => RoomMembersBelong'
<1> SUFFICES ASSUME IInv, [Next]_vars PROVE RoomMembersBelong'
  OBVIOUS
<1> TypeOK
  BY DEF IInv
<1> Keeps
  BY MembersStep
<1>1. CASE UNCHANGED vars
  BY <1>1, QuietMembers DEF vars
<1>2. CASE Next
  <2> PICK r \in Request :
         \/ Begins(r)
         \/ Fail(r)
         \/ CheckMember(r)
         \/ InsertMember(r)
         \/ ReadOrganization(r)
         \/ WriteOrganization(r)
         \/ ReadTarget(r)
         \/ ListAdministrators(r)
         \/ WriteRole(r)
         \/ CheckInitial(r)
         \/ InsertOwner(r)
         \/ InsertInitial(r)
         \/ \E new \in Kinds : InsertRoom(r, new)
         \/ ReadMembership(r)
         \/ ReadRoomMembership(r)
         \/ DecideAccess(r)
         \/ CheckBelongs(r)
         \/ CheckRoomMember(r)
         \/ AddRoomMember(r)
         \/ CheckRemovable(r)
         \/ RemoveRoomMember(r)
    BY <1>2 DEF Next
  <2>1. CASE Begins(r)
    <3> PICK u \in User, t \in User :
           \/ \E code \in Code : Join(r, u, code)
           \/ \E role \in {"admin", "member"} : AddMember(r, u, t, role)
           \/ \E role \in {"admin", "member"} : ChangeRole(r, u, t, role)
           \/ Regenerate(r, u)
           \/ \E flag \in BOOLEAN : ChangeSettings(r, u, flag)
           \/ CreateRoom(r, u, t)
           \/ \E role \in RoomRole \ {"owner"} : EntersRoom(r, "roomAdd", u, t, role)
           \/ EntersRoom(r, "roomRemove", u, t, "member")
      BY <2>1 DEF Begins
    <3>1. CASE \E code \in Code : Join(r, u, code)
      BY <3>1, QuietMembers DEF Join, Asks
    <3>2. CASE \E role \in {"admin", "member"} : AddMember(r, u, t, role)
      BY <3>2, QuietMembers DEF AddMember, Asks
    <3>3. CASE \E role \in {"admin", "member"} : ChangeRole(r, u, t, role)
      BY <3>3, QuietMembers DEF ChangeRole, Asks
    <3>4. CASE Regenerate(r, u)
      BY <3>4, QuietMembers DEF Regenerate, Asks
    <3>5. CASE \E flag \in BOOLEAN : ChangeSettings(r, u, flag)
      BY <3>5, QuietMembers DEF ChangeSettings, Asks
    <3>6. CASE CreateRoom(r, u, t)
      BY <3>6, QuietMembers DEF CreateRoom, Asks
    <3>7. CASE \E role \in RoomRole \ {"owner"} : EntersRoom(r, "roomAdd", u, t, role)
      BY <3>7, QuietMembers DEF EntersRoom
    <3>8. CASE EntersRoom(r, "roomRemove", u, t, "member")
      BY <3>8, QuietMembers DEF EntersRoom
    <3> QED
      BY <3>1, <3>2, <3>3, <3>4, <3>5, <3>6, <3>7, <3>8
  <2>2. CASE Fail(r)
    BY <2>2, QuietMembers DEF Fail
  <2>3. CASE CheckMember(r)
    BY <2>3, QuietMembers DEF CheckMember
  <2>4. CASE InsertMember(r)
    BY <2>4, QuietMembers DEF InsertMember
  <2>5. CASE ReadOrganization(r)
    BY <2>5, QuietMembers DEF ReadOrganization
  <2>6. CASE WriteOrganization(r)
    BY <2>6, QuietMembers DEF WriteOrganization
  <2>7. CASE ReadTarget(r)
    BY <2>7, QuietMembers DEF ReadTarget
  <2>8. CASE ListAdministrators(r)
    BY <2>8, QuietMembers DEF ListAdministrators
  <2>9. CASE WriteRole(r)
    BY <2>9, QuietMembers DEF WriteRole
  <2>10. CASE CheckInitial(r)
    BY <2>10, QuietMembers DEF CheckInitial
  <2>11. CASE InsertOwner(r)
    BY <2>11, HandlerFields, NewMember, QuietMembers DEF InsertOwner, InsertRoomMember, IInv, ChecksHold, CheckHolds
  <2>12. CASE InsertInitial(r)
    BY <2>12, HandlerFields, NewMember, QuietMembers DEF InsertInitial, InsertRoomMember, IInv, ChecksHold, CheckHolds
  <2>13. CASE \E new \in Kinds : InsertRoom(r, new)
    BY <2>13, QuietMembers DEF InsertRoom
  <2>14. CASE ReadMembership(r)
    BY <2>14, QuietMembers DEF ReadMembership
  <2>15. CASE ReadRoomMembership(r)
    BY <2>15, QuietMembers DEF ReadRoomMembership
  <2>16. CASE DecideAccess(r)
    BY <2>16, QuietMembers DEF DecideAccess
  <2>17. CASE CheckBelongs(r)
    BY <2>17, QuietMembers DEF CheckBelongs
  <2>18. CASE CheckRoomMember(r)
    BY <2>18, QuietMembers DEF CheckRoomMember
  <2>19. CASE AddRoomMember(r)
    BY <2>19, HandlerFields, NewMember, QuietMembers DEF AddRoomMember, InsertRoomMember, IInv, ChecksHold, CheckHolds
  <2>20. CASE CheckRemovable(r)
    BY <2>20, QuietMembers DEF CheckRemovable
  <2>21. CASE RemoveRoomMember(r)
    BY <2>21, HandlerFields, NewMember DEF RemoveRoomMember
  <2> QED
    BY <2>1, <2>2, <2>3, <2>4, <2>5, <2>6, <2>7, <2>8, <2>9, <2>10, <2>11, <2>12, <2>13, <2>14, <2>15, <2>16, <2>17, <2>18, <2>19, <2>20, <2>21
<1> QED
  BY <1>1, <1>2

-----------------------------------------------------------------------------
(* The theorems.                                                            *)

LEMMA InitInv == Init => IInv
<1> SUFFICES ASSUME Init PROVE IInv
  OBVIOUS
<1>1. \A r \in Request :
        /\ req[r] \in Handler
        /\ req[r].pc = "new" /\ req[r].caller = Unread /\ req[r].role = "member" /\ req[r].op = "join"
  BY OwnerAssumption DEF Init, Handler, Op, InOrganization, Code, Organization
<1>2. TypeOK
  BY <1>1, KindsAssumption DEF Init, TypeOK, Organization, Code, RoomRole
<1>3. OneOwner
  BY OwnerAssumption DEF Init, OneOwner
<1>4. RoomMembersBelong
  BY DEF Init, RoomMembersBelong
<1>5. ChecksHold /\ OwnPath
  <2> SUFFICES ASSUME NEW r \in Request PROVE CheckHolds(r) /\ OnPath(req[r])
    BY DEF ChecksHold, OwnPath
  <2>1. req[r].pc = "new" /\ req[r].caller = Unread /\ Unread.role # "owner"
    BY <1>1 DEF Unread
  <2> QED
    BY <2>1 DEF CheckHolds, OnPath
<1>6. RoomBegins
  <2>1. \A r \in Request : ~Creating(r) /\ req[r].pc \notin Running
    BY <1>1 DEF Creating, Running
  <2>2. room = NoRoom => \A u \in User : roomRole[u] = "none"
    BY KindsAssumption DEF Init, Room, NoRoom
  <2> QED
    BY <2>1, <2>2 DEF RoomBegins
<1>7. OwnerUntouched /\ CreatorOwnsRoom
  BY <1>1 DEF OwnerUntouched, Untouched, CreatorOwnsRoom
<1> QED
  BY <1>2, <1>3, <1>4, <1>5, <1>6, <1>7 DEF IInv

LEMMA NextInv == IInv /\ [Next]_vars => IInv'
<1> SUFFICES ASSUME IInv, [Next]_vars PROVE IInv'
  OBVIOUS
<1>1. OneOwner'
  BY MembersStep DEF IInv, OneOwner, SameOwners
<1> QED
  BY <1>1, Typing, BelongStep, ChecksStep, RoomStep, OwnerStep DEF IInv

(* The inductive invariant of organizations and rooms: what every handler    *)
(* has checked still holds when it acts on it.                               *)
THEOREM Invariance == Spec => []IInv
BY InitInv, NextInv, PTL DEF Spec

(* Every reachable state is well typed: no write of a stale copy or of an    *)
(* unchecked role leaves a document the schema does not have.                *)
THEOREM TypeCorrect == Spec => []TypeOK
<1>1. IInv => TypeOK
  BY DEF IInv
<1> QED
  BY <1>1, Invariance, PTL

(* Whoever has a role in the room belongs to the organization, although the  *)
(* handlers check that several calls before they insert.                     *)
THEOREM RoomMembersAreMembers == Spec => []RoomMembersBelong
<1>1. IInv => RoomMembersBelong
  BY DEF IInv
<1> QED
  BY <1>1, Invariance, PTL

(* Once POST /v1/orgs/:orgId/rooms has answered, its caller owns the room,   *)
(* whatever additions and removals race (but for the exception of the        *)
(* property itself).                                                         *)
THEOREM CreatorsOwn == Spec => []CreatorOwnsRoom
<1>1. IInv => CreatorOwnsRoom
  BY DEF IInv
<1> QED
  BY <1>1, Invariance, PTL

(* Whoever becomes an administrator was made one by the owner, who still is  *)
(* the owner when the role is written.                                       *)
THEOREM AdministratorsFromOwner == Spec => AdminsGrantedByOwner
<1>1. IInv /\ [Next]_vars => [OwnerGrants]_vars
  BY MembersStep
<1> QED
  BY <1>1, Invariance, PTL DEF Spec, AdminsGrantedByOwner

(* Memberships, the attributes delegated to them and the owner outlast every *)
(* race of joins, additions and role changes.                                *)
THEOREM MembershipsLast == Spec => MembershipKept
<1>1. IInv /\ [Next]_vars => [Keeps]_vars
  BY MembersStep
<1> QED
  BY <1>1, Invariance, PTL DEF Spec, MembershipKept

-----------------------------------------------------------------------------
(* The access policy.                                                       *)

(* A room that is restricted or confidential is closed, whatever the action, *)
(* to an ordinary member without a role in it, attributes included; and to   *)
(* whoever does not belong to the organization, a role in it included.       *)
THEOREM ClosedRooms ==
  ASSUME NEW m \in Membership, NEW kind \in Room, NEW role \in RoomRole \cup {"none"}, NEW action \in RoomAction
  PROVE  /\ /\ kind.visibility = "restricted" \/ kind.classification = "confidential"
            /\ role = "none" /\ ~Administers(m)
            => ~canRoom(m, kind, role, action)
         /\ ~canRoom(NoMember, kind, role, action)
BY DEF Membership, NoMember, canRoom, effectiveRoomRole

===============================================================================
