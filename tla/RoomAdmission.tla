----------------------------- MODULE RoomAdmission -----------------------------
(***************************************************************************)
(* The way into a live room: the API decides and signs a ticket            *)
(* (apps/api/src/application.ts, security.ts), the browser holds it, and   *)
(* the room's Durable Object verifies it when a socket or a snapshot is    *)
(* asked for (apps/realtime/src/index.ts), while roles change meanwhile.   *)
(*                                                                         *)
(* A minute passes in one tick, and a request takes less than one.  The    *)
(* rooms are of one organization, which nobody leaves: the API has no such *)
(* operation.                                                              *)
(***************************************************************************)
EXTENDS Integers
LOCAL INSTANCE AccessPolicy

CONSTANTS
  Call,       \* calls of the ticket route, and the tickets they return
  Person, Place, Restricted,
  TicketLife, \* minutes until a ticket expires
  None

VARIABLES
  orgRole,  \* the memberships of the organization
  roomRole, \* the room memberships, "none" where there is none
  asking,   \* the calls: what they have read, and the ticket they return
  socket,   \* what the room made of the ticket last, and the roles then held of late
  since,    \* history: the minutes since somebody had a role in a room, TicketLife for more
  torn      \* history: calls during which the caller's memberships changed

admissionVars == <<orgRole, roomRole, asking, socket, since, torn>>

Role == RoomRole \cup {"none"}
Minutes == 0..TicketLife
TicketIdentity == [place : Place, role : RoomRole, left : Minutes]

AdmissionTypeOK ==
  /\ orgRole \in [Person -> {"admin", "member"}]
  /\ roomRole \in [Person \X Place -> Role]
  /\ asking \in [Call -> [pc : {"new", "room", "org", "decide", "signed", "refused"}, person : Person,
                          place : Place, org : {"admin", "member"}, room : Role, ticket : TicketIdentity \cup {None}]]
  /\ socket \in [Call -> [role : RoomRole, held : SUBSET RoomRole] \cup {None}]
  /\ since \in [Person \X Place \X RoomRole -> Minutes]
  /\ torn \subseteq Call

Kind(m) == [visibility |-> IF m \in Restricted THEN "restricted" ELSE "organization",
            classification |-> "internal"]
RoleOf(org, m, room) == effectiveRoomRole([role |-> org, attributes |-> {}], Kind(m), room)

AdmissionInit ==
  /\ orgRole \in [Person -> {"admin", "member"}]
  /\ roomRole \in [Person \X Place -> {"none", "viewer"}]
  /\ asking \in [Call -> {[pc |-> "new", person |-> p, place |-> m, org |-> "member", room |-> "none", ticket |-> None] :
                            p \in Person, m \in Place}]
  /\ socket = [c \in Call |-> None]
  /\ since = [<<p, m, r>> \in Person \X Place \X RoomRole |->
                IF RoleOf(orgRole[p], m, roomRole[<<p, m>>]) = r THEN 0 ELSE TicketLife]
  /\ torn = {}

-----------------------------------------------------------------------------
(* roomAccess() reads the two memberships at once, in either order.         *)
Reading(c) == asking[c].pc \in {"room", "org"}

RoomAccess(c, reads) ==
  /\ reads \in {"room", "org"}
  /\ asking[c].pc \in {"new", "room", "org"} /\ asking[c].pc # reads
  /\ asking' = [asking EXCEPT
       ![c].pc = IF @ = "new" THEN reads ELSE "decide",
       ![c].org = IF reads = "org" THEN orgRole[asking[c].person] ELSE @,
       ![c].room = IF reads = "room" THEN roomRole[<<asking[c].person, asking[c].place>>] ELSE @]
  /\ UNCHANGED <<orgRole, roomRole, socket, since, torn>>

(* signRoomTicket(): the ticket says for which room, as what and how long;  *)
(* its holder is the caller.                                                *)
SignRoomTicket(c) ==
  [place |-> asking[c].place, left |-> TicketLife,
   role |-> RoleOf(asking[c].org, asking[c].place, asking[c].room)]

(* The rest of the ticket route.  The ICE servers it waits for after the    *)
(* signing are TurnCredentials'; they delay the ticket, which ages.         *)
DecideTicket(c) ==
  /\ asking[c].pc = "decide"
  /\ asking' = IF canRoom([role |-> asking[c].org, attributes |-> {}], Kind(asking[c].place), asking[c].room, "join_live")
               THEN [asking EXCEPT ![c].pc = "signed", ![c].ticket = SignRoomTicket(c)]
               ELSE [asking EXCEPT ![c].pc = "refused"]
  /\ UNCHANGED <<orgRole, roomRole, socket, since, torn>>

(* verifyTicket(): signed, not expired, and for the room of this object,    *)
(* which the Worker chose by the URL.                                       *)
verifyTicket(ticket, url) == ticket.left > 0 /\ ticket.place = url

(* fetch(): a ticket may be shown to any room, at any time and repeatedly.  *)
HeldOfLate(p, m) == {r \in RoomRole : since[<<p, m, r>>] < TicketLife}

fetch(c, url) ==
  /\ asking[c].pc = "signed" /\ verifyTicket(asking[c].ticket, url)
  /\ socket' = [socket EXCEPT ![c] = [role |-> asking[c].ticket.role, held |-> HeldOfLate(asking[c].person, url)]]
  /\ UNCHANGED <<orgRole, roomRole, asking, since, torn>>

(* Administrators change a role in the organization or in a room.           *)
Changes(p, org, rooms) ==
  /\ since' = [<<q, m, r>> \in Person \X Place \X RoomRole |->
                 IF q = p /\ r = RoleOf(org, m, rooms[<<p, m>>]) THEN 0 ELSE since[<<q, m, r>>]]
  /\ torn' = torn \cup {c \in Call : asking[c].person = p /\ Reading(c)}
  /\ UNCHANGED <<asking, socket>>

ChangeRole(p) ==
  \E org \in {"admin", "member"} \ {orgRole[p]} :
    /\ orgRole' = [orgRole EXCEPT ![p] = org] /\ UNCHANGED roomRole
    /\ Changes(p, org, roomRole)

AddRoomMember(p, m) ==
  /\ roomRole[<<p, m>>] = "none"
  /\ \E r \in {"host", "viewer"} : roomRole' = [roomRole EXCEPT ![<<p, m>>] = r]
  /\ UNCHANGED orgRole /\ Changes(p, orgRole[p], roomRole')

RemoveRoomMember(p, m) ==
  /\ roomRole[<<p, m>>] # "none"
  /\ roomRole' = [roomRole EXCEPT ![<<p, m>>] = "none"]
  /\ UNCHANGED orgRole /\ Changes(p, orgRole[p], roomRole')

MinutePasses ==
  /\ \A c \in Call : asking[c].pc \in {"new", "signed", "refused"}
  /\ asking' = [c \in Call |->
       IF asking[c].pc = "signed" /\ asking[c].ticket.left > 0 THEN [asking[c] EXCEPT !.ticket.left = @ - 1] ELSE asking[c]]
  /\ since' = [<<p, m, r>> \in Person \X Place \X RoomRole |->
       IF RoleOf(orgRole[p], m, roomRole[<<p, m>>]) = r \/ since[<<p, m, r>>] = TicketLife
         THEN since[<<p, m, r>>] ELSE since[<<p, m, r>>] + 1]
  /\ UNCHANGED <<orgRole, roomRole, socket, torn>>

AdmissionNext ==
  \/ \E c \in Call :
       \/ \E reads \in {"room", "org"} : RoomAccess(c, reads)
       \/ DecideTicket(c)
       \/ \E url \in Place : fetch(c, url)
  \/ \E p \in Person :
       \/ ChangeRole(p)
       \/ \E m \in Place : AddRoomMember(p, m) \/ RemoveRoomMember(p, m)
  \/ MinutePasses

-----------------------------------------------------------------------------
(* "One user, one room": whoever is let into a room had access to that room *)
(* less than a ticket's life before, although the memberships are read one  *)
(* by one, tickets age on the way and are shown again.                      *)
AdmittedHadAccess == \A c \in Call : socket[c] # None => socket[c].held # {}

(* "The role travels inside the ticket": it is one the person really had,   *)
(* unless the memberships changed between the two reads, when it may be one *)
(* that neither before nor after was theirs (README, 4.2).                  *)
RoleWasHeld == \A c \in Call \ torn : socket[c] # None => socket[c].role \in socket[c].held
=============================================================================
