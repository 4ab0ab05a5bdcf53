----------------------------- MODULE RoomPresence -----------------------------
(***************************************************************************)
(* Who is in a room: the participants of one Durable Object                *)
(* (apps/realtime/src/index.ts), their hibernatable sockets, the presence  *)
(* lists sent to the clients and the joined / left events recorded.        *)
(*                                                                         *)
(* The participant map is in memory only.  Each socket carries its         *)
(* participant as an attachment that survives hibernation, and the map is  *)
(* rebuilt from the attachments of the sockets the platform lists, both    *)
(* when the object wakes and when a socket closes.  A user may hold many   *)
(* sockets; only the first and the last one are recorded.                  *)
(*                                                                         *)
(* Every handler is one step: after its synchronous part it awaits only    *)
(* storage, which keeps other events out until it is done.                 *)
(***************************************************************************)
EXTENDS Integers, FiniteSets

CONSTANTS
  Socket,  \* connections; each is opened once, which bounds a behaviour
  User     \* accounts

VARIABLES
  prompt,       \* whether the platform no longer lists a socket whose close handler has run
  awake,        \* FALSE while the object hibernates
  sock,         \* the platform's state of each socket
  attachment,   \* the Participant serialized onto each accepted socket
  participants, \* this.participants, empty while hibernating
  view,         \* the participant list last sent to each open socket
  joins, leaves \* participant.joined and participant.left recorded per user

vars == <<prompt, awake, sock, attachment, participants, view, joins, leaves>>

Participant ==
  [conn : Socket, user : User, role : {"member", "viewer"}, sharing : BOOLEAN]
None == [conn |-> "none"]

TypeOK ==
  /\ prompt \in BOOLEAN
  /\ awake \in BOOLEAN
  /\ sock \in [Socket -> {"new", "open", "closing", "lingering", "gone"}]
  /\ attachment \in [Socket -> Participant \cup {None}]
  /\ \A s \in Socket : sock[s] # "new" => attachment[s] \in Participant /\ attachment[s].conn = s
  /\ participants \subseteq Participant
  /\ view \in [Socket -> SUBSET Participant]
  /\ joins \in [User -> Nat] /\ leaves \in [User -> Nat]

Init ==
  /\ prompt \in BOOLEAN
  /\ awake = TRUE
  /\ sock = [s \in Socket |-> "new"]
  /\ attachment = [s \in Socket |-> None]
  /\ participants = {}
  /\ view = [s \in Socket |-> {}]
  /\ joins = [u \in User |-> 0] /\ leaves = [u \in User |-> 0]

-----------------------------------------------------------------------------
(* state.getWebSockets()                                                    *)
Listed == {s \in Socket : sock[s] \in {"open", "closing", "lingering"}}

Mutant_trustsListing(exclude) == {attachment[s] : s \in Listed}
restoreParticipants(exclude) == {attachment[s] : s \in Listed \ exclude}

SetParticipant(p) == {q \in participants : q.conn # p.conn} \cup {p}

Mutant_neverPresent(people, u) == FALSE
Present(people, u) == \E p \in people : p.user = u

(* broadcast() of a presence list; a send to a closing socket is swallowed. *)
Open == {s \in Socket : sock[s] = "open"}
Mutant_toOthers(people, to) ==
  view' = [s \in Socket |-> IF s \in to \cap Open THEN people ELSE view[s]]
BroadcastPresence(people, to) ==
  view' = [s \in Socket |-> IF s \in to THEN people ELSE view[s]]

Mutant_noAttachment(p) == UNCHANGED attachment
Attach(p) == attachment' = [attachment EXCEPT ![p.conn] = p]

Count(counter, u, already) == IF already THEN counter ELSE [counter EXCEPT ![u] = @ + 1]

-----------------------------------------------------------------------------
(* acceptSocket(): the ticket names the user and the role.                  *)
Connect(s, u, r) ==
  LET p == [conn |-> s, user |-> u, role |-> r, sharing |-> FALSE]
  IN  /\ awake /\ sock[s] = "new"
      /\ sock' = [sock EXCEPT ![s] = "open"]
      /\ attachment' = [attachment EXCEPT ![s] = p]
      /\ participants' = SetParticipant(p)
      /\ BroadcastPresence(participants', Open \cup {s})
      /\ joins' = Count(joins, u, Present(participants, u))
      /\ UNCHANGED <<prompt, awake, leaves>>

(* The tab closes, the network drops, or webSocketMessage() refuses a       *)
(* message (malformed, or a viewer's write) by closing the socket.          *)
StartsClosing(s) ==
  /\ sock[s] = "open"
  /\ sock' = [sock EXCEPT ![s] = "closing"]
  /\ view' = [view EXCEPT ![s] = {}]
  /\ UNCHANGED <<prompt, awake, attachment, participants, joins, leaves>>

(* webSocketMessage() of a screen-share, perhaps sent before the socket     *)
(* began to close.  No other message changes a participant.                 *)
ScreenShare(s, active) ==
  LET p == [attachment[s] EXCEPT !.sharing = active]
  IN  /\ awake /\ sock[s] \in {"open", "closing"}
      /\ attachment[s].role # "viewer"
      /\ Attach(p)
      /\ participants' = SetParticipant(p)
      /\ BroadcastPresence(participants', Open)
      /\ UNCHANGED <<prompt, awake, sock, joins, leaves>>

(* webSocketClose(), also reached from webSocketError().                    *)
webSocketClose(s) ==
  LET u == attachment[s].user
  IN  /\ awake /\ sock[s] = "closing"
      /\ participants' = restoreParticipants({s})
      /\ sock' \in {[sock EXCEPT ![s] = after] :
                      after \in {"gone"} \cup (IF prompt THEN {} ELSE {"lingering"})}
      /\ BroadcastPresence(participants', Open)
      /\ leaves' = Count(leaves, u, Present(participants', u))
      /\ UNCHANGED <<prompt, awake, attachment, joins>>

-----------------------------------------------------------------------------
(* The platform, whose way with closed sockets never changes.               *)

(* It stops listing a socket whose close handler has run.                   *)
Forget(s) ==
  /\ sock[s] = "lingering"
  /\ sock' = [sock EXCEPT ![s] = "gone"]
  /\ UNCHANGED <<prompt, awake, attachment, participants, view, joins, leaves>>

(* The object is evicted between events; sockets and attachments stay.      *)
Hibernate ==
  /\ awake /\ awake' = FALSE
  /\ participants' = {}
  /\ UNCHANGED <<prompt, sock, attachment, view, joins, leaves>>

(* The next event constructs the object again.                              *)
Wake ==
  /\ ~awake /\ awake' = TRUE
  /\ participants' = restoreParticipants({})
  /\ UNCHANGED <<prompt, sock, attachment, view, joins, leaves>>

Next ==
  \/ \E s \in Socket :
       \/ \E u \in User, r \in {"member", "viewer"} : Connect(s, u, r)
       \/ StartsClosing(s)
       \/ \E active \in BOOLEAN : ScreenShare(s, active)
       \/ webSocketClose(s)
       \/ Forget(s)
  \/ Hibernate
  \/ Wake

Spec == Init /\ [][Next]_vars

(* An event for a sleeping object wakes it, and every close is handled; the *)
(* platform may hibernate the object whenever it likes in between.          *)
Fairness ==
  /\ WF_vars(Wake)
  /\ \A s \in Socket : SF_vars(webSocketClose(s)) /\ WF_vars(Forget(s))
FairSpec == Spec /\ Fairness

-----------------------------------------------------------------------------
(* With a prompt listing the first three hold exactly; a lagging one may    *)
(* leave somebody shown, but hides nobody.                                  *)

(* The sockets whose close handler has still to run.                        *)
Live == {s \in Socket : sock[s] \in {"open", "closing"}}
Shared == {attachment[s] : s \in Live}
InRoom(u) == \E s \in Live : attachment[s].user = u

(* "Records account presence only on its first connection and final         *)
(* disconnection": for every user, the joined events exceed the left events *)
(* by one while the user has a socket, and match them otherwise, whatever   *)
(* the order of a user's tabs and whenever the object hibernates.           *)
PresenceLedger ==
  prompt => \A u \in User : joins[u] = leaves[u] + (IF InRoom(u) THEN 1 ELSE 0)

(* "Attachments are the source of truth after hibernation": the map in      *)
(* memory is what waking from the attachments would rebuild, so an eviction *)
(* is invisible.                                                            *)
HibernationInvisible == prompt /\ awake => participants = Shared

(* Every client shows the same room: the list last sent to an open socket   *)
(* names every live connection, with its role and its screen sharing, and   *)
(* no departed one (the presence broadcasts of join, leave and share).      *)
ViewsAgree ==
  prompt => \A s \in Socket : sock[s] = "open" => view[s] = Shared

(* Even while the platform's listing lags behind the closed sockets, no live *)
(* connection is missing from any client's list.                            *)
NobodyHidden ==
  \A s \in Socket : sock[s] = "open" => Shared \subseteq view[s]

(* A departed connection eventually leaves every client's list: nobody is   *)
(* shown "a participant who is already gone, forever".                      *)
Shown(s) == \E t \in Socket : sock[t] = "open" /\ \E p \in view[t] : p.conn = s
DepartureIsSeen == prompt => \A s \in Socket : sock[s] = "closing" ~> ~Shown(s)

-----------------------------------------------------------------------------
(* The inductive invariant behind RoomPresence_proofs: the ledger follows   *)
(* from the map, the map from the attachments, the attachments from the     *)
(* sockets that are listed.                                                 *)
NoneLingers == prompt => \A s \in Socket : sock[s] # "lingering"
IInv == TypeOK /\ NoneLingers /\ HibernationInvisible /\ ViewsAgree /\ PresenceLedger

(* With sockets that linger the map may have too many, but never too few.   *)
NobodyForgotten == awake => Shared \subseteq participants
=============================================================================
