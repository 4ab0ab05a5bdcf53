-------------------------- MODULE RoomPresence_proofs --------------------------
(***************************************************************************)
(* Theorems about RoomPresence, for any sockets and users.  The ledger, the *)
(* views and the hibernation of the map hold together: each is needed for   *)
(* the others to survive a step.  They hold when the platform's listing is  *)
(* prompt; that nobody is hidden holds in any case.                         *)
(***************************************************************************)
EXTENDS RoomPresence, TLAPS

-----------------------------------------------------------------------------
(* Type correctness.                                                        *)

(* The participants rebuilt from listed sockets are participants.           *)
LEMMA RestoredType ==
  ASSUME TypeOK, NEW x
  PROVE  restoreParticipants(x) \in SUBSET Participant
BY DEF TypeOK, restoreParticipants, Listed

(* A list of participants is a list whoever it is sent to.                  *)
LEMMA BroadcastType ==
  ASSUME TypeOK, NEW people \in SUBSET Participant, NEW to, BroadcastPresence(people, to)
  PROVE  view' \in [Socket -> SUBSET Participant]
BY DEF TypeOK, BroadcastPresence

(* Replacing a map entry keeps the map typed.                               *)
LEMMA SetType ==
  ASSUME TypeOK, NEW p \in Participant
  PROVE  SetParticipant(p) \in SUBSET Participant
BY DEF TypeOK, SetParticipant

(* Counting a joined or left event keeps the counters typed.                *)
LEMMA CountType ==
  ASSUME NEW c \in [User -> Nat], NEW u \in User, NEW b \in BOOLEAN
  PROVE  Count(c, u, b) \in [User -> Nat]
BY DEF Count

(* Present is a truth value.                                                *)
LEMMA PresentType ==
  ASSUME NEW people, NEW u PROVE Present(people, u) \in BOOLEAN
BY DEF Present

(* A join keeps the types.                                                  *)
LEMMA ConnectType ==
  ASSUME TypeOK, NEW s \in Socket, NEW u \in User, NEW r \in {"member", "viewer"},
         Connect(s, u, r)
  PROVE  TypeOK'
<1> DEFINE p == [conn |-> s, user |-> u, role |-> r, sharing |-> FALSE]
<1>1. p \in Participant /\ p.conn = s
  BY DEF Participant
<1>2. participants' \in SUBSET Participant /\ view' \in [Socket -> SUBSET Participant]
  BY <1>1, SetType, BroadcastType DEF Connect
<1>3. joins' \in [User -> Nat]
  BY CountType, PresentType DEF Connect, TypeOK
<1>4. /\ sock' \in [Socket -> {"new", "open", "closing", "lingering", "gone"}]
      /\ attachment' \in [Socket -> Participant \cup {None}]
      /\ \A t \in Socket : sock'[t] # "new" =>
           attachment'[t] \in Participant /\ attachment'[t].conn = t
  BY <1>1 DEF Connect, TypeOK
<1> QED
  BY <1>2, <1>3, <1>4 DEF Connect, TypeOK

(* A screen-share toggle keeps the types.                                   *)
LEMMA ShareType ==
  ASSUME TypeOK, NEW s \in Socket, NEW a \in BOOLEAN, ScreenShare(s, a)
  PROVE  TypeOK'
<1> DEFINE p == [attachment[s] EXCEPT !.sharing = a]
<1>1. p \in Participant /\ p.conn = s
  BY DEF ScreenShare, TypeOK, Participant
<1>2. participants' \in SUBSET Participant /\ view' \in [Socket -> SUBSET Participant]
  BY <1>1, SetType, BroadcastType DEF ScreenShare
<1>3. /\ attachment' \in [Socket -> Participant \cup {None}]
      /\ \A t \in Socket : sock'[t] # "new" =>
           attachment'[t] \in Participant /\ attachment'[t].conn = t
  <2>1. attachment' = [attachment EXCEPT ![s] = p]
    BY <1>1 DEF ScreenShare, Attach
  <2> QED
    BY <1>1, <2>1 DEF ScreenShare, TypeOK
<1> QED
  BY <1>2, <1>3 DEF ScreenShare, TypeOK

(* A departure keeps the types.                                             *)
LEMMA CloseType ==
  ASSUME TypeOK, NEW s \in Socket, webSocketClose(s)
  PROVE  TypeOK'
<1>1. participants' \in SUBSET Participant /\ view' \in [Socket -> SUBSET Participant]
  BY RestoredType, BroadcastType DEF webSocketClose
<1>2. leaves' \in [User -> Nat]
  <2>1. attachment[s].user \in User
    BY DEF webSocketClose, TypeOK, Participant
  <2> QED
    BY <2>1, CountType, PresentType DEF webSocketClose, TypeOK
<1>3. sock' \in [Socket -> {"new", "open", "closing", "lingering", "gone"}]
  BY DEF webSocketClose, TypeOK
<1>4. \A t \in Socket : sock'[t] # "new" => sock[t] # "new"
  BY DEF webSocketClose, TypeOK
<1> QED
  BY <1>1, <1>2, <1>3, <1>4 DEF webSocketClose, TypeOK

(* Every step preserves the types.                                          *)
LEMMA NextType ==
  ASSUME TypeOK, [Next]_vars PROVE TypeOK'
<1>1. ASSUME NEW s \in Socket, StartsClosing(s) PROVE TypeOK'
  BY <1>1 DEF StartsClosing, TypeOK
<1>2. ASSUME NEW s \in Socket, Forget(s) PROVE TypeOK'
  BY <1>2 DEF Forget, TypeOK
<1>3. CASE Hibernate
  BY <1>3 DEF Hibernate, TypeOK
<1>4. CASE Wake
  BY <1>4, RestoredType DEF Wake, TypeOK
<1>5. CASE UNCHANGED vars
  BY <1>5 DEF vars, TypeOK
<1> QED
  BY <1>1, <1>2, <1>3, <1>4, <1>5, ConnectType, ShareType, CloseType DEF Next

(* Every reachable state is well typed, lingering sockets or not.           *)
THEOREM TypeCorrect == Spec => []TypeOK
<1>1. Init => TypeOK
  BY DEF Init, TypeOK
<1> QED
  BY <1>1, NextType, PTL DEF Spec

-----------------------------------------------------------------------------
(* The ledger and the views.                                                *)

(* The platform's way with closed sockets never changes.                    *)
LEMMA PromptStays ==
  ASSUME [Next]_vars PROVE prompt' = prompt
BY DEF Next, vars, Connect, StartsClosing, ScreenShare, webSocketClose, Forget, Hibernate, Wake

(* The invariant is inductive when the listing is prompt.                   *)
LEMMA NextInv ==
  ASSUME prompt, IInv, [Next]_vars
  PROVE  IInv'
<1> USE DEF IInv
<1>t. TypeOK' /\ prompt'
  BY NextType, PromptStays
<1>1. ASSUME NEW s \in Socket, NEW u \in User, NEW r \in {"member", "viewer"},
             Connect(s, u, r)
      PROVE  IInv'
  <2> DEFINE p == [conn |-> s, user |-> u, role |-> r, sharing |-> FALSE]
  <2>1. Live' = Live \cup {s} /\ s \notin Live
    BY <1>1 DEF Connect, Live, TypeOK
  <2>2. attachment' = [attachment EXCEPT ![s] = p] /\ attachment'[s] = p
    BY <1>1 DEF Connect, TypeOK
  <2>3. participants = Shared
    BY <1>1 DEF Connect, HibernationInvisible
  <2>4. Shared' = Shared \cup {p}
    BY <2>1, <2>2 DEF Shared, TypeOK, Live
  <2>5. participants' = Shared'
    <3>1. \A q \in participants : q.conn # s
      BY <2>1, <2>3 DEF Shared, TypeOK, Live
    <3> QED
      BY <3>1, <2>3, <2>4, <1>1 DEF Connect, SetParticipant
  <2>6. ViewsAgree'
    BY <1>1, <2>5 DEF ViewsAgree, Connect, BroadcastPresence, Open, TypeOK
  <2>7. PresenceLedger'
    <3>1. Present(participants, u) <=> InRoom(u)
      BY <2>3 DEF Present, InRoom, Shared
    <3>2. \A v \in User : InRoom(v)' <=> InRoom(v) \/ v = u
      BY <2>1, <2>2 DEF InRoom, TypeOK, Live
    <3>3. joins' = IF InRoom(u) THEN joins ELSE [joins EXCEPT ![u] = @ + 1]
      BY <1>1, <3>1 DEF Connect, Count
    <3> QED
      BY <1>1, <3>2, <3>3 DEF Connect, PresenceLedger, TypeOK
  <2> QED
    BY <1>t, <1>1, <2>5, <2>6, <2>7 DEF Connect, HibernationInvisible, NoneLingers, TypeOK
<1>2. ASSUME NEW s \in Socket, StartsClosing(s)
      PROVE  IInv'
  <2>1. Live' = Live
    BY <1>2 DEF StartsClosing, Live, TypeOK
  <2>2. Shared' = Shared /\ \A v : InRoom(v)' <=> InRoom(v)
    BY <1>2, <2>1 DEF StartsClosing, Shared, InRoom
  <2>3. ViewsAgree'
    BY <1>2, <2>2 DEF StartsClosing, ViewsAgree, TypeOK
  <2> QED
    BY <1>t, <1>2, <2>2, <2>3
    DEF StartsClosing, HibernationInvisible, PresenceLedger, NoneLingers, TypeOK
<1>3. ASSUME NEW s \in Socket, NEW a \in BOOLEAN, ScreenShare(s, a)
      PROVE  IInv'
  <2> DEFINE p == [attachment[s] EXCEPT !.sharing = a]
  <2>1. s \in Live /\ Live' = Live
    BY <1>3 DEF ScreenShare, Live
  <2>2. p.conn = s /\ p.user = attachment[s].user
    BY <1>3 DEF ScreenShare, TypeOK, Participant
  <2>3. attachment' = [attachment EXCEPT ![s] = p] /\ attachment'[s] = p
    BY <1>3, <2>2 DEF ScreenShare, Attach, TypeOK
  <2>4. participants' = Shared'
    <3>1. participants = Shared
      BY <1>3 DEF ScreenShare, HibernationInvisible
    <3>2. {q \in Shared : q.conn # s} = {attachment[t] : t \in Live \ {s}}
      BY DEF Shared, TypeOK, Live
    <3>3. Shared' = {attachment[t] : t \in Live \ {s}} \cup {p}
      BY <2>1, <2>3 DEF Shared, TypeOK, Live
    <3> QED
      BY <1>3, <2>2, <3>1, <3>2, <3>3 DEF ScreenShare, SetParticipant
  <2>5. ViewsAgree'
    BY <1>3, <2>4 DEF ViewsAgree, ScreenShare, BroadcastPresence, Open, TypeOK
  <2>6. \A v : InRoom(v)' <=> InRoom(v)
    BY <2>1, <2>2, <2>3 DEF InRoom, TypeOK, Live
  <2> QED
    BY <1>t, <1>3, <2>4, <2>5, <2>6
    DEF ScreenShare, HibernationInvisible, PresenceLedger, NoneLingers
<1>4. ASSUME NEW s \in Socket, webSocketClose(s)
      PROVE  IInv'
  <2> DEFINE u == attachment[s].user
  <2>1. sock' = [sock EXCEPT ![s] = "gone"]
    BY <1>4 DEF webSocketClose
  <2>2. s \in Live /\ Live' = Live \ {s} /\ Live = Listed
    BY <1>4, <2>1 DEF webSocketClose, Live, Listed, NoneLingers, TypeOK
  <2>3. participants' = Shared'
    BY <1>4, <2>2 DEF webSocketClose, restoreParticipants, Shared
  <2>4. ViewsAgree'
    BY <1>4, <2>1, <2>3 DEF ViewsAgree, webSocketClose, BroadcastPresence, Open, TypeOK
  <2>5. PresenceLedger'
    <3>1. u \in User
      BY <1>4 DEF webSocketClose, TypeOK, Participant
    <3>2. Present(participants', u) <=> InRoom(u)'
      BY <1>4, <2>3 DEF Present, InRoom, Shared, webSocketClose
    <3>3. InRoom(u)
      BY <2>2 DEF InRoom
    <3>4. \A v \in User : v # u => (InRoom(v)' <=> InRoom(v))
      BY <1>4, <2>2 DEF InRoom, webSocketClose
    <3>5. leaves' = IF InRoom(u)' THEN leaves ELSE [leaves EXCEPT ![u] = @ + 1]
      BY <1>4, <3>2 DEF webSocketClose, Count
    <3>6. joins' = joins /\ u' = u
      BY <1>4 DEF webSocketClose
    <3>7. SUFFICES ASSUME NEW v \in User
                   PROVE  joins'[v] = leaves'[v] + (IF InRoom(v)' THEN 1 ELSE 0)
      BY DEF PresenceLedger
    <3>8. joins[v] = leaves[v] + (IF InRoom(v) THEN 1 ELSE 0) /\ leaves[v] \in Nat
      BY DEF PresenceLedger, TypeOK
    <3>9. CASE v = u
      <4>1. InRoom(v) /\ (InRoom(v)' <=> InRoom(u)')
        BY <3>3, <3>6, <3>9 DEF InRoom
      <4>2. leaves'[v] = IF InRoom(v)' THEN leaves[v] ELSE leaves[v] + 1
        BY <3>1, <3>5, <3>9, <4>1 DEF TypeOK
      <4> QED
        BY <3>6, <3>8, <4>1, <4>2
    <3>10. CASE v # u
      <4>1. leaves'[v] = leaves[v]
        BY <3>5, <3>10 DEF TypeOK
      <4> QED
        BY <3>4, <3>6, <3>8, <3>10, <4>1
    <3> QED
      BY <3>9, <3>10
  <2> QED
    BY <1>t, <1>4, <2>1, <2>3, <2>4, <2>5
    DEF webSocketClose, HibernationInvisible, NoneLingers, TypeOK
<1>5. ASSUME NEW s \in Socket, Forget(s)
      PROVE  IInv'
  BY <1>5 DEF Forget, NoneLingers
<1>6. CASE Hibernate \/ Wake \/ UNCHANGED vars
  <2>1. Live' = Live /\ Shared' = Shared /\ \A v : InRoom(v)' <=> InRoom(v)
    BY <1>6 DEF Hibernate, Wake, vars, Live, Shared, InRoom
  <2>2. HibernationInvisible'
    <3>1. restoreParticipants({}) = Shared
      BY DEF restoreParticipants, Shared, Live, Listed, NoneLingers
    <3> QED
      BY <1>6, <2>1, <3>1 DEF Hibernate, Wake, vars, HibernationInvisible
  <2> QED
    BY <1>t, <1>6, <2>1, <2>2
    DEF Hibernate, Wake, vars, ViewsAgree, PresenceLedger, NoneLingers
<1> QED
  BY <1>1, <1>2, <1>3, <1>4, <1>5, <1>6 DEF Next

(* The inductive invariant holds of every reachable state.                  *)
THEOREM Invariance == Spec => []IInv
<1>1. Init => IInv
  BY DEF Init, IInv, TypeOK, NoneLingers, HibernationInvisible, ViewsAgree,
         PresenceLedger, Live, Shared, InRoom
<1>2. IInv /\ [Next]_vars => IInv'
  <2> SUFFICES ASSUME IInv, [Next]_vars PROVE IInv'
    OBVIOUS
  <2>1. CASE prompt
    BY <2>1, NextInv
  <2>2. CASE ~prompt
    BY <2>2, PromptStays, NextType
    DEF IInv, NoneLingers, HibernationInvisible, ViewsAgree, PresenceLedger
  <2> QED
    BY <2>1, <2>2
<1> QED
  BY <1>1, <1>2, PTL DEF Spec

(* Joined and left events always balance the users in the room, for any     *)
(* number of tabs per user and any hibernation (webSocketClose() and         *)
(* acceptSocket() decide from the map, which must be right each time).      *)
THEOREM LedgerBalances == Spec => []PresenceLedger
<1>1. IInv => PresenceLedger
  BY DEF IInv
<1> QED
  BY <1>1, Invariance, PTL

(* Every open client is shown exactly the live connections.                 *)
THEOREM EveryoneSeesTheRoom == Spec => []ViewsAgree
<1>1. IInv => ViewsAgree
  BY DEF IInv
<1> QED
  BY <1>1, Invariance, PTL

(* Evicting and rebuilding the object never changes the participant map.    *)
THEOREM EvictionInvisible == Spec => []HibernationInvisible
<1>1. IInv => HibernationInvisible
  BY DEF IInv
<1> QED
  BY <1>1, Invariance, PTL

-----------------------------------------------------------------------------
(* What is left when closed sockets linger in the listing.                  *)

(* Nobody is forgotten or hidden by a step, whatever the listing still has. *)
LEMMA HiddenStep ==
  ASSUME TypeOK, NobodyForgotten, NobodyHidden, [Next]_vars
  PROVE  NobodyForgotten' /\ NobodyHidden'
<1> USE DEF NobodyForgotten
<1>1. ASSUME NEW s \in Socket, NEW u \in User, NEW r \in {"member", "viewer"},
             Connect(s, u, r)
      PROVE  NobodyForgotten' /\ NobodyHidden'
  <2> DEFINE p == [conn |-> s, user |-> u, role |-> r, sharing |-> FALSE]
  <2>1. Live' = Live \cup {s} /\ s \notin Live
    BY <1>1 DEF Connect, Live, TypeOK
  <2>2. attachment' = [attachment EXCEPT ![s] = p] /\ attachment'[s] = p
    BY <1>1 DEF Connect, TypeOK
  <2>3. Shared' = Shared \cup {p}
    BY <2>1, <2>2 DEF Shared, TypeOK, Live
  <2>4. \A q \in Shared : q.conn # s
    BY <2>1 DEF Shared, TypeOK, Live
  <2>5. Shared' \subseteq participants'
    BY <1>1, <2>3, <2>4 DEF Connect, SetParticipant
  <2>6. NobodyHidden'
    BY <1>1, <2>5 DEF NobodyHidden, Connect, BroadcastPresence, Open, TypeOK
  <2> QED
    BY <2>5, <2>6
<1>2. ASSUME NEW s \in Socket, StartsClosing(s)
      PROVE  NobodyForgotten' /\ NobodyHidden'
  <2>1. Live' = Live
    BY <1>2 DEF StartsClosing, Live, TypeOK
  <2>2. Shared' = Shared
    BY <1>2, <2>1 DEF StartsClosing, Shared
  <2> QED
    BY <1>2, <2>2 DEF StartsClosing, NobodyHidden, TypeOK
<1>3. ASSUME NEW s \in Socket, NEW a \in BOOLEAN, ScreenShare(s, a)
      PROVE  NobodyForgotten' /\ NobodyHidden'
  <2> DEFINE p == [attachment[s] EXCEPT !.sharing = a]
  <2>1. s \in Live /\ Live' = Live
    BY <1>3 DEF ScreenShare, Live
  <2>2. p.conn = s
    BY <1>3 DEF ScreenShare, TypeOK, Participant
  <2>3. attachment' = [attachment EXCEPT ![s] = p] /\ attachment'[s] = p
    BY <1>3, <2>2 DEF ScreenShare, Attach, TypeOK
  <2>4. Shared' = {attachment[t] : t \in Live \ {s}} \cup {p}
    BY <2>1, <2>3 DEF Shared, TypeOK, Live
  <2>5. {attachment[t] : t \in Live \ {s}} = {q \in Shared : q.conn # s}
    BY DEF Shared, TypeOK, Live
  <2>6. Shared' \subseteq participants'
    BY <1>3, <2>2, <2>4, <2>5 DEF ScreenShare, SetParticipant
  <2>7. NobodyHidden'
    BY <1>3, <2>6 DEF NobodyHidden, ScreenShare, BroadcastPresence, Open, TypeOK
  <2> QED
    BY <2>6, <2>7
<1>4. ASSUME NEW s \in Socket, webSocketClose(s)
      PROVE  NobodyForgotten' /\ NobodyHidden'
  <2>1. PICK after \in {"gone", "lingering"} : sock' = [sock EXCEPT ![s] = after]
    BY <1>4 DEF webSocketClose
  <2>2. Live' \subseteq Listed \ {s}
    BY <2>1 DEF Live, Listed, TypeOK
  <2>3. Shared' \subseteq participants'
    BY <1>4, <2>2 DEF webSocketClose, restoreParticipants, Shared
  <2>4. \A t \in Socket : sock'[t] = "open" => t \in Open
    BY <2>1 DEF Open, TypeOK
  <2>5. NobodyHidden'
    BY <1>4, <2>3, <2>4 DEF NobodyHidden, webSocketClose, BroadcastPresence
  <2> QED
    BY <2>3, <2>5
<1>5. ASSUME NEW s \in Socket, Forget(s)
      PROVE  NobodyForgotten' /\ NobodyHidden'
  <2>1. Live' = Live /\ Shared' = Shared
    BY <1>5 DEF Forget, Live, Shared, TypeOK
  <2> QED
    BY <1>5, <2>1 DEF Forget, NobodyHidden, TypeOK
<1>6. CASE Hibernate \/ Wake \/ UNCHANGED vars
  <2>1. Shared' = Shared
    BY <1>6 DEF Hibernate, Wake, vars, Live, Shared
  <2>2. Shared \subseteq restoreParticipants({})
    BY DEF restoreParticipants, Shared, Live, Listed
  <2> QED
    BY <1>6, <2>1, <2>2 DEF Hibernate, Wake, vars, NobodyHidden
<1> QED
  BY <1>1, <1>2, <1>3, <1>4, <1>5, <1>6 DEF Next

(* However long closed sockets stay listed, no open client ever misses a    *)
(* live connection.                                                         *)
THEOREM NobodyIsHidden == Spec => []NobodyHidden
<1>1. Init => NobodyForgotten /\ NobodyHidden
  BY DEF Init, NobodyForgotten, NobodyHidden, Live, Shared
<1>2. TypeOK /\ NobodyForgotten /\ NobodyHidden /\ [Next]_vars => (NobodyForgotten /\ NobodyHidden)'
  BY HiddenStep
<1> QED
  BY <1>1, <1>2, TypeCorrect, PTL DEF Spec
=============================================================================
