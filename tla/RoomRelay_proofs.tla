---------------------------- MODULE RoomRelay_proofs ----------------------------
(***************************************************************************)
(* Theorems about RoomRelay, for any number of tabs, messages and joins    *)
(* and any sizes of the window, the history and the board.                 *)
(***************************************************************************)
EXTENDS RoomRelay, SequenceTheorems, TLAPS

-----------------------------------------------------------------------------
(* The end of a list has its members, and at most so many.                  *)
LEMMA LastOfType ==
  ASSUME NEW S, NEW s \in Seq(S), NEW n \in Nat
  PROVE  /\ LastOf(s, n) \in Seq(S)
         /\ Len(LastOf(s, n)) <= n
         /\ ToSet(LastOf(s, n)) \subseteq ToSet(s)
<1> DEFINE m == IF Len(s) > n THEN Len(s) - n + 1 ELSE 1
<1>1. m \in 1..Len(s) + 1 /\ Len(s) \in Nat /\ Len(s) - m + 1 <= n
  OBVIOUS
<1> HIDE DEF m
<1>2. /\ SubSeq(s, m, Len(s)) \in Seq(S)
      /\ Len(SubSeq(s, m, Len(s))) = Len(s) - m + 1
      /\ \A i \in 1..Len(s) - m + 1 : SubSeq(s, m, Len(s))[i] = s[m + i - 1]
  BY <1>1, SubSeqProperties
<1>3. LastOf(s, n) = SubSeq(s, m, Len(s))
  BY DEF LastOf, m
<1>4. \A i \in 1..Len(s) - m + 1 : m + i - 1 \in 1..Len(s)
  BY <1>1
<1>5. ToSet(SubSeq(s, m, Len(s))) \subseteq ToSet(s)
  BY <1>1, <1>2, <1>4 DEF ToSet
<1> QED
  BY <1>1, <1>2, <1>3, <1>5

(* Recording keeps the list one, within its bound, and adds what it records.*)
LEMMA RecordType ==
  ASSUME RoomTypeOK, NEW e \in Event, record(e)
  PROVE  /\ events' \in Seq(Event) /\ Len(events') <= History
         /\ ToSet(events') \subseteq ToSet(events) \cup {e}
<1>1. Append(events, e) \in Seq(Event) /\ ToSet(Append(events, e)) \subseteq ToSet(events) \cup {e}
  BY DEF RoomTypeOK, ToSet
<1> QED
  BY <1>1, LastOfType, RelayAssumption DEF record, RoomTypeOK

(* The other events.                                                        *)
LEMMA OtherEvent == [type |-> "other", id |-> 0] \in Event
BY RelayAssumption DEF Event

LEMMA GreetingType ==
  ASSUME RoomTypeOK
  PROVE  Greeting \in Ready
<1>1. Recent \in Seq(Event)
  BY LastOfType, RelayAssumption DEF RoomTypeOK, Recent
<1> QED
  BY <1>1 DEF RoomTypeOK, Greeting, Ready

(* A queue from which the head was taken is a queue of the same messages.   *)
LEMMA Taken ==
  ASSUME NEW S, NEW q \in [Tab -> Seq(S)], NEW t \in Tab, q[t] # <<>>
  PROVE  [q EXCEPT ![t] = Tail(@)] \in [Tab -> Seq(S)] /\ Head(q[t]) \in S /\ Tail(q[t]) # q[t]
OBVIOUS

LEMMA EndedType ==
  ASSUME RoomTypeOK, NEW t \in Tab, Ended(t)
  PROVE  /\ link' \in [Tab -> {"off", "joining", "live", "closing"}]
         /\ conn' \in [Tab -> 0..MaxJoins] /\ role' \in [Tab -> {"member", "viewer"}]
         /\ up' \in [Tab -> Seq(Message)] /\ down' \in [Tab -> Seq(Message \cup Ready)]
<1>1. 0 \in 0..MaxJoins
  BY RelayAssumption
<1> QED
  BY <1>1 DEF RoomTypeOK, Ended

(* Publishing a message queues it, or loses it.                             *)
LEMMA PublishType ==
  ASSUME RoomTypeOK, NEW t \in Tab, NEW type \in Kind, NEW k \in 0..MaxJoins,
         publish(t, Says(type, k))
  PROVE  up' \in [Tab -> Seq(Message)] /\ sent' \in 0..MaxSent
<1>1. sent + 1 \in 1..MaxSent
  BY RelayAssumption DEF publish, RoomTypeOK
<1>2. Says(type, k) \in Message
  BY <1>1 DEF Says, Message
<1> QED
  BY <1>1, <1>2, RelayAssumption DEF publish, RoomTypeOK

-----------------------------------------------------------------------------
(* A step keeps the types of the room and its queues.                       *)
LEMMA TypeStep ==
  ASSUME RoomTypeOK, [Next]_vars
  PROVE  RoomTypeOK'
<1> USE DEF RoomTypeOK
<1>0. 0 \in 0..MaxJoins /\ \A k \in 1..MaxJoins : k \in 0..MaxJoins
  BY RelayAssumption
<1>1. CASE \E t \in Tab, r \in {"member", "viewer"} : acceptSocket(t, r)
  <2>1. PICK t \in Tab, r \in {"member", "viewer"} : acceptSocket(t, r)
    BY <1>1
  <2>2. events' \in Seq(Event) /\ Len(events') <= History
    BY <2>1, RecordType, OtherEvent DEF acceptSocket
  <2>3. down' \in [Tab -> Seq(Message \cup Ready)] /\ up' \in [Tab -> Seq(Message)]
    BY <2>1, GreetingType DEF acceptSocket
  <2>4. joins' \in 0..MaxJoins /\ conn' \in [Tab -> 0..MaxJoins]
    BY <2>1, RelayAssumption DEF acceptSocket
  <2> QED
    BY <2>1, <2>2, <2>3, <2>4 DEF acceptSocket
<1>2. CASE \E t \in Tab : Drops(t)
  <2>1. PICK t \in Tab : Drops(t)
    BY <1>2
  <2>2. events' \in Seq(Event) /\ Len(events') <= History
    BY <2>1, RecordType, OtherEvent DEF Drops
  <2> QED
    BY <2>1, <2>2, EndedType DEF Drops
<1>3. CASE \E t \in Tab : RefuseMessage(t)
  <2>1. PICK t \in Tab : RefuseMessage(t)
    BY <1>3
  <2>2. events' \in Seq(Event) /\ Len(events') <= History
    BY <2>1, RecordType, OtherEvent DEF RefuseMessage
  <2> QED
    BY <2>1, <2>2, EndedType DEF RefuseMessage
<1>4. CASE \E t \in Tab : RelayMessage(t)
  <2>1. PICK t \in Tab : RelayMessage(t)
    BY <1>4
  <2> DEFINE m == Head(up[t])
  <2>2. m \in Message /\ up' \in [Tab -> Seq(Message)]
    BY <2>1, Taken DEF RelayMessage
  <2>3. down' \in [Tab -> Seq(Message \cup Ready)]
    BY <2>1, <2>2 DEF RelayMessage, Broadcast
  <2>4. strokes' \in Seq(1..MaxSent) /\ Len(strokes') <= maxWhiteboardStrokes
    <3>1. m.id \in 1..MaxSent
      BY <2>2 DEF Message
    <3>2. Append(strokes, m.id) \in Seq(1..MaxSent)
      BY <3>1
    <3>3. /\ LastOf(Append(strokes, m.id), maxWhiteboardStrokes) \in Seq(1..MaxSent)
          /\ Len(LastOf(Append(strokes, m.id), maxWhiteboardStrokes)) <= maxWhiteboardStrokes
      BY <3>2, LastOfType, RelayAssumption
    <3>4. \/ strokes' = strokes \/ strokes' = <<>>
          \/ strokes' = LastOf(Append(strokes, m.id), maxWhiteboardStrokes)
      BY <2>1 DEF RelayMessage, applyWhiteboard
    <3>5. CASE strokes' = <<>>
      BY <3>5, RelayAssumption
    <3> QED
      BY <3>3, <3>4, <3>5
  <2>5. events' \in Seq(Event) /\ Len(events') <= History
    <3>1. CASE m.type \in {"chat", "editor"}
      <4>1. [type |-> m.type, id |-> m.id] \in Event
        BY <2>2, <3>1 DEF Message, Event
      <4> QED
        BY <2>1, <3>1, <4>1, RecordType DEF RelayMessage
    <3>2. CASE m.type \notin {"chat", "editor"}
      BY <2>1, <3>2 DEF RelayMessage
    <3> QED
      BY <3>1, <3>2
  <2>6. latest' \in 0..MaxSent
    BY <2>1, <2>2 DEF RelayMessage, Message
  <2> QED
    BY <2>1, <2>2, <2>3, <2>4, <2>5, <2>6 DEF RelayMessage
<1>5. CASE \E t \in Tab : OnClose(t)
  BY <1>5 DEF OnClose, roomVars
<1>6. CASE \E t \in Tab : Draw(t)
  <2>1. PICK t \in Tab : Draw(t)
    BY <1>6
  <2>2. up' \in [Tab -> Seq(Message)] /\ sent' \in 0..MaxSent
    BY <2>1, PublishType, <1>0 DEF Draw, Kind, Writes
  <2> QED
    BY <2>1, <2>2 DEF Draw, publish, roomVars
<1>7. CASE \E t \in Tab : ClearBoard(t)
  <2>1. PICK t \in Tab : ClearBoard(t)
    BY <1>7
  <2>2. up' \in [Tab -> Seq(Message)] /\ sent' \in 0..MaxSent
    BY <2>1, PublishType, <1>0 DEF ClearBoard, Kind, Writes
  <2> QED
    BY <2>1, <2>2 DEF ClearBoard, publish, roomVars
<1>8. CASE \E t \in Tab : SendChat(t)
  <2>1. PICK t \in Tab : SendChat(t)
    BY <1>8
  <2>2. up' \in [Tab -> Seq(Message)] /\ sent' \in 0..MaxSent
    BY <2>1, PublishType, <1>0 DEF SendChat, Kind, Writes
  <2> QED
    BY <2>1, <2>2 DEF SendChat, publish, roomVars
<1>9. CASE \E t \in Tab, type \in {"editor", "oversized"} : Type(t, type)
  <2>1. PICK t \in Tab, type \in {"editor", "oversized"} : Type(t, type)
    BY <1>9
  <2>2. up' \in [Tab -> Seq(Message)] /\ sent' \in 0..MaxSent
    BY <2>1, PublishType, <1>0 DEF Type, Kind, Writes
  <2> QED
    BY <2>1, <2>2 DEF Type, publish, roomVars
<1>10. CASE \E t \in Tab, k \in 1..MaxJoins : Signal(t, k)
  <2>1. PICK t \in Tab, k \in 1..MaxJoins : Signal(t, k)
    BY <1>10
  <2>2. up' \in [Tab -> Seq(Message)] /\ sent' \in 0..MaxSent
    BY <2>1, PublishType, <1>0 DEF Signal, Kind, Writes
  <2> QED
    BY <2>1, <2>2 DEF Signal, publish, roomVars
<1>11. CASE \E t \in Tab : ReceiveReady(t)
  BY <1>11 DEF ReceiveReady, roomVars
<1>12. CASE \E t \in Tab : Receive(t)
  BY <1>12 DEF Receive, roomVars
<1>13. CASE \E t \in Tab : HistoryLoads(t)
  BY <1>13 DEF HistoryLoads, roomVars
<1>14. CASE UNCHANGED vars
  BY <1>14 DEF vars, roomVars, tabVars
<1> QED
  BY <1>1, <1>2, <1>3, <1>4, <1>5, <1>6, <1>7, <1>8, <1>9, <1>10, <1>11, <1>12, <1>13, <1>14 DEF Next

(* Signals stay private.                                                    *)
LEMMA SignalStep ==
  ASSUME RoomTypeOK, SignalsArePrivate, [Next]_vars
  PROVE  SignalsArePrivate'
<1> USE DEF RoomTypeOK, SignalsArePrivate
<1>1. CASE \E t \in Tab, r \in {"member", "viewer"} : acceptSocket(t, r)
  <2>1. PICK t \in Tab, r \in {"member", "viewer"} : acceptSocket(t, r)
    BY <1>1
  <2>2. down' = [down EXCEPT ![t] = <<Greeting>>] /\ \A o \in Tab : o # t => conn'[o] = conn[o]
    BY <2>1 DEF acceptSocket
  <2>3. Greeting.type # "signal"
    BY DEF Greeting
  <2> QED
    BY <2>2, <2>3
<1>2. CASE \E t \in Tab : Drops(t)
  BY <1>2 DEF Drops, Ended
<1>3. CASE \E t \in Tab : RefuseMessage(t)
  BY <1>3 DEF RefuseMessage, Ended
<1>4. CASE \E t \in Tab : RelayMessage(t)
  <2>1. PICK t \in Tab : RelayMessage(t)
    BY <1>4
  <2>0. PICK m : m = Head(up[t])
    OBVIOUS
  <2>2. /\ \A o \in Tab : \/ down'[o] = down[o]
                          \/ down'[o] = Append(down[o], m) /\ (m.type = "signal" => conn[o] = m.to)
        /\ conn' = conn
    <3>1. down' = Broadcast(t, m) /\ conn' = conn
      BY <2>0, <2>1 DEF RelayMessage
    <3>2. \A o \in Tab : down'[o] = IF o \in Recipients(m) THEN Append(down[o], m) ELSE down[o]
      BY <3>1 DEF Broadcast
    <3>3. \A o \in Recipients(m) : m.type = "signal" => conn[o] = m.to
      BY DEF Recipients
    <3>4. ASSUME NEW o \in Tab
          PROVE  \/ down'[o] = down[o]
                 \/ down'[o] = Append(down[o], m) /\ (m.type = "signal" => conn[o] = m.to)
      <4>1. CASE o \in Recipients(m)
        <5>1. down'[o] = Append(down[o], m)
          BY <3>2, <4>1
        <5>2. m.type = "signal" => conn[o] = m.to
          BY <3>3, <4>1
        <5> QED
          BY <5>1, <5>2
      <4>2. CASE o \notin Recipients(m)
        BY <3>2, <4>2
      <4> QED
        BY <4>1, <4>2
    <3> QED
      BY <3>1, <3>4
  <2> SUFFICES ASSUME NEW o \in Tab, NEW i \in DOMAIN down'[o], down'[o][i].type = "signal"
               PROVE  down'[o][i].to = conn'[o]
    OBVIOUS
  <2>3. CASE down'[o] = down[o]
    BY <2>2, <2>3
  <2>4. CASE down'[o] = Append(down[o], m) /\ (m.type = "signal" => conn[o] = m.to)
    <3>1. down[o] \in Seq(Message \cup Ready)
      OBVIOUS
    <3>2. \/ i \in 1..Len(down[o]) /\ down'[o][i] = down[o][i]
          \/ i = Len(down[o]) + 1 /\ down'[o][i] = m
      BY <2>4, <3>1
    <3> QED
      BY <2>2, <2>4, <3>1, <3>2
  <2> QED
    BY <2>2, <2>3, <2>4
<1>5. CASE \E t \in Tab : OnClose(t)
  BY <1>5 DEF OnClose
<1>6. CASE \E t \in Tab : Draw(t)
  BY <1>6 DEF Draw, publish
<1>7. CASE \E t \in Tab : ClearBoard(t)
  BY <1>7 DEF ClearBoard, publish
<1>8. CASE \E t \in Tab : SendChat(t)
  BY <1>8 DEF SendChat, publish
<1>9. CASE \E t \in Tab, type \in {"editor", "oversized"} : Type(t, type)
  BY <1>9 DEF Type, publish
<1>10. CASE \E t \in Tab, k \in 1..MaxJoins : Signal(t, k)
  BY <1>10 DEF Signal, publish
<1>11. CASE \E t \in Tab : ReceiveReady(t)
  <2>1. PICK t \in Tab : ReceiveReady(t)
    BY <1>11
  <2>2. down' = [down EXCEPT ![t] = Tail(down[t])] /\ down[t] # <<>> /\ conn' = conn
    BY <2>1 DEF ReceiveReady
  <2>3. \A i \in DOMAIN Tail(down[t]) : i + 1 \in DOMAIN down[t] /\ Tail(down[t])[i] = down[t][i + 1]
    BY <2>2, HeadTailProperties
  <2> QED
    BY <2>2, <2>3
<1>12. CASE \E t \in Tab : Receive(t)
  <2>1. PICK t \in Tab : Receive(t)
    BY <1>12
  <2>2. down' = [down EXCEPT ![t] = Tail(down[t])] /\ down[t] # <<>> /\ conn' = conn
    BY <2>1 DEF Receive
  <2>3. \A i \in DOMAIN Tail(down[t]) : i + 1 \in DOMAIN down[t] /\ Tail(down[t])[i] = down[t][i + 1]
    BY <2>2, HeadTailProperties
  <2> QED
    BY <2>2, <2>3
<1>13. CASE \E t \in Tab : HistoryLoads(t)
  BY <1>13 DEF HistoryLoads
<1>14. CASE UNCHANGED vars
  BY <1>14 DEF vars, roomVars, tabVars
<1> QED
  BY <1>1, <1>2, <1>3, <1>4, <1>5, <1>6, <1>7, <1>8, <1>9, <1>10, <1>11, <1>12, <1>13, <1>14 DEF Next

(* Only who may write changes what the room shares.                         *)
LEMMA WriteStep ==
  ASSUME RoomTypeOK, [Next]_vars,
         strokes' # strokes \/ latest' # latest \/ (\E e \in ToSet(events') \ ToSet(events) : e.type # "other")
  PROVE  \E t \in Tab : role[t] # "viewer" /\ up'[t] # up[t]
<1>1. CASE \E t \in Tab, r \in {"member", "viewer"} : acceptSocket(t, r)
  <2>1. PICK t \in Tab, r \in {"member", "viewer"} : acceptSocket(t, r)
    BY <1>1
  <2>2. \A e \in ToSet(events') \ ToSet(events) : e.type = "other"
    BY <2>1, RecordType, OtherEvent DEF acceptSocket
  <2> QED
    BY <2>1, <2>2 DEF acceptSocket
<1>2. CASE \E t \in Tab : Drops(t)
  <2>1. PICK t \in Tab : Drops(t)
    BY <1>2
  <2>2. \A e \in ToSet(events') \ ToSet(events) : e.type = "other"
    BY <2>1, RecordType, OtherEvent DEF Drops
  <2> QED
    BY <2>1, <2>2 DEF Drops
<1>3. CASE \E t \in Tab : RefuseMessage(t)
  <2>1. PICK t \in Tab : RefuseMessage(t)
    BY <1>3
  <2>2. \A e \in ToSet(events') \ ToSet(events) : e.type = "other"
    BY <2>1, RecordType, OtherEvent DEF RefuseMessage
  <2> QED
    BY <2>1, <2>2 DEF RefuseMessage
<1>4. CASE \E t \in Tab : RelayMessage(t)
  <2>1. PICK t \in Tab : RelayMessage(t)
    BY <1>4
  <2> DEFINE m == Head(up[t])
  <2>2. up'[t] # up[t]
    <3>1. up[t] # <<>> /\ up' = [up EXCEPT ![t] = Tail(up[t])] /\ Tail(up[t]) # up[t]
      BY <2>1, Taken DEF RelayMessage, RoomTypeOK
    <3> QED
      BY <3>1 DEF RoomTypeOK
  <2>3. CASE m.type \in Writes
    <3>1. role[t] # "viewer"
      BY <2>1, <2>3 DEF RelayMessage, Refuses
    <3> QED
      BY <2>2, <3>1
  <2>4. CASE m.type \notin Writes
    <3>1. strokes' = strokes /\ latest' = latest /\ events' = events
      BY <2>1, <2>4 DEF RelayMessage, Writes
    <3> QED
      BY <3>1
  <2> QED
    BY <2>3, <2>4
<1>5. CASE \E t \in Tab : OnClose(t)
  BY <1>5 DEF OnClose, roomVars
<1>6. CASE \E t \in Tab : Draw(t)
  BY <1>6 DEF Draw, publish, roomVars
<1>7. CASE \E t \in Tab : ClearBoard(t)
  BY <1>7 DEF ClearBoard, publish, roomVars
<1>8. CASE \E t \in Tab : SendChat(t)
  BY <1>8 DEF SendChat, publish, roomVars
<1>9. CASE \E t \in Tab, type \in {"editor", "oversized"} : Type(t, type)
  BY <1>9 DEF Type, publish, roomVars
<1>10. CASE \E t \in Tab, k \in 1..MaxJoins : Signal(t, k)
  BY <1>10 DEF Signal, publish, roomVars
<1>11. CASE \E t \in Tab : ReceiveReady(t)
  BY <1>11 DEF ReceiveReady, roomVars
<1>12. CASE \E t \in Tab : Receive(t)
  BY <1>12 DEF Receive, roomVars
<1>13. CASE \E t \in Tab : HistoryLoads(t)
  BY <1>13 DEF HistoryLoads, roomVars
<1>14. CASE UNCHANGED vars
  BY <1>14 DEF vars, roomVars, tabVars
<1> QED
  BY <1>1, <1>2, <1>3, <1>4, <1>5, <1>6, <1>7, <1>8, <1>9, <1>10, <1>11, <1>12, <1>13, <1>14 DEF Next

-----------------------------------------------------------------------------
(* The invariant is inductive: in particular the room keeps to its bounds.  *)
THEOREM Invariance == Spec => []IInv
<1>1. Init => IInv
  BY RelayAssumption DEF Init, IInv, RoomTypeOK, SignalsArePrivate
<1>2. IInv /\ [Next]_vars => IInv'
  BY TypeStep, SignalStep DEF IInv
<1> QED
  BY <1>1, <1>2, PTL DEF Spec

(* A signal reaches only the connection it names.                           *)
THEOREM SignalsPrivate == Spec => []SignalsArePrivate
<1>1. IInv => SignalsArePrivate
  BY DEF IInv
<1> QED
  BY <1>1, Invariance, PTL

(* A viewer never changes the board, the text or the chat that are kept.    *)
THEOREM OnlyWatching == Spec => ViewersOnlyWatch
<1>1. IInv /\ [Next]_vars =>
        [strokes' # strokes \/ latest' # latest \/ (\E e \in ToSet(events') \ ToSet(events) : e.type # "other")
         => \E t \in Tab : role[t] # "viewer" /\ up'[t] # up[t]]_vars
  BY WriteStep DEF IInv
<1> QED
  BY <1>1, Invariance, PTL DEF Spec, ViewersOnlyWatch
=============================================================================
