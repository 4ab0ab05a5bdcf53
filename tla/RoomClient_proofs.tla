--------------------------- MODULE RoomClient_proofs ---------------------------
(***************************************************************************)
(* Theorems about RoomClient, for any number of sockets, requests and      *)
(* remote participants.                                                    *)
(***************************************************************************)
EXTENDS RoomClient, FiniteSetTheorems, TLAPS

-----------------------------------------------------------------------------
(* Type correctness.                                                        *)

(* Every update of the status line is one.                                  *)
LEMMA StatusType ==
  ASSUME NEW s \in Status, NEW a \in BOOLEAN, NEW b \in BOOLEAN
  PROVE  /\ [s EXCEPT !.error = a] \in Status
         /\ [s EXCEPT !.reconnecting = a, !.error = b] \in Status
         /\ [s EXCEPT !.connected = a, !.error = b] \in Status
         /\ [s EXCEPT !.connected = a, !.reconnecting = b] \in Status
BY DEF Status

(* Requests stay requests as they go on.                                    *)
LEMMA ResumeType ==
  ASSUME TypeOK, NEW result \in BOOLEAN, Resume(result)
  PROVE  request' \in [Request -> Asking]
BY DEF TypeOK, Resume, Asking

(* Settling an attempt changes what it may.                                 *)
LEMMA SettleType ==
  ASSUME TypeOK, NEW n \in Socket, NEW result \in BOOLEAN, Settle(n, result)
  PROVE  /\ request' \in [Request -> Asking]
         /\ promise' \in {"none", "ticket", "socket"}
         /\ readyTimers' \subseteq Socket
BY ResumeType DEF TypeOK, Settle

LEMMA TypeStep ==
  ASSUME TypeOK, [Next]_vars
  PROVE  TypeOK'
<1> USE SocketAssumption DEF TypeOK
<1>1. CASE Join
  BY <1>1, StatusType DEF Join, ClearForRetry, connectRoom, socketVars, timerVars,
     mediaVars, meshVars
<1>2. CASE \E q \in Request, d \in Device : AskDevice(q, d)
  <2>1. PICK q \in Request, d \in Device : AskDevice(q, d)
    BY <1>2
  <2>2. request' \in [Request -> Asking]
    BY <2>1 DEF AskDevice, Asking
  <2>3. status' \in Status
    BY <2>1, StatusType DEF AskDevice, ClearForRetry
  <2> QED
    BY <2>1, <2>2, <2>3 DEF AskDevice, ClearForRetry, connectRoom, socketVars, timerVars, mediaVars, meshVars
<1>3. CASE \E q \in Request : AskScreen(q)
  <2>1. PICK q \in Request : AskScreen(q)
    BY <1>3
  <2>2. request' \in [Request -> Asking]
    BY <2>1 DEF AskScreen, Asking, Device
  <2> QED
    BY <2>1, <2>2 DEF AskScreen, connectRoom, socketVars, timerVars, mediaVars, meshVars
<1>4. CASE \E q \in Request : Granted(q)
  <2>1. PICK q \in Request : Granted(q)
    BY <1>4
  <2>2. request' \in [Request -> Asking] /\ request[q].device \in Device
    BY <2>1 DEF Granted, Asking
  <2> QED
    BY <2>1, <2>2 DEF Granted, publishLocalTracks, socketVars, timerVars, mediaVars, meshVars
<1>5. CASE \E q \in Request : Refused(q)
  <2>1. PICK q \in Request : Refused(q)
    BY <1>5
  <2>2. request' \in [Request -> Asking] /\ status' \in Status
    BY <2>1, StatusType DEF Refused, Asking
  <2> QED
    BY <2>1, <2>2 DEF Refused, socketVars, timerVars, mediaVars, meshVars
<1>6. CASE \E q \in Request : ScreenEnded(q)
  BY <1>6 DEF ScreenEnded, publishLocalTracks, socketVars, timerVars, mediaVars, meshVars
<1>7. CASE \E d \in Device : TurnOff(d)
  BY <1>7 DEF TurnOff, SwitchOff, publishLocalTracks, socketVars, timerVars, mediaVars,
     meshVars
<1>8. CASE leave
  BY <1>8, StatusType DEF leave, CloseCurrent, Closing, How, Nothing, socketVars, timerVars,
     mediaVars, meshVars
<1>9. CASE Unmount
  BY <1>9 DEF Unmount, DropSocket, CloseCurrent, Closing, How, socketVars, timerVars,
     mediaVars, meshVars
<1>10. CASE TicketArrives
  BY <1>10 DEF TicketArrives, socketVars, timerVars, mediaVars, meshVars
<1>11. CASE TicketFails
  BY <1>11, StatusType, ResumeType DEF TicketFails, Resume, socketVars, timerVars,
     mediaVars, meshVars
<1>12. CASE \E n \in Socket : SocketOpens(n)
  BY <1>12, StatusType DEF SocketOpens, socketVars, timerVars, mediaVars, meshVars
<1>13. CASE \E n \in Socket : Drops(n)
  BY <1>13 DEF Drops, Closing, socketVars, timerVars, mediaVars, meshVars
<1>14. CASE \E n \in Socket : ReadyTimer(n)
  <2>1. PICK n \in Socket : ReadyTimer(n)
    BY <1>14
  <2>2. status' \in Status /\ sock' \in [Socket -> {"new", "connecting", "open", "closing", "closed"}]
    BY <2>1, StatusType DEF ReadyTimer, ReadyTimeout, Closing
  <2> QED
    BY <2>1, <2>2 DEF ReadyTimer, ReadyTimeout, socketVars, timerVars, mediaVars, meshVars
<1>15. CASE \E n \in Socket : ReconnectTimer(n)
  <2>1. PICK n \in Socket : ReconnectTimer(n)
    BY <1>15
  <2>2. promise' \in {"none", "ticket", "socket"}
    BY <2>1 DEF ReconnectTimer, connectRoom
  <2> QED
    BY <2>1, <2>2 DEF ReconnectTimer, socketVars, timerVars, mediaVars, meshVars
<1>16. CASE \E n \in Socket, errored \in BOOLEAN : OnClose(n, errored)
  <2>1. PICK n \in Socket, errored \in BOOLEAN : OnClose(n, errored)
    BY <1>16
  <2>2. request' \in [Request -> Asking] /\ promise' \in {"none", "ticket", "socket"} /\ readyTimers' \subseteq Socket
    BY <2>1, SettleType DEF OnClose
  <2>3. status' \in Status
    <3>1. Reconnects \in BOOLEAN
      BY DEF Reconnects
    <3>2. CASE socketRef = n
      <4>1. status' = [connected |-> FALSE, reconnecting |-> Reconnects, error |-> status.error \/ errored \/ ~Reconnects]
        BY <2>1, <3>2 DEF OnClose, LostConnection
      <4>2. (status.error \/ errored \/ ~Reconnects) \in BOOLEAN
        OBVIOUS
      <4> QED
        BY <3>1, <4>1, <4>2 DEF Status
    <3>3. CASE socketRef # n
      BY <2>1, <3>3 DEF OnClose
    <3> QED
      BY <3>2, <3>3
  <2>4. mesh' \in {0} \cup Socket /\ known' \subseteq Remote /\ localId' \in {0} \cup Socket
    BY <2>1 DEF OnClose, LostConnection
  <2>5. timers' \subseteq Socket /\ timerRef' \in {0} \cup Socket /\ resetTimer' \in BOOLEAN /\ attempts' \in Nat
    <3>1. CASE socketRef = n
      <4>1. /\ timers' = IF Reconnects THEN timers \cup {n} ELSE timers
            /\ timerRef' = IF Reconnects THEN n ELSE timerRef
            /\ resetTimer' = FALSE /\ attempts' = attempts + 1
        BY <2>1, <3>1 DEF OnClose, LostConnection
      <4>2. attempts' \in Nat
        BY <4>1
      <4>4. resetTimer' \in BOOLEAN
        BY <4>1
      <4>3. timers' \in {timers, timers \cup {n}} /\ timerRef' \in {timerRef, n}
        BY <4>1 DEF Reconnects
      <4> QED
        BY <4>2, <4>3, <4>4
    <3>2. CASE socketRef # n
      BY <2>1, <3>2 DEF OnClose, timerVars
    <3> QED
      BY <3>1, <3>2
  <2> QED
    BY <2>1, <2>2, <2>3, <2>4, <2>5 DEF OnClose
<1>17. CASE \E n \in Socket, others \in SUBSET Remote : RoomReady(n, others)
  <2>1. PICK n \in Socket, others \in SUBSET Remote : RoomReady(n, others)
    BY <1>17
  <2>2. request' \in [Request -> Asking] /\ promise' \in {"none", "ticket", "socket"} /\ readyTimers' \subseteq Socket
    BY <2>1, SettleType DEF RoomReady
  <2>3. status' \in Status
    BY <2>1 DEF RoomReady, Status
  <2> QED
    BY <2>1, <2>2, <2>3 DEF RoomReady, syncPeers, socketVars, timerVars, mediaVars, meshVars
<1>18. CASE \E n \in Socket, others \in SUBSET Remote : Presence(n, others)
  BY <1>18 DEF Presence, syncPeers, socketVars, timerVars, mediaVars, meshVars
<1>19. CASE StableTimer
  BY <1>19 DEF StableTimer, socketVars, timerVars, mediaVars, meshVars
<1>20. CASE UNCHANGED vars
  BY <1>20 DEF vars, socketVars, timerVars, mediaVars, meshVars
<1> QED
  BY <1>1, <1>2, <1>3, <1>4, <1>5, <1>6, <1>7, <1>8, <1>9, <1>10, <1>11, <1>12, <1>13,
     <1>14, <1>15, <1>16, <1>17, <1>18, <1>19, <1>20 DEF Next

(* Type correctness: every run of a tab stays within the types.             *)
THEOREM TypeCorrect == Spec => []TypeOK
<1>1. Init => TypeOK
  <2> SUFFICES ASSUME Init PROVE TypeOK
    OBVIOUS
  <2>1. status \in Status /\ request \in [Request -> Asking]
    BY DEF Init, Status, Asking, Device
  <2> QED
    BY <2>1 DEF Init, TypeOK, Nothing
<1>2. TypeOK /\ [Next]_vars => TypeOK'
  BY TypeStep
<1> QED
  BY <1>1, <1>2, PTL DEF Spec

-----------------------------------------------------------------------------
(* What a step keeps, part by part of the invariant.                        *)

(* A departure stays final.                                                  *)
LEMMA DepartureStep ==
  ASSUME TypeOK, DepartureIsFinal, [Next]_vars
  PROVE  DepartureIsFinal'
<1> USE DEF TypeOK, DepartureIsFinal
<1>1. CASE Join
  BY <1>1 DEF Join, ClearForRetry, connectRoom, socketVars, timerVars, mediaVars, meshVars
<1>2. CASE \E q \in Request, d \in Device : AskDevice(q, d)
  BY <1>2 DEF AskDevice, ClearForRetry, connectRoom, socketVars, timerVars, mediaVars,
     meshVars
<1>3. CASE \E q \in Request : AskScreen(q)
  BY <1>3 DEF AskScreen, connectRoom, socketVars, timerVars, mediaVars, meshVars
<1>4. CASE \E q \in Request : Granted(q)
  BY <1>4 DEF Granted, publishLocalTracks, Replaced, socketVars, timerVars, mediaVars,
     meshVars
<1>5. CASE \E q \in Request : Refused(q)
  BY <1>5 DEF Refused, socketVars, timerVars, mediaVars, meshVars
<1>6. CASE \E q \in Request : ScreenEnded(q)
  BY <1>6 DEF ScreenEnded, publishLocalTracks, socketVars, timerVars, mediaVars, meshVars
<1>7. CASE \E d \in Device : TurnOff(d)
  BY <1>7 DEF TurnOff, SwitchOff, publishLocalTracks, socketVars, timerVars, mediaVars,
     meshVars
<1>8. CASE leave
  BY <1>8 DEF leave, CloseCurrent, Closing, How, Nothing, socketVars, timerVars, mediaVars,
     meshVars
<1>9. CASE Unmount
  BY <1>9 DEF Unmount, DropSocket, CloseCurrent, Closing, How, socketVars, timerVars,
     mediaVars, meshVars
<1>10. CASE TicketArrives
  BY <1>10 DEF TicketArrives, socketVars, timerVars, mediaVars, meshVars
<1>11. CASE TicketFails
  BY <1>11 DEF TicketFails, Resume, socketVars, timerVars, mediaVars, meshVars
<1>12. CASE \E n \in Socket : SocketOpens(n)
  BY <1>12 DEF SocketOpens, socketVars, timerVars, mediaVars, meshVars
<1>13. CASE \E n \in Socket : Drops(n)
  BY <1>13 DEF Drops, Closing, socketVars, timerVars, mediaVars, meshVars
<1>14. CASE \E n \in Socket : ReadyTimer(n)
  BY <1>14 DEF ReadyTimer, ReadyTimeout, Closing, socketVars, timerVars, mediaVars, meshVars
<1>15. CASE \E n \in Socket : ReconnectTimer(n)
  BY <1>15 DEF ReconnectTimer, connectRoom, Socket, socketVars, timerVars, mediaVars, meshVars
<1>16. CASE \E n \in Socket, errored \in BOOLEAN : OnClose(n, errored)
  BY <1>16 DEF OnClose, Settle, Resume, LostConnection, Reconnects, socketVars, timerVars,
     mediaVars, meshVars
<1>17. CASE \E n \in Socket, others \in SUBSET Remote : RoomReady(n, others)
  BY <1>17 DEF RoomReady, Settle, Resume, syncPeers, socketVars, timerVars, mediaVars,
     meshVars
<1>18. CASE \E n \in Socket, others \in SUBSET Remote : Presence(n, others)
  BY <1>18 DEF Presence, syncPeers, socketVars, timerVars, mediaVars, meshVars
<1>19. CASE StableTimer
  BY <1>19 DEF StableTimer, socketVars, timerVars, mediaVars, meshVars
<1>20. CASE UNCHANGED vars
  BY <1>20 DEF vars, socketVars, timerVars, mediaVars, meshVars
<1> QED
  BY <1>1, <1>2, <1>3, <1>4, <1>5, <1>6, <1>7, <1>8, <1>9, <1>10, <1>11, <1>12, <1>13,
     <1>14, <1>15, <1>16, <1>17, <1>18, <1>19, <1>20 DEF Next

(* The mesh stays told of the participants shown.                            *)
LEMMA RosterStep ==
  ASSUME TypeOK, RosterConnected, [Next]_vars
  PROVE  RosterConnected'
<1> USE DEF TypeOK, RosterConnected
<1>1. CASE Join
  BY <1>1 DEF Join, ClearForRetry, connectRoom, socketVars, timerVars, mediaVars, meshVars
<1>2. CASE \E q \in Request, d \in Device : AskDevice(q, d)
  BY <1>2 DEF AskDevice, ClearForRetry, connectRoom, socketVars, timerVars, mediaVars,
     meshVars
<1>3. CASE \E q \in Request : AskScreen(q)
  BY <1>3 DEF AskScreen, connectRoom, socketVars, timerVars, mediaVars, meshVars
<1>4. CASE \E q \in Request : Granted(q)
  BY <1>4 DEF Granted, publishLocalTracks, Replaced, socketVars, timerVars, mediaVars,
     meshVars
<1>5. CASE \E q \in Request : Refused(q)
  BY <1>5 DEF Refused, socketVars, timerVars, mediaVars, meshVars
<1>6. CASE \E q \in Request : ScreenEnded(q)
  BY <1>6 DEF ScreenEnded, publishLocalTracks, socketVars, timerVars, mediaVars, meshVars
<1>7. CASE \E d \in Device : TurnOff(d)
  BY <1>7 DEF TurnOff, SwitchOff, publishLocalTracks, socketVars, timerVars, mediaVars,
     meshVars
<1>8. CASE leave
  BY <1>8 DEF leave, CloseCurrent, Closing, How, Nothing, socketVars, timerVars, mediaVars,
     meshVars
<1>9. CASE Unmount
  BY <1>9 DEF Unmount, DropSocket, CloseCurrent, Closing, How, socketVars, timerVars,
     mediaVars, meshVars
<1>10. CASE TicketArrives
  BY <1>10 DEF TicketArrives, socketVars, timerVars, mediaVars, meshVars
<1>11. CASE TicketFails
  BY <1>11 DEF TicketFails, Resume, socketVars, timerVars, mediaVars, meshVars
<1>12. CASE \E n \in Socket : SocketOpens(n)
  BY <1>12 DEF SocketOpens, socketVars, timerVars, mediaVars, meshVars
<1>13. CASE \E n \in Socket : Drops(n)
  BY <1>13 DEF Drops, Closing, socketVars, timerVars, mediaVars, meshVars
<1>14. CASE \E n \in Socket : ReadyTimer(n)
  BY <1>14 DEF ReadyTimer, ReadyTimeout, Closing, socketVars, timerVars, mediaVars, meshVars
<1>15. CASE \E n \in Socket : ReconnectTimer(n)
  BY <1>15 DEF ReconnectTimer, connectRoom, socketVars, timerVars, mediaVars, meshVars
<1>16. CASE \E n \in Socket, errored \in BOOLEAN : OnClose(n, errored)
  BY <1>16 DEF OnClose, Settle, Resume, LostConnection, Reconnects, socketVars, timerVars,
     mediaVars, meshVars
<1>17. CASE \E n \in Socket, others \in SUBSET Remote : RoomReady(n, others)
  BY <1>17 DEF RoomReady, Settle, Resume, syncPeers, socketVars, timerVars, mediaVars,
     meshVars
<1>18. CASE \E n \in Socket, others \in SUBSET Remote : Presence(n, others)
  BY <1>18 DEF Presence, syncPeers, socketVars, timerVars, mediaVars, meshVars
<1>19. CASE StableTimer
  BY <1>19 DEF StableTimer, socketVars, timerVars, mediaVars, meshVars
<1>20. CASE UNCHANGED vars
  BY <1>20 DEF vars, socketVars, timerVars, mediaVars, meshVars
<1> QED
  BY <1>1, <1>2, <1>3, <1>4, <1>5, <1>6, <1>7, <1>8, <1>9, <1>10, <1>11, <1>12, <1>13,
     <1>14, <1>15, <1>16, <1>17, <1>18, <1>19, <1>20 DEF Next

(* The mesh stays given the devices held.                                    *)
LEMMA PeersStep ==
  ASSUME TypeOK, PeersGetDevices, [Next]_vars
  PROVE  PeersGetDevices'
<1> USE DEF TypeOK, PeersGetDevices
<1>1. CASE Join
  BY <1>1 DEF Join, ClearForRetry, connectRoom, socketVars, timerVars, mediaVars, meshVars
<1>2. CASE \E q \in Request, d \in Device : AskDevice(q, d)
  BY <1>2 DEF AskDevice, ClearForRetry, connectRoom, socketVars, timerVars, mediaVars,
     meshVars
<1>3. CASE \E q \in Request : AskScreen(q)
  BY <1>3 DEF AskScreen, connectRoom, socketVars, timerVars, mediaVars, meshVars
<1>4. CASE \E q \in Request : Granted(q)
  BY <1>4 DEF Granted, publishLocalTracks, Replaced, socketVars, timerVars, mediaVars,
     meshVars
<1>5. CASE \E q \in Request : Refused(q)
  BY <1>5 DEF Refused, socketVars, timerVars, mediaVars, meshVars
<1>6. CASE \E q \in Request : ScreenEnded(q)
  BY <1>6 DEF ScreenEnded, publishLocalTracks, socketVars, timerVars, mediaVars, meshVars
<1>7. CASE \E d \in Device : TurnOff(d)
  BY <1>7 DEF TurnOff, SwitchOff, publishLocalTracks, socketVars, timerVars, mediaVars,
     meshVars
<1>8. CASE leave
  BY <1>8 DEF leave, CloseCurrent, Closing, How, Nothing, socketVars, timerVars, mediaVars,
     meshVars
<1>9. CASE Unmount
  BY <1>9 DEF Unmount, DropSocket, CloseCurrent, Closing, How, socketVars, timerVars,
     mediaVars, meshVars
<1>10. CASE TicketArrives
  BY <1>10 DEF TicketArrives, socketVars, timerVars, mediaVars, meshVars
<1>11. CASE TicketFails
  BY <1>11 DEF TicketFails, Resume, socketVars, timerVars, mediaVars, meshVars
<1>12. CASE \E n \in Socket : SocketOpens(n)
  BY <1>12 DEF SocketOpens, socketVars, timerVars, mediaVars, meshVars
<1>13. CASE \E n \in Socket : Drops(n)
  BY <1>13 DEF Drops, Closing, socketVars, timerVars, mediaVars, meshVars
<1>14. CASE \E n \in Socket : ReadyTimer(n)
  BY <1>14 DEF ReadyTimer, ReadyTimeout, Closing, socketVars, timerVars, mediaVars, meshVars
<1>15. CASE \E n \in Socket : ReconnectTimer(n)
  BY <1>15 DEF ReconnectTimer, connectRoom, socketVars, timerVars, mediaVars, meshVars
<1>16. CASE \E n \in Socket, errored \in BOOLEAN : OnClose(n, errored)
  BY <1>16 DEF OnClose, Settle, Resume, LostConnection, Reconnects, socketVars, timerVars,
     mediaVars, meshVars
<1>17. CASE \E n \in Socket, others \in SUBSET Remote : RoomReady(n, others)
  BY <1>17 DEF RoomReady, Settle, Resume, syncPeers, socketVars, timerVars, mediaVars,
     meshVars
<1>18. CASE \E n \in Socket, others \in SUBSET Remote : Presence(n, others)
  BY <1>18 DEF Presence, syncPeers, socketVars, timerVars, mediaVars, meshVars
<1>19. CASE StableTimer
  BY <1>19 DEF StableTimer, socketVars, timerVars, mediaVars, meshVars
<1>20. CASE UNCHANGED vars
  BY <1>20 DEF vars, socketVars, timerVars, mediaVars, meshVars
<1> QED
  BY <1>1, <1>2, <1>3, <1>4, <1>5, <1>6, <1>7, <1>8, <1>9, <1>10, <1>11, <1>12, <1>13,
     <1>14, <1>15, <1>16, <1>17, <1>18, <1>19, <1>20 DEF Next

(* Tracks and refs stay those of requests that are done.                     *)
LEMMA CapturedStep ==
  ASSUME TypeOK, Captured, [Next]_vars
  PROVE  Captured'
<1> USE NullAssumption DEF TypeOK, Captured, Asking
<1>1. CASE Join
  BY <1>1 DEF Join, ClearForRetry, connectRoom, socketVars, timerVars, mediaVars, meshVars
<1>2. CASE \E q \in Request, d \in Device : AskDevice(q, d)
  BY <1>2 DEF AskDevice, ClearForRetry, connectRoom, socketVars, timerVars, mediaVars,
     meshVars
<1>3. CASE \E q \in Request : AskScreen(q)
  BY <1>3 DEF AskScreen, connectRoom, socketVars, timerVars, mediaVars, meshVars
<1>4. CASE \E q \in Request : Granted(q)
  BY <1>4 DEF Granted, publishLocalTracks, Replaced, socketVars, timerVars, mediaVars,
     meshVars
<1>5. CASE \E q \in Request : Refused(q)
  BY <1>5 DEF Refused, socketVars, timerVars, mediaVars, meshVars
<1>6. CASE \E q \in Request : ScreenEnded(q)
  BY <1>6 DEF ScreenEnded, publishLocalTracks, socketVars, timerVars, mediaVars, meshVars
<1>7. CASE \E d \in Device : TurnOff(d)
  BY <1>7 DEF TurnOff, SwitchOff, publishLocalTracks, socketVars, timerVars, mediaVars,
     meshVars
<1>8. CASE leave
  BY <1>8 DEF leave, CloseCurrent, Closing, How, Nothing, socketVars, timerVars, mediaVars,
     meshVars
<1>9. CASE Unmount
  BY <1>9 DEF Unmount, DropSocket, CloseCurrent, Closing, How, socketVars, timerVars,
     mediaVars, meshVars
<1>10. CASE TicketArrives
  BY <1>10 DEF TicketArrives, socketVars, timerVars, mediaVars, meshVars
<1>11. CASE TicketFails
  BY <1>11 DEF TicketFails, Resume, socketVars, timerVars, mediaVars, meshVars
<1>12. CASE \E n \in Socket : SocketOpens(n)
  BY <1>12 DEF SocketOpens, socketVars, timerVars, mediaVars, meshVars
<1>13. CASE \E n \in Socket : Drops(n)
  BY <1>13 DEF Drops, Closing, socketVars, timerVars, mediaVars, meshVars
<1>14. CASE \E n \in Socket : ReadyTimer(n)
  BY <1>14 DEF ReadyTimer, ReadyTimeout, Closing, socketVars, timerVars, mediaVars, meshVars
<1>15. CASE \E n \in Socket : ReconnectTimer(n)
  BY <1>15 DEF ReconnectTimer, connectRoom, socketVars, timerVars, mediaVars, meshVars
<1>16. CASE \E n \in Socket, errored \in BOOLEAN : OnClose(n, errored)
  BY <1>16 DEF OnClose, Settle, Resume, LostConnection, Reconnects, socketVars, timerVars,
     mediaVars, meshVars
<1>17. CASE \E n \in Socket, others \in SUBSET Remote : RoomReady(n, others)
  BY <1>17 DEF RoomReady, Settle, Resume, syncPeers, socketVars, timerVars, mediaVars,
     meshVars
<1>18. CASE \E n \in Socket, others \in SUBSET Remote : Presence(n, others)
  BY <1>18 DEF Presence, syncPeers, socketVars, timerVars, mediaVars, meshVars
<1>19. CASE StableTimer
  BY <1>19 DEF StableTimer, socketVars, timerVars, mediaVars, meshVars
<1>20. CASE UNCHANGED vars
  BY <1>20 DEF vars, socketVars, timerVars, mediaVars, meshVars
<1> QED
  BY <1>1, <1>2, <1>3, <1>4, <1>5, <1>6, <1>7, <1>8, <1>9, <1>10, <1>11, <1>12, <1>13,
     <1>14, <1>15, <1>16, <1>17, <1>18, <1>19, <1>20 DEF Next

(* Off stays off.                                                            *)
LEMMA OffStep ==
  ASSUME TypeOK, Captured, OffMeansOff, [Next]_vars
  PROVE  OffMeansOff'
<1> USE NullAssumption DEF TypeOK, Captured, OffMeansOff, Running, Asking, Device
<1>1. CASE Join
  BY <1>1 DEF Join, ClearForRetry, connectRoom, socketVars, timerVars, mediaVars, meshVars
<1>2. CASE \E q \in Request, d \in Device : AskDevice(q, d)
  BY <1>2 DEF AskDevice, ClearForRetry, connectRoom, socketVars, timerVars, mediaVars,
     meshVars
<1>3. CASE \E q \in Request : AskScreen(q)
  BY <1>3 DEF AskScreen, connectRoom, socketVars, timerVars, mediaVars, meshVars
<1>4. CASE \E q \in Request : Granted(q)
  BY <1>4 DEF Granted, publishLocalTracks, Replaced, socketVars, timerVars, mediaVars,
     meshVars
<1>5. CASE \E q \in Request : Refused(q)
  BY <1>5 DEF Refused, socketVars, timerVars, mediaVars, meshVars
<1>6. CASE \E q \in Request : ScreenEnded(q)
  BY <1>6 DEF ScreenEnded, publishLocalTracks, socketVars, timerVars, mediaVars, meshVars
<1>7. CASE \E d \in Device : TurnOff(d)
  BY <1>7 DEF TurnOff, SwitchOff, publishLocalTracks, socketVars, timerVars, mediaVars,
     meshVars
<1>8. CASE leave
  BY <1>8 DEF leave, CloseCurrent, Closing, How, Nothing, socketVars, timerVars, mediaVars,
     meshVars
<1>9. CASE Unmount
  BY <1>9 DEF Unmount, DropSocket, CloseCurrent, Closing, How, socketVars, timerVars,
     mediaVars, meshVars
<1>10. CASE TicketArrives
  BY <1>10 DEF TicketArrives, socketVars, timerVars, mediaVars, meshVars
<1>11. CASE TicketFails
  BY <1>11 DEF TicketFails, Resume, socketVars, timerVars, mediaVars, meshVars
<1>12. CASE \E n \in Socket : SocketOpens(n)
  BY <1>12 DEF SocketOpens, socketVars, timerVars, mediaVars, meshVars
<1>13. CASE \E n \in Socket : Drops(n)
  BY <1>13 DEF Drops, Closing, socketVars, timerVars, mediaVars, meshVars
<1>14. CASE \E n \in Socket : ReadyTimer(n)
  BY <1>14 DEF ReadyTimer, ReadyTimeout, Closing, socketVars, timerVars, mediaVars, meshVars
<1>15. CASE \E n \in Socket : ReconnectTimer(n)
  BY <1>15 DEF ReconnectTimer, connectRoom, socketVars, timerVars, mediaVars, meshVars
<1>16. CASE \E n \in Socket, errored \in BOOLEAN : OnClose(n, errored)
  BY <1>16 DEF OnClose, Settle, Resume, LostConnection, Reconnects, socketVars, timerVars,
     mediaVars, meshVars
<1>17. CASE \E n \in Socket, others \in SUBSET Remote : RoomReady(n, others)
  BY <1>17 DEF RoomReady, Settle, Resume, syncPeers, socketVars, timerVars, mediaVars,
     meshVars
<1>18. CASE \E n \in Socket, others \in SUBSET Remote : Presence(n, others)
  BY <1>18 DEF Presence, syncPeers, socketVars, timerVars, mediaVars, meshVars
<1>19. CASE StableTimer
  BY <1>19 DEF StableTimer, socketVars, timerVars, mediaVars, meshVars
<1>20. CASE UNCHANGED vars
  BY <1>20 DEF vars, socketVars, timerVars, mediaVars, meshVars
<1> QED
  BY <1>1, <1>2, <1>3, <1>4, <1>5, <1>6, <1>7, <1>8, <1>9, <1>10, <1>11, <1>12, <1>13,
     <1>14, <1>15, <1>16, <1>17, <1>18, <1>19, <1>20 DEF Next

(* Sockets are dialled one by one, so the next one is new.                  *)
LEMMA NextIsNew ==
  ASSUME TypeOK, DialsInOrder
  PROVE  /\ Newest \in Nat /\ Newest + 1 \notin Dialled
         /\ Newest \in Socket \/ Newest = 0
<1>1. IsFiniteSet(Socket)
  BY FS_Interval, SocketAssumption DEF Socket
<1>2. Newest \in Nat
  BY <1>1, FS_Subset, FS_CardinalityType DEF Newest, Dialled
<1>3. \A n \in 1..Newest : n \in Socket
  BY DEF DialsInOrder, Dialled
<1> QED
  BY <1>2, <1>3 DEF DialsInOrder, Socket

(* A step that leaves every new socket new leaves the count as it was.      *)
LEMMA SameDialled ==
  ASSUME \A n \in Socket : sock'[n] = "new" <=> sock[n] = "new"
  PROVE  Dialled' = Dialled /\ Newest' = Newest
BY DEF Dialled, Newest


(* Sockets stay numbered as they are dialled.                                *)
LEMMA OrderStep ==
  ASSUME TypeOK, DialsInOrder, [Next]_vars
  PROVE  DialsInOrder'
<1> USE DEF TypeOK
<1>1. CASE Join
  BY <1>1 DEF Join, ClearForRetry, connectRoom, socketVars, timerVars, mediaVars, meshVars,
     DialsInOrder, Dialled, Newest
<1>2. CASE \E q \in Request, d \in Device : AskDevice(q, d)
  BY <1>2 DEF AskDevice, ClearForRetry, connectRoom, socketVars, timerVars, mediaVars,
     meshVars, DialsInOrder, Dialled, Newest
<1>3. CASE \E q \in Request : AskScreen(q)
  BY <1>3 DEF AskScreen, connectRoom, socketVars, timerVars, mediaVars, meshVars,
     DialsInOrder, Dialled, Newest
<1>4. CASE \E q \in Request : Granted(q)
  BY <1>4 DEF Granted, socketVars, DialsInOrder, Dialled, Newest
<1>5. CASE \E q \in Request : Refused(q)
  BY <1>5 DEF Refused, socketVars, timerVars, mediaVars, meshVars, DialsInOrder, Dialled,
     Newest
<1>6. CASE \E q \in Request : ScreenEnded(q)
  BY <1>6 DEF ScreenEnded, publishLocalTracks, socketVars, timerVars, mediaVars, meshVars,
     DialsInOrder, Dialled, Newest
<1>7. CASE \E d \in Device : TurnOff(d)
  BY <1>7 DEF TurnOff, SwitchOff, publishLocalTracks, socketVars, timerVars, mediaVars,
     meshVars, DialsInOrder, Dialled, Newest
<1>8. CASE leave
  <2>1. \A n \in Socket : sock'[n] = sock[n] \/ (sock[n] # "new" /\ sock'[n] = "closing" /\ sock[n] # "closed")
    BY <1>8 DEF leave, CloseCurrent, Closing
  <2>2. Dialled' = Dialled /\ Newest' = Newest
    BY <2>1, SameDialled
  <2> QED
    BY <1>8, <2>1, <2>2, NextIsNew DEF leave, DialsInOrder
<1>9. CASE Unmount
  <2>1. \A n \in Socket : sock'[n] = sock[n] \/ (sock[n] # "new" /\ sock'[n] = "closing" /\ sock[n] # "closed")
    BY <1>9 DEF Unmount, DropSocket, CloseCurrent, Closing
  <2>2. Dialled' = Dialled /\ Newest' = Newest
    BY <2>1, SameDialled
  <2> QED
    BY <1>9, <2>1, <2>2, NextIsNew DEF Unmount, DropSocket, DialsInOrder
<1>10. CASE TicketArrives
  <2> DEFINE m == Newest + 1
  <2>1. /\ m \in Socket /\ sock[m] = "new" /\ sock' = [sock EXCEPT ![m] = "connecting"]
        /\ promise = "ticket" /\ promise' = "socket" /\ socketRef' = m
    BY <1>10, NextIsNew DEF TicketArrives, Dialled
  <2>2. Dialled' = 1..m
    <3>1. Dialled' = Dialled \cup {m}
      BY <2>1 DEF Dialled
    <3> QED
      BY <3>1, NextIsNew DEF DialsInOrder
  <2>3. Newest' = m
    <3>1. m \in Nat /\ Cardinality(1..m) = m
      BY FS_Interval, NextIsNew
    <3> QED
      BY <2>2, <3>1 DEF Newest
  <2> QED
    <3>1. m # 0 /\ sock'[m] = "connecting"
      BY <2>1, NextIsNew
    <3>2. \A n \in Socket : sock'[n] = "connecting" => n = m
      BY <2>1 DEF DialsInOrder
    <3> QED
      BY <2>1, <2>2, <2>3, <3>1, <3>2 DEF DialsInOrder
<1>11. CASE TicketFails
  BY <1>11 DEF TicketFails, Resume, socketVars, timerVars, mediaVars, meshVars,
     DialsInOrder, Dialled, Newest
<1>12. CASE \E n \in Socket : SocketOpens(n)
  <2>1. PICK n \in Socket : SocketOpens(n)
    BY <1>12
  <2>2. Dialled' = Dialled /\ Newest' = Newest
    BY <2>1, SameDialled DEF SocketOpens
  <2> QED
    BY <2>1, <2>2, NextIsNew DEF SocketOpens, DialsInOrder
<1>13. CASE \E n \in Socket : Drops(n)
  <2>1. PICK n \in Socket : Drops(n)
    BY <1>13
  <2>2. Dialled' = Dialled /\ Newest' = Newest
    BY <2>1, SameDialled DEF Drops, Closing
  <2> QED
    BY <2>1, <2>2, NextIsNew DEF Drops, Closing, DialsInOrder
<1>14. CASE \E n \in Socket : ReadyTimer(n)
  <2>1. PICK n \in Socket : ReadyTimer(n)
    BY <1>14
  <2>2. \A k \in Socket : sock'[k] = sock[k] \/ (sock[k] # "new" /\ sock'[k] = "closing" /\ sock[k] # "closed")
    BY <2>1 DEF ReadyTimer, ReadyTimeout, Closing
  <2>3. Dialled' = Dialled /\ Newest' = Newest
    BY <2>2, SameDialled
  <2> QED
    BY <2>1, <2>2, <2>3, NextIsNew DEF ReadyTimer, DialsInOrder
<1>15. CASE \E n \in Socket : ReconnectTimer(n)
  BY <1>15 DEF ReconnectTimer, connectRoom, socketVars, timerVars, mediaVars, meshVars,
     DialsInOrder, Dialled, Newest
<1>16. CASE \E n \in Socket, errored \in BOOLEAN : OnClose(n, errored)
  <2>1. PICK n \in Socket, errored \in BOOLEAN : OnClose(n, errored)
    BY <1>16
  <2>2. sock[n] = "closing" /\ sock' = [sock EXCEPT ![n] = "closed"] /\ socketRef' = socketRef
    BY <2>1 DEF OnClose
  <2>3. \/ promise' = promise /\ ~(promise = "socket" /\ n = Newest)
        \/ promise' = "none" /\ promise = "socket" /\ n = Newest
    BY <2>1 DEF OnClose, Settle
  <2>4. Dialled' = Dialled /\ Newest' = Newest
    BY <2>2, SameDialled
  <2> QED
    BY <2>2, <2>3, <2>4, NextIsNew DEF DialsInOrder
<1>17. CASE \E n \in Socket, others \in SUBSET Remote : RoomReady(n, others)
  <2>1. PICK n \in Socket, others \in SUBSET Remote : RoomReady(n, others)
    BY <1>17
  <2>2. sock[n] = "open" /\ sock' = sock /\ socketRef' = socketRef
    BY <2>1 DEF RoomReady
  <2>3. \/ promise' = promise
        \/ promise' = "none" /\ promise = "socket" /\ n = Newest
    BY <2>1 DEF RoomReady, Settle
  <2>4. Dialled' = Dialled /\ Newest' = Newest
    BY <2>2 DEF Dialled, Newest
  <2> QED
    BY <2>2, <2>3, <2>4, NextIsNew DEF DialsInOrder
<1>18. CASE \E n \in Socket, others \in SUBSET Remote : Presence(n, others)
  BY <1>18 DEF Presence, syncPeers, socketVars, timerVars, mediaVars, meshVars,
     DialsInOrder, Dialled, Newest
<1>19. CASE StableTimer
  BY <1>19 DEF StableTimer, socketVars, timerVars, mediaVars, meshVars, DialsInOrder,
     Dialled, Newest
<1>20. CASE UNCHANGED vars
  BY <1>20 DEF vars, socketVars, timerVars, mediaVars, meshVars, DialsInOrder, Dialled,
     Newest
<1> QED
  BY <1>1, <1>2, <1>3, <1>4, <1>5, <1>6, <1>7, <1>8, <1>9, <1>10, <1>11, <1>12, <1>13,
     <1>14, <1>15, <1>16, <1>17, <1>18, <1>19, <1>20 DEF Next

(* Reconnect timers stay those of closed sockets.                            *)
LEMMA WaitsStep ==
  ASSUME TypeOK, DialsInOrder, WaitsForClosed, [Next]_vars
  PROVE  WaitsForClosed'
<1> USE DEF TypeOK, DialsInOrder, WaitsForClosed, Status
<1>1. CASE Join
  BY <1>1 DEF Join, ClearForRetry, connectRoom, socketVars, timerVars, mediaVars, meshVars
<1>2. CASE \E q \in Request, d \in Device : AskDevice(q, d)
  BY <1>2 DEF AskDevice, ClearForRetry, connectRoom, socketVars, timerVars, mediaVars,
     meshVars
<1>3. CASE \E q \in Request : AskScreen(q)
  BY <1>3 DEF AskScreen, connectRoom, socketVars, timerVars, mediaVars, meshVars
<1>4. CASE \E q \in Request : Granted(q)
  BY <1>4 DEF Granted, publishLocalTracks, Replaced, socketVars, timerVars, mediaVars,
     meshVars
<1>5. CASE \E q \in Request : Refused(q)
  BY <1>5 DEF Refused, socketVars, timerVars, mediaVars, meshVars
<1>6. CASE \E q \in Request : ScreenEnded(q)
  BY <1>6 DEF ScreenEnded, publishLocalTracks, socketVars, timerVars, mediaVars, meshVars
<1>7. CASE \E d \in Device : TurnOff(d)
  BY <1>7 DEF TurnOff, SwitchOff, publishLocalTracks, socketVars, timerVars, mediaVars,
     meshVars
<1>8. CASE leave
  BY <1>8 DEF leave, CloseCurrent, Closing, How, Nothing, socketVars, timerVars, mediaVars,
     meshVars
<1>9. CASE Unmount
  BY <1>9 DEF Unmount, DropSocket, CloseCurrent, Closing, How, socketVars, timerVars,
     mediaVars, meshVars
<1>10. CASE TicketArrives
  <2>1. Newest + 1 \in Socket /\ sock[Newest + 1] = "new"
    BY <1>10, NextIsNew DEF TicketArrives, Dialled
  <2> QED
    BY <1>10, <2>1 DEF TicketArrives, timerVars, Socket
<1>11. CASE TicketFails
  BY <1>11 DEF TicketFails, Resume, socketVars, timerVars, mediaVars, meshVars
<1>12. CASE \E n \in Socket : SocketOpens(n)
  BY <1>12 DEF SocketOpens, socketVars, timerVars, mediaVars, meshVars
<1>13. CASE \E n \in Socket : Drops(n)
  BY <1>13 DEF Drops, Closing, socketVars, timerVars, mediaVars, meshVars
<1>14. CASE \E n \in Socket : ReadyTimer(n)
  BY <1>14 DEF ReadyTimer, ReadyTimeout, Closing, socketVars, timerVars, mediaVars, meshVars
<1>15. CASE \E n \in Socket : ReconnectTimer(n)
  BY <1>15 DEF ReconnectTimer, connectRoom, socketVars, timerVars, mediaVars, meshVars
<1>16. CASE \E n \in Socket, errored \in BOOLEAN : OnClose(n, errored)
  <2>1. PICK n \in Socket, errored \in BOOLEAN : OnClose(n, errored)
    BY <1>16
  <2>2. sock' = [sock EXCEPT ![n] = "closed"] /\ socketRef' = socketRef /\ mounted' = mounted
    BY <2>1 DEF OnClose
  <2>3. timers' \subseteq timers \cup {n}
    BY <2>1 DEF OnClose, LostConnection, timerVars
  <2>4. IF socketRef = n THEN socketRef # 0 ELSE status' = status
    BY <2>1 DEF OnClose, Socket
  <2> QED
    BY <2>2, <2>3, <2>4
<1>17. CASE \E n \in Socket, others \in SUBSET Remote : RoomReady(n, others)
  <2>1. PICK n \in Socket, others \in SUBSET Remote : RoomReady(n, others)
    BY <1>17
  <2> QED
    BY <2>1 DEF RoomReady, timerVars, Socket
<1>18. CASE \E n \in Socket, others \in SUBSET Remote : Presence(n, others)
  BY <1>18 DEF Presence, syncPeers, socketVars, timerVars, mediaVars, meshVars
<1>19. CASE StableTimer
  BY <1>19 DEF StableTimer, socketVars, timerVars, mediaVars, meshVars
<1>20. CASE UNCHANGED vars
  BY <1>20 DEF vars, socketVars, timerVars, mediaVars, meshVars
<1> QED
  BY <1>1, <1>2, <1>3, <1>4, <1>5, <1>6, <1>7, <1>8, <1>9, <1>10, <1>11, <1>12, <1>13,
     <1>14, <1>15, <1>16, <1>17, <1>18, <1>19, <1>20 DEF Next

(* The status line stays honest.                                             *)
LEMMA StatusStep ==
  ASSUME TypeOK, DialsInOrder, WaitsForClosed, StatusIsHonest, [Next]_vars
  PROVE  StatusIsHonest'
<1> USE DEF TypeOK, DialsInOrder, WaitsForClosed, StatusIsHonest, Status
<1>1. CASE Join
  BY <1>1 DEF Join, ClearForRetry, connectRoom, socketVars, timerVars, mediaVars, meshVars
<1>2. CASE \E q \in Request, d \in Device : AskDevice(q, d)
  BY <1>2 DEF AskDevice, ClearForRetry, connectRoom, socketVars, timerVars, mediaVars,
     meshVars
<1>3. CASE \E q \in Request : AskScreen(q)
  BY <1>3 DEF AskScreen, connectRoom, socketVars, timerVars, mediaVars, meshVars
<1>4. CASE \E q \in Request : Granted(q)
  BY <1>4 DEF Granted, publishLocalTracks, Replaced, socketVars, timerVars, mediaVars,
     meshVars
<1>5. CASE \E q \in Request : Refused(q)
  BY <1>5 DEF Refused, socketVars, timerVars, mediaVars, meshVars
<1>6. CASE \E q \in Request : ScreenEnded(q)
  BY <1>6 DEF ScreenEnded, publishLocalTracks, socketVars, timerVars, mediaVars, meshVars
<1>7. CASE \E d \in Device : TurnOff(d)
  BY <1>7 DEF TurnOff, SwitchOff, publishLocalTracks, socketVars, timerVars, mediaVars,
     meshVars
<1>8. CASE leave
  BY <1>8 DEF leave, CloseCurrent, Closing, How, Nothing, socketVars, timerVars, mediaVars,
     meshVars
<1>9. CASE Unmount
  BY <1>9 DEF Unmount, DropSocket, CloseCurrent, Closing, How, socketVars, timerVars,
     mediaVars, meshVars
<1>10. CASE TicketArrives
  BY <1>10 DEF TicketArrives, socketVars, timerVars, mediaVars, meshVars
<1>11. CASE TicketFails
  BY <1>11 DEF TicketFails, Resume, socketVars, timerVars, mediaVars, meshVars
<1>12. CASE \E n \in Socket : SocketOpens(n)
  BY <1>12 DEF SocketOpens, socketVars, timerVars, mediaVars, meshVars
<1>13. CASE \E n \in Socket : Drops(n)
  BY <1>13 DEF Drops, Closing, socketVars, timerVars, mediaVars, meshVars
<1>14. CASE \E n \in Socket : ReadyTimer(n)
  BY <1>14 DEF ReadyTimer, ReadyTimeout, Closing, socketVars, timerVars, mediaVars, meshVars
<1>15. CASE \E n \in Socket : ReconnectTimer(n)
  <2>1. PICK n \in Socket : ReconnectTimer(n)
    BY <1>15
  <2>2. sock[n] = "closed" /\ timers' = timers \ {n}
    BY <2>1 DEF ReconnectTimer
  <2>3. CASE socketRef = n
    <3>1. promise' # "none"
      BY <2>1, <2>2, <2>3 DEF ReconnectTimer, connectRoom, Joined
    <3> QED
      BY <2>1, <3>1 DEF ReconnectTimer
  <2>4. CASE socketRef # n
    BY <2>1, <2>2, <2>4 DEF ReconnectTimer
  <2> QED
    BY <2>3, <2>4
<1>16. CASE \E n \in Socket, errored \in BOOLEAN : OnClose(n, errored)
  <2>1. PICK n \in Socket, errored \in BOOLEAN : OnClose(n, errored)
    BY <1>16
  <2>2. sock' = [sock EXCEPT ![n] = "closed"] /\ socketRef' = socketRef /\ mounted' = mounted
    BY <2>1 DEF OnClose
  <2>3. CASE socketRef = n
    BY <2>1, <2>2, <2>3 DEF OnClose, LostConnection, Reconnects
  <2>4. CASE socketRef # n
    <3>1. UNCHANGED <<localId, timers, status>>
      BY <2>1, <2>4 DEF OnClose, timerVars
    <3>2. promise' = promise \/ (promise = "socket" /\ n = Newest)
      BY <2>1 DEF OnClose, Settle
    <3>3. CASE promise' = promise
      BY <2>2, <2>4, <3>1, <3>3
    <3>4. CASE promise = "socket" /\ n = Newest
      BY <2>2, <2>4, <3>1, <3>4
    <3> QED
      BY <3>2, <3>3, <3>4
  <2> QED
    BY <2>3, <2>4
<1>17. CASE \E n \in Socket, others \in SUBSET Remote : RoomReady(n, others)
  <2>1. PICK n \in Socket, others \in SUBSET Remote : RoomReady(n, others)
    BY <1>17
  <2> QED
    BY <2>1 DEF RoomReady, timerVars, Socket
<1>18. CASE \E n \in Socket, others \in SUBSET Remote : Presence(n, others)
  BY <1>18 DEF Presence, syncPeers, socketVars, timerVars, mediaVars, meshVars
<1>19. CASE StableTimer
  BY <1>19 DEF StableTimer, socketVars, timerVars, mediaVars, meshVars
<1>20. CASE UNCHANGED vars
  BY <1>20 DEF vars, socketVars, timerVars, mediaVars, meshVars
<1> QED
  BY <1>1, <1>2, <1>3, <1>4, <1>5, <1>6, <1>7, <1>8, <1>9, <1>10, <1>11, <1>12, <1>13,
     <1>14, <1>15, <1>16, <1>17, <1>18, <1>19, <1>20 DEF Next

-----------------------------------------------------------------------------
(* The invariant.                                                           *)

LEMMA InitInvariant == Init => IInv
<1> SUFFICES ASSUME Init PROVE IInv
  OBVIOUS
<1>1. TypeOK
  <2>1. status \in Status /\ request \in [Request -> Asking]
    BY DEF Init, Status, Asking, Device
  <2> QED
    BY <2>1 DEF Init, TypeOK, Nothing
<1>2. StatusIsHonest /\ OffMeansOff /\ PeersGetDevices /\ RosterConnected
  BY DEF Init, StatusIsHonest, OffMeansOff, Running, Device, PeersGetDevices, RosterConnected
<1>3. DepartureIsFinal /\ WaitsForClosed /\ Captured
  BY DEF Init, DepartureIsFinal, WaitsForClosed, Captured, Nothing
<1>4. DialsInOrder
  <2>1. Dialled = {} /\ Newest = 0
    BY FS_EmptySet DEF Init, Dialled, Newest
  <2> QED
    BY <2>1 DEF Init, DialsInOrder
<1> QED
  BY <1>1, <1>2, <1>3, <1>4 DEF IInv, TabIsHonest

(* The invariant is inductive.                                              *)
THEOREM Invariance == Spec => []IInv
<1>1. IInv /\ [Next]_vars => IInv'
  BY TypeStep, DepartureStep, RosterStep, PeersStep, CapturedStep, OffStep, OrderStep,
     WaitsStep, StatusStep DEF IInv, TabIsHonest
<1> QED
  BY <1>1, InitInvariant, PTL DEF Spec

(* What a tab shows is so: its status line has a socket, a timer or an      *)
(* attempt behind it, off means off, its mesh carries what it holds and     *)
(* reaches whom it shows.                                                   *)
THEOREM TabHonest == Spec => []TabIsHonest
<1>1. IInv => TabIsHonest
  BY DEF IInv
<1> QED
  BY <1>1, Invariance, PTL

(* A room left while nothing was being dialled is not dialled again.        *)
THEOREM DepartureFinal == Spec => []DepartureIsFinal
<1>1. IInv => DepartureIsFinal
  BY DEF IInv
<1> QED
  BY <1>1, Invariance, PTL

=============================================================================
