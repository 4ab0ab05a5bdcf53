------------------------------ MODULE RoomClient ------------------------------
(***************************************************************************)
(* One tab on a room (apps/web/components/room-workspace.tsx): the socket  *)
(* it dials, redials and abandons, the devices it captures, and the mesh   *)
(* that carries them.                                                      *)
(*                                                                         *)
(* The component's refs are read at the moment a callback runs, whereas a  *)
(* callback is bound to the socket, timer or prompt that it was created    *)
(* for: what can go wrong is a late callback of an earlier one.  A fetch,  *)
(* a browser prompt, a timer and every socket event is a step of its own;  *)
(* continuations of one promise run before the next event.                 *)
(***************************************************************************)
EXTENDS Integers, FiniteSets

CONSTANTS
  Request,               \* uses of the camera, microphone and share buttons
  Remote,                \* the other connections of the room
  MaxSockets,            \* bound: sockets one page opens
  maxAutomaticReconnectAttempts

ASSUME SocketAssumption == MaxSockets \in Nat /\ maxAutomaticReconnectAttempts \in Nat

Device == {"camera", "microphone", "screen"}
Socket == 1..MaxSockets
Null == "null"
ASSUME NullAssumption == Null \notin Request

VARIABLES
  mounted,      \* the page is shown; FALSE once it was navigated away from
  sock,         \* readyState of each socket, "closed" once onclose has run
  socketRef,    \* the current socket, 0 for null
  localId,      \* the socket whose room.ready named this connection, 0 for ""
  promise,      \* connectPromiseRef: none, or what the attempt is awaiting
  readyTimers,  \* sockets whose fifteen-second timer is pending
  timers,       \* sockets whose reconnect timer is pending
  timerRef,     \* the reconnect timer the page can still clear, 0 for none
  resetTimer,   \* the stable-connection timer is pending
  attempts,     \* reconnectAttemptRef
  status,       \* connected, reconnecting and whether an error is shown
  request,      \* each device request: its device and how far it is
  live,         \* requests whose captured track is still running
  ref,          \* the stream each device ref holds
  on,           \* mic, camera and sharing as the page shows them
  mesh,         \* the socket of meshRef's mesh, 0 for null
  published,    \* the tracks that mesh was last given
  known,        \* knownPeersRef: the peers the mesh was told to connect
  people,       \* the other participants the page shows
  departed      \* history: how the user last left, if since then idle

socketVars == <<sock, socketRef, localId, promise, readyTimers>>
timerVars == <<timers, timerRef, resetTimer, attempts>>
mediaVars == <<request, live, ref, on>>
meshVars == <<mesh, published, known, people>>
vars == <<mounted, socketVars, timerVars, status, mediaVars, meshVars, departed>>

Status == [connected : BOOLEAN, reconnecting : BOOLEAN, error : BOOLEAN]
Asking == [device : Device, at : {"idle", "joining", "prompt", "done"}]

TypeOK ==
  /\ mounted \in BOOLEAN
  /\ sock \in [Socket -> {"new", "connecting", "open", "closing", "closed"}]
  /\ socketRef \in {0} \cup Socket /\ localId \in {0} \cup Socket
  /\ promise \in {"none", "ticket", "socket"}
  /\ readyTimers \subseteq Socket /\ timers \subseteq Socket
  /\ timerRef \in {0} \cup Socket /\ resetTimer \in BOOLEAN
  /\ attempts \in Nat
  /\ status \in Status
  /\ request \in [Request -> Asking]
  /\ live \subseteq Request
  /\ ref \in [Device -> Request \cup {Null}] /\ on \in [Device -> BOOLEAN]
  /\ mesh \in {0} \cup Socket /\ published \in [Device -> Request \cup {Null}]
  /\ known \subseteq Remote /\ people \subseteq Remote
  /\ departed \in {"no", "idle", "dialing"}

Nothing == [d \in Device |-> Null]

Init ==
  /\ mounted = TRUE
  /\ sock = [n \in Socket |-> "new"]
  /\ socketRef = 0 /\ localId = 0 /\ promise = "none" /\ readyTimers = {}
  /\ timers = {} /\ timerRef = 0 /\ resetTimer = FALSE /\ attempts = 0
  /\ status = [connected |-> FALSE, reconnecting |-> FALSE, error |-> FALSE]
  /\ request = [q \in Request |-> [device |-> "camera", at |-> "idle"]]
  /\ live = {} /\ ref = Nothing /\ on = [d \in Device |-> FALSE]
  /\ mesh = 0 /\ published = Nothing /\ known = {} /\ people = {}
  /\ departed = "no"

-----------------------------------------------------------------------------
(* Helpers of connectRoom().                                                *)

Dialled == {n \in Socket : sock[n] # "new"}
Newest == Cardinality(Dialled)

(* socket.close(): its onclose follows as an event of its own.              *)
Closing(n) == [sock EXCEPT ![n] = IF @ \in {"connecting", "open"} THEN "closing" ELSE @]
CloseCurrent == IF socketRef = 0 THEN sock ELSE Closing(socketRef)

(* `socketRef.current?.readyState === WebSocket.OPEN && localIdRef.current` *)
Joined == socketRef # 0 /\ sock[socketRef] = "open" /\ localId # 0

(* connectRoom() up to its first await: a call made while an attempt is in  *)
(* flight shares that attempt's promise.                                    *)
connectRoom == promise' = IF Joined \/ promise # "none" THEN promise ELSE "ticket"

(* The requests that were awaiting the attempt go on with its result.       *)
Resume(result) ==
  request' = [q \in Request |-> IF request[q].at = "joining"
                                THEN [request[q] EXCEPT !.at = IF result THEN "prompt" ELSE "done"]
                                ELSE request[q]]

(* settle(): only the socket of the attempt in flight still has a promise.  *)
Settle(n, result) ==
  /\ readyTimers' = readyTimers \ {n}
  /\ IF promise = "socket" /\ n = Newest
     THEN promise' = "none" /\ Resume(result)
     ELSE UNCHANGED <<promise, request>>

-----------------------------------------------------------------------------
(* The user.                                                                *)

(* retryRoomConnection() before it calls connectRoom().                     *)
ClearForRetry ==
  /\ timers' = timers \ {timerRef} /\ timerRef' = 0 /\ attempts' = 0
  /\ status' = [status EXCEPT !.reconnecting = FALSE, !.error = FALSE]
  /\ UNCHANGED resetTimer

(* "Join without camera", "Join to sync" and "Join room", offered while the *)
(* page is not connected.                                                   *)
Join ==
  /\ mounted /\ ~status.connected
  /\ ClearForRetry /\ connectRoom
  /\ departed' = "no"
  /\ UNCHANGED <<mounted, sock, socketRef, localId, readyTimers, mediaVars, meshVars>>

(* The call controls, and their keyboard shortcuts, exist while connected;  *)
(* "Join with camera", while not, asks for one even if one is on.           *)
Offered(d) == mounted /\ (IF status.connected THEN ~on[d] ELSE d = "camera")

(* startCamera(), and toggleMic() while off, up to the browser's prompt.    *)
AskDevice(q, d) ==
  /\ d # "screen" /\ Offered(d) /\ request[q].at = "idle"
  /\ ClearForRetry /\ connectRoom
  /\ request' = [request EXCEPT ![q] = [device |-> d, at |-> IF Joined THEN "prompt" ELSE "joining"]]
  /\ departed' = "no"
  /\ UNCHANGED <<mounted, sock, socketRef, localId, readyTimers, live, ref, on, meshVars>>

(* toggleScreenShare() while off: it joins without resetting the retries.   *)
AskScreen(q) ==
  /\ Offered("screen") /\ request[q].at = "idle"
  /\ connectRoom
  /\ request' = [request EXCEPT ![q] = [device |-> "screen", at |-> IF Joined THEN "prompt" ELSE "joining"]]
  /\ departed' = "no"
  /\ UNCHANGED <<mounted, sock, socketRef, localId, readyTimers, timerVars, status, live, ref, on, meshVars>>

(* publishLocalTracks(), a no-op without a mesh.                            *)
publishLocalTracks(held) == published' = IF mesh = 0 THEN published ELSE held

(* The prompt is answered: a camera or microphone replaces the one that was *)
(* running; a screen share replaces the ref alone.                          *)
Mutant_replacesNothing(d) == {}
Replaced(d) == IF d = "screen" THEN {} ELSE {ref[d]}

Granted(q) ==
  LET d == request[q].device
  IN  /\ request[q].at = "prompt"
      /\ request' = [request EXCEPT ![q].at = "done"]
      /\ live' = (live \ Replaced(d)) \cup {q}
      /\ ref' = [ref EXCEPT ![d] = q] /\ on' = [on EXCEPT ![d] = TRUE]
      /\ publishLocalTracks(ref')
      /\ UNCHANGED <<mounted, socketVars, timerVars, status, mesh, known, people, departed>>

Refused(q) ==
  /\ request[q].at = "prompt"
  /\ request' = [request EXCEPT ![q].at = "done"]
  /\ status' = [status EXCEPT !.error = TRUE]
  /\ UNCHANGED <<mounted, socketVars, timerVars, live, ref, on, meshVars, departed>>

(* toggleMic(), toggleCamera() or stopScreenShare() while on.               *)
SwitchOff(d) ==
  /\ live' = live \ {ref[d]}
  /\ ref' = [ref EXCEPT ![d] = Null] /\ on' = [on EXCEPT ![d] = FALSE]
  /\ publishLocalTracks(ref')
  /\ UNCHANGED <<mounted, socketVars, timerVars, status, request, mesh, known, people, departed>>

TurnOff(d) == mounted /\ status.connected /\ on[d] /\ SwitchOff(d)

(* The browser's own "stop sharing" ends one track; its listener stops the  *)
(* share the ref holds by then.                                             *)
ScreenEnded(q) ==
  /\ request[q].device = "screen" /\ q \in live
  /\ live' = live \ {q, ref["screen"]}
  /\ ref' = [ref EXCEPT !["screen"] = Null] /\ on' = [on EXCEPT !["screen"] = FALSE]
  /\ publishLocalTracks(ref')
  /\ UNCHANGED <<mounted, socketVars, timerVars, status, request, mesh, known, people, departed>>

How == IF promise = "none" THEN "idle" ELSE "dialing"

(* leave(): everything but the attempt and the prompts in flight.           *)
leave ==
  /\ mounted /\ status.connected
  /\ timers' = timers \ {timerRef} /\ timerRef' = 0 /\ resetTimer' = FALSE /\ attempts' = 0
  /\ live' = live \ {ref[d] : d \in Device}
  /\ ref' = Nothing /\ on' = [d \in Device |-> FALSE]
  /\ sock' = CloseCurrent /\ socketRef' = 0 /\ localId' = 0
  /\ mesh' = 0 /\ known' = {} /\ people' = {}
  /\ status' = [status EXCEPT !.connected = FALSE, !.reconnecting = FALSE]
  /\ departed' = How
  /\ UNCHANGED <<mounted, promise, readyTimers, request, published>>

(* The effect's cleanup when the page is navigated away from.               *)
Mutant_keepsRef == sock' = CloseCurrent /\ UNCHANGED socketRef
DropSocket == sock' = CloseCurrent /\ socketRef' = 0

Unmount ==
  /\ mounted /\ mounted' = FALSE
  /\ timers' = timers \ {timerRef} /\ resetTimer' = FALSE
  /\ live' = live \ {ref[d] : d \in Device}
  /\ DropSocket
  /\ departed' = How
  /\ UNCHANGED <<localId, promise, readyTimers, timerRef, attempts, status, request, ref, on, meshVars>>

-----------------------------------------------------------------------------
(* The attempt and its socket.  No step asks whether the page is mounted.   *)

(* The ticket arrived: a new socket and a new mesh replace the refs.        *)
TicketArrives ==
  LET n == Newest + 1
  IN  /\ promise = "ticket" /\ n \in Socket
      /\ promise' = "socket"
      /\ sock' = [sock EXCEPT ![n] = "connecting"]
      /\ socketRef' = n /\ localId' = 0 /\ readyTimers' = readyTimers \cup {n}
      /\ mesh' = n /\ published' = ref /\ known' = {}
      /\ UNCHANGED <<mounted, timerVars, status, mediaVars, people, departed>>

(* The ticket request fails: the attempt ends here.                         *)
TicketFails ==
  /\ promise = "ticket" /\ promise' = "none"
  /\ Resume(FALSE)
  /\ status' = [status EXCEPT !.connected = FALSE, !.error = TRUE]
  /\ UNCHANGED <<mounted, sock, socketRef, localId, readyTimers, timerVars, live, ref, on, meshVars, departed>>

(* onopen, which clears the error whichever socket it is.                   *)
SocketOpens(n) ==
  /\ sock[n] = "connecting"
  /\ sock' = [sock EXCEPT ![n] = "open"]
  /\ status' = [status EXCEPT !.error = FALSE]
  /\ UNCHANGED <<mounted, socketRef, localId, promise, readyTimers, timerVars, mediaVars, meshVars, departed>>

(* syncPeers(): disconnect whoever left, connect whoever is new.            *)
syncPeers(others) == known' = others /\ people' = others

(* onmessage of room.ready.                                                 *)
RoomReady(n, others) ==
  /\ sock[n] = "open" /\ socketRef = n /\ localId # n
  /\ localId' = n
  /\ syncPeers(others)
  /\ resetTimer' = TRUE
  /\ status' = [connected |-> TRUE, reconnecting |-> FALSE, error |-> FALSE]
  /\ Settle(n, TRUE)
  /\ UNCHANGED <<mounted, sock, socketRef, timers, timerRef, attempts, live, ref, on, mesh, published, departed>>

(* onmessage of a presence list.                                            *)
Presence(n, others) ==
  /\ sock[n] = "open" /\ socketRef = n /\ localId = n
  /\ syncPeers(others)
  /\ UNCHANGED <<mounted, socketVars, timerVars, status, mediaVars, mesh, published, departed>>

(* The server, the network or the platform starts to close the socket.      *)
Drops(n) ==
  /\ sock[n] \in {"connecting", "open"}
  /\ sock' = Closing(n)
  /\ UNCHANGED <<mounted, socketRef, localId, promise, readyTimers, timerVars, status, mediaVars, meshVars, departed>>

(* onclose of the socket the page uses: back off, or give up.               *)
Reconnects == attempts + 1 <= maxAutomaticReconnectAttempts
LostConnection(n, errored) ==
  /\ mesh' = IF mesh = n THEN 0 ELSE mesh
  /\ known' = {} /\ localId' = 0 /\ resetTimer' = FALSE
  /\ attempts' = attempts + 1
  /\ status' = [connected |-> FALSE, reconnecting |-> Reconnects,
                error |-> status.error \/ errored \/ ~Reconnects]
  /\ timers' = IF Reconnects THEN timers \cup {n} ELSE timers
  /\ timerRef' = IF Reconnects THEN n ELSE timerRef

(* onclose, perhaps after onerror.                                          *)
OnClose(n, errored) ==
  /\ sock[n] = "closing"
  /\ sock' = [sock EXCEPT ![n] = "closed"]
  /\ Settle(n, FALSE)
  /\ IF socketRef = n
     THEN LostConnection(n, errored)
     ELSE UNCHANGED <<mesh, known, localId, timerVars, status>>
  /\ UNCHANGED <<mounted, socketRef, live, ref, on, published, people, departed>>

(* Fifteen seconds without room.ready.                                      *)
Mutant_readyTimerGivesUp(n) == n \in readyTimers /\ readyTimers' = readyTimers \ {n} /\ UNCHANGED <<sock, status>>
ReadyTimeout(n) ==
  /\ n \in readyTimers /\ readyTimers' = readyTimers \ {n}
  /\ IF socketRef = n
     THEN sock' = Closing(n) /\ status' = [status EXCEPT !.error = TRUE]
     ELSE UNCHANGED <<sock, status>>

ReadyTimer(n) ==
  /\ ReadyTimeout(n)
  /\ UNCHANGED <<mounted, socketRef, localId, promise, timerVars, mediaVars, meshVars, departed>>

(* A reconnect timer, which may belong to a socket replaced since.          *)
ReconnectTimer(n) ==
  /\ n \in timers /\ timers' = timers \ {n} /\ timerRef' = 0
  /\ IF socketRef = n THEN connectRoom ELSE UNCHANGED promise
  /\ UNCHANGED <<mounted, sock, socketRef, localId, readyTimers, resetTimer, attempts, status,
                 mediaVars, meshVars, departed>>

StableTimer ==
  /\ resetTimer /\ resetTimer' = FALSE /\ attempts' = 0
  /\ UNCHANGED <<mounted, socketVars, timers, timerRef, status, mediaVars, meshVars, departed>>

Next ==
  \/ Join
  \/ \E q \in Request : \/ \E d \in Device : AskDevice(q, d)
                        \/ AskScreen(q) \/ Granted(q) \/ Refused(q) \/ ScreenEnded(q)
  \/ \E d \in Device : TurnOff(d)
  \/ leave \/ Unmount
  \/ TicketArrives \/ TicketFails
  \/ \E n \in Socket :
       \/ SocketOpens(n) \/ Drops(n) \/ ReadyTimer(n) \/ ReconnectTimer(n)
       \/ \E errored \in BOOLEAN : OnClose(n, errored)
       \/ \E others \in SUBSET Remote : RoomReady(n, others) \/ Presence(n, others)
  \/ StableTimer

Spec == Init /\ [][Next]_vars

(* Requests are answered, timers fire, and a closed socket reports it.  A   *)
(* socket need not open, and the room need never say it is ready.           *)
Fairness ==
  /\ WF_vars(TicketArrives \/ TicketFails)
  /\ \A n \in Socket : WF_vars(ReadyTimer(n)) /\ WF_vars(\E errored \in BOOLEAN : OnClose(n, errored))
FairSpec == Spec /\ Fairness

-----------------------------------------------------------------------------
(* What the status line says is so: "Connected" has a socket that the room  *)
(* has greeted, or an attempt to replace it, and "Reconnecting" a timer or  *)
(* an attempt behind it unless an error is shown.                           *)
StatusIsHonest == mounted =>
  /\ status.connected => promise # "none" \/ (localId # 0 /\ socketRef = localId /\ sock[localId] # "closed")
  /\ status.reconnecting => promise # "none" \/ socketRef \in timers \/ status.error

(* Off means off: no camera or microphone track runs that the page does not *)
(* show as on, however the prompts, toggles and departures interleave.      *)
Running(d) == {q \in live : request[q].device = d}
OffMeansOff ==
  mounted => \A d \in {"camera", "microphone"} : Running(d) = IF on[d] THEN {ref[d]} ELSE {}

(* The mesh in use carries exactly the devices the page holds, also when it *)
(* was rebuilt by a reconnection.                                           *)
PeersGetDevices == mesh # 0 /\ mounted => published = ref

(* While the room knows this connection, the mesh is told to reach exactly  *)
(* the participants the page shows.                                         *)
RosterConnected == localId # 0 /\ mounted => known = people

(* "Declines to reconnect": a room left, or navigated away from, while      *)
(* nothing was being dialled is not dialled again.                          *)
DepartureIsFinal == departed = "idle" => socketRef = 0 /\ promise = "none"

(* Every attempt to join settles, so no button waits for one for ever, even *)
(* when the room never says it is ready.                                    *)
AttemptSettles == promise # "none" ~> promise = "none"

(* docs/frontend.md:281: after an intentional leave, or after navigating    *)
(* away from the room entirely, no WebSocket is kept alive.                 *)
NoGhost == departed # "no" => socketRef = 0

(* What a tab shows is so, in every order of sockets, timers, prompts,      *)
(* toggles and departures: its status line, its devices, what its peers are *)
(* sent and whom it is connected to.                                        *)
TabIsHonest == TypeOK /\ StatusIsHonest /\ OffMeansOff /\ PeersGetDevices /\ RosterConnected

-----------------------------------------------------------------------------
(* The inductive invariant behind RoomClient_proofs.                        *)

(* Sockets are numbered as they are dialled; only the newest, of an attempt *)
(* in flight, has not opened; that attempt's socket is the current one.     *)
DialsInOrder ==
  /\ Dialled = 1..Newest
  /\ promise = "socket" => Newest # 0 /\ socketRef \in {0, Newest} /\ sock[Newest] # "closed"
  /\ \A n \in Socket : sock[n] = "connecting" => promise = "socket" /\ n = Newest

(* A reconnect timer belongs to a socket that is closed, and a page without *)
(* a socket says neither that it is connected nor that it will be.          *)
WaitsForClosed ==
  /\ \A n \in timers : sock[n] = "closed"
  /\ mounted /\ socketRef = 0 => ~status.connected /\ ~status.reconnecting

(* What runs, and what a ref holds, was captured by a request that is done, *)
(* and is of the ref's device.                                              *)
Captured ==
  /\ \A q \in live : request[q].at = "done"
  /\ \A d \in Device : ref[d] # Null => request[ref[d]].at = "done" /\ request[ref[d]].device = d

IInv == TabIsHonest /\ DepartureIsFinal /\ DialsInOrder /\ WaitsForClosed /\ Captured
=============================================================================
