------------------------------ MODULE RoomRelay ------------------------------
(***************************************************************************)
(* What the people of one room see of each other: the Durable Object that  *)
(* relays chat, editor, whiteboard, cursor and signal messages and keeps   *)
(* the recent events and the board (apps/realtime/src/index.ts), and the   *)
(* tabs that send, paint and catch up (room-workspace.tsx).                *)
(*                                                                         *)
(* A tab paints its own stroke and types its own text at once; the room    *)
(* orders everybody's messages and echoes them to everybody, the sender    *)
(* included.  Both directions of a socket are queues; a dropped socket     *)
(* loses what it carried.  A handler of the object changes its memory and  *)
(* its storage as one step (see RoomPresence), so events and strokes stand *)
(* for both.                                                               *)
(***************************************************************************)
EXTENDS Integers, Sequences, FiniteSets, SequencesExt

CONSTANTS
  Tab,                   \* browser tabs, of different accounts
  Window,                \* recent events sent to a joiner
  History,               \* recent events kept
  maxWhiteboardStrokes,
  HistoryMayBeLate,      \* the page's first fetch may answer after room.ready
  MaxSent, MaxJoins      \* bounds: messages sent, sockets accepted

ASSUME RelayAssumption ==
  /\ Window \in Nat \ {0} /\ History \in Nat /\ Window <= History
  /\ maxWhiteboardStrokes \in Nat \ {0} /\ HistoryMayBeLate \in BOOLEAN
  /\ MaxSent \in Nat /\ MaxJoins \in Nat

VARIABLES
  link,       \* each tab's socket as the tab knows it
  conn,       \* the connection ID the room gave it, 0 without one
  role,       \* the role its ticket carried
  up, down,   \* the messages in flight
  events,     \* recent_events: what record() keeps
  strokes,    \* whiteboard_strokes
  canvas,     \* the strokes painted in each tab
  doc,        \* the shared text each tab shows, named by the edit that wrote it
  chat,       \* the chat messages each tab lists
  sent, joins,\* counters: they name messages and connections
  latest, evicted, missed \* history: see the properties

tabVars == <<canvas, doc, chat>>
roomVars == <<events, strokes, latest, evicted>>
vars == <<link, conn, role, up, down, roomVars, tabVars, sent, joins, missed>>

Writes == {"chat", "editor", "stroke", "clear"}
Kind == Writes \cup {"cursor", "signal", "oversized"}
Message == [type : Kind, id : 1..MaxSent, to : 0..MaxJoins]
Event == [type : {"chat", "editor", "other"}, id : 0..MaxSent]
Ready == [type : {"room.ready"}, recent : Seq(Event), board : Seq(1..MaxSent)]

(* The types of the room and of the queues, and those of the tabs.          *)
RoomTypeOK ==
  /\ link \in [Tab -> {"off", "joining", "live", "closing"}]
  /\ conn \in [Tab -> 0..MaxJoins]
  /\ role \in [Tab -> {"member", "viewer"}]
  /\ up \in [Tab -> Seq(Message)] /\ down \in [Tab -> Seq(Message \cup Ready)]
  /\ events \in Seq(Event) /\ Len(events) <= History
  /\ strokes \in Seq(1..MaxSent) /\ Len(strokes) <= maxWhiteboardStrokes
  /\ sent \in 0..MaxSent /\ joins \in 0..MaxJoins
  /\ latest \in 0..MaxSent

TypeOK ==
  /\ RoomTypeOK
  /\ canvas \in [Tab -> SUBSET (1..MaxSent)]
  /\ doc \in [Tab -> 0..MaxSent] /\ chat \in [Tab -> Seq(1..MaxSent)]
  /\ evicted \subseteq 1..MaxSent
  /\ missed \in [Tab -> BOOLEAN]

Init ==
  /\ link = [t \in Tab |-> "off"] /\ conn = [t \in Tab |-> 0]
  /\ role = [t \in Tab |-> "viewer"]
  /\ up = [t \in Tab |-> <<>>] /\ down = [t \in Tab |-> <<>>]
  /\ events = <<>> /\ strokes = <<>>
  /\ canvas = [t \in Tab |-> {}] /\ doc = [t \in Tab |-> 0] /\ chat = [t \in Tab |-> <<>>]
  /\ sent = 0 /\ joins = 0
  /\ latest = 0 /\ evicted = {} /\ missed = [t \in Tab |-> FALSE]

LastOf(s, n) == SubSeq(s, IF Len(s) > n THEN Len(s) - n + 1 ELSE 1, Len(s))

-----------------------------------------------------------------------------
(* The room.                                                                *)

(* The sockets a broadcast reaches: all of them, or for a signal the one    *)
(* connection it names.  An unknown name is taken for a user ID, which no   *)
(* connection ID is.                                                        *)
Attached == {t \in Tab : link[t] \in {"joining", "live"}}
Recipients(m) ==
  IF m.type = "signal" THEN {t \in Attached : conn[t] = m.to} ELSE Attached

Mutant_toOthers(sender, m) ==
  [t \in Tab |-> IF t \in Recipients(m) \ {sender} THEN Append(down[t], m) ELSE down[t]]
Broadcast(sender, m) ==
  [t \in Tab |-> IF t \in Recipients(m) THEN Append(down[t], m) ELSE down[t]]

(* record(): the recent events, of which the oldest are forgotten.          *)
record(e) == events' = LastOf(Append(events, e), History)

(* applyWhiteboard(): a segment appends, a clear empties the board.         *)
applyWhiteboard(m) == IF m.type = "clear" THEN <<>> ELSE LastOf(Append(strokes, m.id), maxWhiteboardStrokes)

(* acceptSocket(): the ticket was verified for this room and names a role.  *)
Recent == LastOf(events, Window)
Greeting == [type |-> "room.ready", recent |-> Recent, board |-> strokes]

acceptSocket(t, r) ==
  /\ link[t] = "off" /\ joins < MaxJoins
  /\ joins' = joins + 1
  /\ link' = [link EXCEPT ![t] = "joining"]
  /\ conn' = [conn EXCEPT ![t] = joins + 1] /\ role' = [role EXCEPT ![t] = r]
  /\ down' = [down EXCEPT ![t] = <<Greeting>>] /\ up' = [up EXCEPT ![t] = <<>>]
  /\ record([type |-> "other", id |-> 0])
  /\ UNCHANGED <<strokes, latest, evicted, tabVars, sent, missed>>

(* The room or the network ends a socket: what it carried is lost.          *)
Ended(t) ==
  /\ link' = [link EXCEPT ![t] = "closing"] /\ conn' = [conn EXCEPT ![t] = 0]
  /\ up' = [up EXCEPT ![t] = <<>>]
  /\ down' = [down EXCEPT ![t] = <<>>]
  /\ role' = [role EXCEPT ![t] = "viewer"] /\ missed' = [missed EXCEPT ![t] = FALSE]

Drops(t) ==
  /\ t \in Attached
  /\ Ended(t)
  /\ record([type |-> "other", id |-> 0])
  /\ UNCHANGED <<strokes, latest, evicted, tabVars, sent, joins>>

(* What no client may send.  A tab's own text can be it: the editor takes   *)
(* more than the room relays.                                               *)
isClientMessage(m) == m.type # "oversized"

Mutant_anyRole(t, m) == ~isClientMessage(m)
Refuses(t, m) == ~isClientMessage(m) \/ (role[t] = "viewer" /\ m.type \in Writes)

(* webSocketMessage(): an oversized message, or a viewer's write, closes the*)
(* sender's socket, and the departure is recorded.                          *)
RefuseMessage(t) ==
  /\ up[t] # <<>> /\ Refuses(t, Head(up[t]))
  /\ Ended(t)
  /\ record([type |-> "other", id |-> 0])
  /\ UNCHANGED <<strokes, latest, evicted, tabVars, sent, joins>>

(* webSocketMessage() otherwise: relay, then keep what is kept.             *)
RelayMessage(t) ==
  LET m == Head(up[t])
  IN  /\ up[t] # <<>> /\ ~Refuses(t, m)
      /\ up' = [up EXCEPT ![t] = Tail(@)]
      /\ down' = Broadcast(t, m)
      /\ strokes' = IF m.type \in {"stroke", "clear"} THEN applyWhiteboard(m) ELSE strokes
      /\ evicted' = CASE m.type = "clear" -> {}
                      [] m.type = "stroke" -> evicted \cup ((ToSet(strokes) \cup {m.id}) \ ToSet(strokes'))
                      [] OTHER -> evicted
      /\ IF m.type \in {"chat", "editor"} THEN record([type |-> m.type, id |-> m.id]) ELSE UNCHANGED events
      /\ latest' = IF m.type = "editor" THEN m.id ELSE latest
      /\ UNCHANGED <<link, conn, role, tabVars, sent, joins, missed>>

-----------------------------------------------------------------------------
(* The tabs.                                                                *)

(* onclose; the reconnection that follows is acceptSocket (see RoomClient). *)
OnClose(t) ==
  /\ link[t] = "closing"
  /\ link' = [link EXCEPT ![t] = "off"]
  /\ UNCHANGED <<conn, role, up, down, roomVars, tabVars, sent, joins, missed>>

(* publish(): nothing leaves through a socket that is no longer open.       *)
publish(t, m) ==
  /\ link[t] \in {"live", "closing"} /\ sent < MaxSent
  /\ sent' = sent + 1
  /\ up' = IF link[t] = "live" THEN [up EXCEPT ![t] = Append(@, m)] ELSE up
  /\ UNCHANGED <<link, conn, role, down, roomVars, joins, missed>>

Says(type, to) == [type |-> type, id |-> sent + 1, to |-> to]

(* draw() and clearBoard() change the canvas first.                         *)
Draw(t) ==
  /\ publish(t, Says("stroke", 0))
  /\ canvas' = [canvas EXCEPT ![t] = @ \cup {sent + 1}]
  /\ UNCHANGED <<doc, chat>>

ClearBoard(t) ==
  /\ publish(t, Says("clear", 0))
  /\ canvas' = [canvas EXCEPT ![t] = {}]
  /\ UNCHANGED <<doc, chat>>

(* Typing in the shared editor shows at once, however long the text is.     *)
Type(t, type) ==
  /\ type \in {"editor", "oversized"} /\ publish(t, Says(type, 0))
  /\ doc' = [doc EXCEPT ![t] = sent + 1]
  /\ UNCHANGED <<canvas, chat>>

(* sendMessage() lists nothing: the echo does.                              *)
SendChat(t) == publish(t, Says("chat", 0)) /\ UNCHANGED <<canvas, doc, chat>>

(* The mesh addresses a connection it once saw, which may be gone.          *)
Signal(t, k) == link[t] = "live" /\ k <= joins /\ publish(t, Says("signal", k)) /\ UNCHANGED <<canvas, doc, chat>>

(* addEvent(): a message is listed once.                                    *)
AddChat(list, ids) ==
  FoldLeft(LAMBDA shown, id : IF id \in ToSet(shown) THEN shown ELSE Append(shown, id), list, ids)

Chats(list) == LET said == SelectSeq(list, LAMBDA e : e.type = "chat") IN [i \in DOMAIN said |-> said[i].id]
Edits(list) == SelectSeq(list, LAMBDA e : e.type = "editor")

(* hydrateEditorState(): the last edit among the events, if there is one.   *)
hydrateEditorState(text, list) == IF Edits(list) = <<>> THEN text ELSE Last(Edits(list)).id

(* hydrateWhiteboard(): wiped first, so a replay never paints over.         *)
Mutant_paintsOver(t, board) == canvas[t] \cup ToSet(board)
hydrateWhiteboard(t, board) == ToSet(board)

(* onmessage.                                                               *)
ReceiveReady(t) ==
  LET m == Head(down[t])
  IN  /\ down[t] # <<>> /\ m.type = "room.ready"
      /\ down' = [down EXCEPT ![t] = Tail(@)]
      /\ link' = [link EXCEPT ![t] = "live"]
      /\ chat' = [chat EXCEPT ![t] = AddChat(@, Chats(m.recent))]
      /\ doc' = [doc EXCEPT ![t] = hydrateEditorState(@, m.recent)]
      /\ canvas' = [canvas EXCEPT ![t] = hydrateWhiteboard(t, m.board)]
      /\ missed' = [missed EXCEPT ![t] = Edits(m.recent) = <<>>]
      /\ UNCHANGED <<conn, role, up, roomVars, sent, joins>>

Receive(t) ==
  LET m == Head(down[t])
  IN  /\ down[t] # <<>> /\ m.type # "room.ready"
      /\ down' = [down EXCEPT ![t] = Tail(@)]
      /\ chat' = IF m.type = "chat" THEN [chat EXCEPT ![t] = AddChat(@, <<m.id>>)] ELSE chat
      /\ doc' = IF m.type = "editor" THEN [doc EXCEPT ![t] = m.id] ELSE doc
      /\ missed' = IF m.type = "editor" THEN [missed EXCEPT ![t] = FALSE] ELSE missed
      /\ canvas' = CASE m.type = "stroke" -> [canvas EXCEPT ![t] = @ \cup {m.id}]
                     [] m.type = "clear" -> [canvas EXCEPT ![t] = {}]
                     [] OTHER -> canvas
      /\ UNCHANGED <<link, conn, role, up, roomVars, sent, joins>>

(* The page's first fetch: the text as the API last stored it, any edit.    *)
Fresh(t) == link[t] = "off" /\ doc[t] = 0 /\ canvas[t] = {} /\ chat[t] = <<>>
HistoryLoads(t) ==
  /\ HistoryMayBeLate \/ Fresh(t)
  /\ \E e \in ToSet(Edits(events)) : doc' = [doc EXCEPT ![t] = e.id]
  /\ UNCHANGED <<link, conn, role, up, down, roomVars, canvas, chat, sent, joins, missed>>

Next ==
  \E t \in Tab :
    \/ \E r \in {"member", "viewer"} : acceptSocket(t, r)
    \/ Drops(t) \/ RefuseMessage(t) \/ RelayMessage(t)
    \/ OnClose(t)
    \/ Draw(t) \/ ClearBoard(t) \/ SendChat(t)
    \/ \E type \in {"editor", "oversized"} : Type(t, type)
    \/ \E k \in 1..MaxJoins : Signal(t, k)
    \/ ReceiveReady(t) \/ Receive(t)
    \/ HistoryLoads(t)

Spec == Init /\ [][Next]_vars

-----------------------------------------------------------------------------
(* The tab has sent and received all there is.                              *)
Settled(t) == link[t] = "live" /\ up[t] = <<>> /\ down[t] = <<>>

(* Everyone ends with the same board, which is the one the next joiner is   *)
(* sent: whatever the order of strokes, clears, echoes and reconnections,   *)
(* only segments that the full board has forgotten may remain painted.      *)
BoardConverges ==
  \A t \in Tab : Settled(t) =>
    ToSet(strokes) \subseteq canvas[t] /\ canvas[t] \subseteq ToSet(strokes) \cup evicted

(* Everyone ends with the same text, the last one the room relayed, unless  *)
(* no edit was among the recent events when the tab joined.                 *)
TextConverges == \A t \in Tab : Settled(t) => doc[t] = latest \/ missed[t]

(* Replays neither repeat nor reorder the chat: each tab lists messages     *)
(* once, in the order in which the room relayed them.                       *)
RecentChats == Chats(events)
ChatIsReplayedOnce ==
  \A t \in Tab :
    /\ IsInjective(chat[t])
    /\ \A i, j \in DOMAIN RecentChats : i < j =>
         \A k, l \in DOMAIN chat[t] :
           chat[t][k] = RecentChats[i] /\ chat[t][l] = RecentChats[j] => k < l

(* A tab that has caught up lists every message of the window.              *)
ChatComplete == \A t \in Tab : Settled(t) => ToSet(Chats(Recent)) \subseteq ToSet(chat[t])

(* A signal reaches only the connection it names, also when that one is     *)
(* gone by the time it is relayed.                                          *)
SignalsArePrivate ==
  \A t \in Tab : \A i \in DOMAIN down[t] : down[t][i].type = "signal" => down[t][i].to = conn[t]

(* A viewer never changes what the room shares: only a tab whose ticket let *)
(* it write has its message turned into a stroke, an edit or a chat line.   *)
ViewersOnlyWatch ==
  [][strokes' # strokes \/ latest' # latest \/ (\E e \in ToSet(events') \ ToSet(events) : e.type # "other")
       => \E t \in Tab : role[t] # "viewer" /\ up'[t] # up[t]]_vars

(* The board and the text converge (and the lists they are replayed from    *)
(* stay within their bounds).                                               *)
RoomConverges == TypeOK /\ BoardConverges /\ TextConverges

(* Messages reach whom they are for: chat everyone, once and in order;      *)
(* signals only the connection they name.                                   *)
MessagesDelivered == ChatIsReplayedOnce /\ ChatComplete /\ SignalsArePrivate

(* The inductive invariant behind RoomRelay_proofs.                         *)
IInv == RoomTypeOK /\ SignalsArePrivate
=============================================================================
