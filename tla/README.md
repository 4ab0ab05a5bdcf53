# Threadline: specifications and proofs

TLA+ models of the parts of Threadline whose correctness depends on the order of
events, the TLC configurations that check them on small instances, and TLAPS proofs
of their main invariants for every size. Paths below are relative to the repository
(`src/`). `PROJECT.json` maps every definition to the source lines it stands for.

```
tlc -config Delivery_restarts.cfg MCDeliveryQueue     # model-check one run
tlapm DeliveryQueue_proofs.tla                        # check one module's proofs
```

## 1. The system

Threadline is a TypeScript monorepo with three planes. `apps/web` (Next.js) draws the
rooms and holds the peer connections. `apps/api` (Express on MongoDB, optionally Redis)
owns accounts, organisations, rooms, permissions and durable history. `apps/realtime`
(one Cloudflare Durable Object per room) relays live messages and forwards what must
last to the API.

```
 browser --HTTP--> apps/api <----POST /v1/internal/room-events---- room Durable Object
    |                 |  ticket (signed, 2 minutes)                       ^
    +-----------------+-----WebSocket /rooms/:id?ticket=... --------------+
    +------------- WebRTC media and files, signalled through the room ----> other browsers
```

### 1.1 Inventory

| Component | State it keeps | Operations | Hard behaviour | What makes it correct |
|---|---|---|---|---|
| **Persistence outbox** `apps/realtime/src/index.ts` | storage keys `delivery:*`, the object's one alarm, copies of deliveries held by code awaiting a POST | `record`, `applyWhiteboard`, `deliver`, `alarm`, `scheduleAlarmAt`, `scheduleNextDelivery` | two concurrent senders (background POST, alarm), restarts, lost answers, backoff, debounce | nothing lost, nothing brought back, newest snapshot wins, every delivery retried and in the end settled, bounded attempts |
| **Presence** same file | sockets and their attachments, the in-memory participant map | accept, close, error, screen share, hibernate, restore | many tabs per user, hibernation, the socket list lagging behind closes | first join and last leave recorded, everyone shown the same room |
| **Relay, board, recent events** same file; `apps/web/components/room-workspace.tsx` | `whiteboard_strokes`, `recent_events`, what each tab shows | chat, editor, cursor, signal, strokes, replay on join | echoes, reconnections, bounded lists, roles frozen in the ticket | everybody ends with one board and one text, chat once and in order, a signal reaches its addressee, a viewer changes nothing |
| **Room client** `room-workspace.tsx` | socket, timers, attempts, devices, mesh | connect, reconnect, leave, buttons, prompts | leaving during a fetch, callbacks of old sockets, late prompts | the status line is true, off means off, none dialled after leaving |
| **Peer mesh** `apps/web/lib/peer-mesh.ts` | peer connections, queued candidates, channels | connect, signal, tracks, files | offer glare, rollback, early candidates, a channel closing half-way | both ends agree on every track, files arrive whole |
| **Account** `apps/api/src/application.ts`, `repository.ts` | sessions, credential, reset links, recovery codes | login, logout, change, both resets, codes, revoke | read-modify-replace of whole documents between awaits | revocation final, reset evicts, secrets single use |
| **Registration, usernames** `application.ts`, `repository.ts`, `scripts/dedupe-usernames.ts` | users, unique username index | register, edit, boot, dedupe | check then insert, several documents, old duplicates, a script beside the API | nobody refused a free name, no half account, the index can be built, the oldest account keeps its name |
| **Personal access tokens** `application.ts` | tokens, the claim in the cache | create, use, revoke | as sessions | revocation final, last use recorded |
| **OAuth provider** `application.ts`, `repository.ts` | clients, codes, refresh tokens | authorize, token, revoke, introspect | rotation, failure between consume and issue | one working token per grant, a revocation ends it |
| **Organisations, rooms, members** `application.ts` | organisations, invite codes, memberships, rooms, room members | create, join, add, invite, settings, role, remove | whole-document replacement, check then act | an administrator remains, room members belong, a room has its owner |
| **Access policy** `policy.ts` | none | `canOrganization`, `canRoom`, `effectiveRoomRole` | none | the decision table |
| **Ingest, history, feed, calendar** `application.ts`, `repository.ts` | room events unique by `deliveryId`, calendar events | one POST, pages, feed, lists | repeated deliveries, paging while events arrive, rooms that close meanwhile | stored once, pages complete, nothing foreign shown |
| **Tickets** `application.ts`, `security.ts`, `index.ts` | none but the signed ticket | issue, verify | roles that change on the way | whoever enters had the access and the role |
| **Rate limits, cache** `cache.ts`, `application.ts` | Redis or MongoDB windows | `increment`, `claim` | Redis timeouts, fallback, lost scripts | at most the limit per window and store |
| **TURN credentials** `turn.ts` | a cache with requests in flight | `get` | coalesced calls, expiry, failure | credentials outlast the cache, failures are not cached |
| **The two stores** `repository.ts` | documents | every call of `Repository` | two implementations | they answer alike |
| **Pages** `apps/web/components/*`, `lib/*` | selections, lists, forms | load, edit, switch, sign in | answers in any order | what is shown is what the API has |
| **Release tooling** `scripts/*`, `.husky`, `release.yml` | commits, tags | hooks, plan, publish | overlapping workflow runs | versions follow history |
| **Cryptography** `security.ts` | none | hash, sign, verify | none | external primitives |
| **OpenAPI document, boot, deployment** | none of their own | | | configuration |

### 1.2 How the parts meet

* The browser asks the API for a **ticket** (`POST /v1/rooms/:id/ticket`), which names a
  user, a username and a role, and opens the room's WebSocket with it. The room trusts the
  role for as long as the socket lives.
* The room **records** what must last and POSTs it with a shared secret. The API answers
  accepted, refused, or an error the room retries. The API's unique index on `deliveryId`
  is what makes a retry harmless.
* API handlers meet each other only **through the database**. There are no transactions:
  each repository call is atomic, and everything between two calls interleaves.

## 2. The plan

Ordered by how much of the system's promises rest on each part.

| Stage | Modules | Composes / refines | Proved |
|---|---|---|---|
| 1 | `Outbox`, `DeliveryQueue` | `DeliveryQueue` implements `Outbox` | types, nothing lost, newest wins, no resurrection, refinement |
| 1 | `RoomPresence` | | types, ledger, views agree, eviction invisible |
| 1 | `Account` | | types, single-use secrets, evictions, revocation |
| 1 | `AccessPolicy`, `Workspace` | `AccessPolicy` in `Workspace` | types, administrators, memberships, room members, creators |
| 2 | `RoomClient` | | types, the tab is honest, a departure is final |
| 2 | `RoomRelay` | the room and its tabs | types and bounds, private signals, viewers only watch |
| 2 | `AccessTokens` | the API and the cache | types, revocation, recorded uses |
| 2 | `OAuthGrants` | | types, single use, clients, revocation |
| 2 | `PeerNegotiation`, `FileTransfer` | two browsers over the relay | model-checked |
| 2 | `RoomAdmission`, `RoomHistory`, `Usernames`, `RateLimits`, `TurnCredentials` | `AccessPolicy` in the first two | model-checked |
| 2 | `Stores` | the in-memory store beside MongoDB's | model-checked |
| 2 | `WorkspaceShell`, `EditingPages`, `SignInPages`, `ProfilePage`, `ReleaseTools` | pages and the API | model-checked |
| next | proofs of `Usernames`, `RateLimits` and `RoomAdmission` | | |

Modules of parts that share no state are checked in one run, each explored alone while the others
stand still (`MCEdges`, `MCAccount`, `MCPeerMesh`): the runs stay few and no product of
independent states is built.

## 3. The models

### 3.1 `DeliveryQueue`: the outbox of one room

Every durable event of a room becomes a *delivery* in the object's storage. A chat message or
file notice gets a key of its own and is POSTed at once in the background; the editor
documents and the whiteboard have one key each, whose pending snapshot a newer one replaces,
and are POSTed by the alarm after a quiet period.

| Variable | In the code |
|---|---|
| `queue` | the values under `delivery:*` |
| `alarm`, `handler`, `listing` | `storage.getAlarm()`; whether `alarm()` is running; the copies its `list()` returned and its loop has not reached |
| `flights` | each `await fetch` of `deliver()`: the copy it holds, who awaits it, what happened to the request |
| `durable` | room events stored by the API |
| `recorded`, `latest`, `events`, `discarded`, `failures` | what was recorded, and history used only by properties |
| `crashes` | restarts so far (a bound) |

*Actions.* `RecordEvent`, `RecordSnapshot` are `record()` and `applyWhiteboard()`;
`AlarmFires`, `AlarmDelivers`, `AlarmReturns` are `alarm()` cut where it awaits a POST;
`IngestAccepts`, `IngestRejects`, `PostFails` are the API and the network; `DeliverSettles`,
`DeliverGivesUp`, `DeliverRetries`, `DeliverSuperseded` are the branches of `deliver()` after
the await; `Elapse` is a tick of the clock, `Crash` a restart.

*Atomicity.* A Durable Object delivers no other event while a storage operation is awaited
(its input gate), so a run of storage awaits is one step. The gate opens at an outgoing
`fetch`; that is where the actions are cut. A crash loses code, `listing` and whoever awaits a
`flight`; it loses neither storage nor the alarm. A sent request may still arrive after it.

*Abstractions.* Payloads, headers and logging are left out. `Date.now()` is relative: `due` and
`alarm` are distances from now, `age` the time since `queuedAt`, capped at the longest wait. An
unconfigured webhook (then nothing is queued at all) is left out. The storage layer is taken to keep the
writes of one step together.

`Outbox` is the abstract promise: an issued event is pending until stored, dropped on
purpose, or replaced by a newer one. `DeliveryQueue` implements it with `pending` mapped to the
ids in the queue.

### 3.2 `RoomPresence`: who is in the room

| Variable | In the code |
|---|---|
| `awake`, `participants` | whether the object is in memory; `this.participants`, which an eviction empties |
| `sock` | the platform's view of each socket: open, closing (its close handler has still to run), lingering (handled, still listed), gone |
| `prompt` | whether the platform stops listing a socket as soon as its close handler has run; chosen once |
| `attachment` | `serializeAttachment` |
| `view` | the last `presence` message sent to each open socket |
| `joins`, `leaves` | `participant.joined`, `participant.left` recorded per user |

*Actions.* `Connect` is `acceptSocket()`, `ScreenShare` the only branch of
`webSocketMessage()` that changes a participant, `webSocketClose` the close and error handlers,
`StartsClosing` the end of a connection (by either side), `Hibernate` and `Wake` the
platform's eviction and the constructor, `Forget` the platform dropping a handled socket from
`getWebSockets()`. Each handler is one step: its state changes precede any await that lets another
event in. Unless `prompt`, a socket can still be listed when *another* socket's handler
runs; the handler itself excludes only its own. A deployment that ends every socket without
a close event is not modelled: the object is told nothing.

### 3.3 `Account`: sessions, password, reset links, recovery codes

One account, several concurrent requests. `req` holds each handler's program counter and local
variables; `session`, `password`, `links`, `codes`, `used` are the documents. One step is one
repository call (plus the synchronous code after it), because that is where Node lets another
request run. `RecordUse` is the `updateSession()` inside `authenticate()`, which writes the copy read
earlier; `ConsumeLink` and `ConsumeCode` are single atomic MongoDB operations; `DeleteCodes` and
`InsertCodes` are the two halves of `replaceRecoveryCodes()`; `Fail` ends a request
between two calls. A password is named by the request that set it; hashing, cookies and the audit
entry are left out, and an expired session is not told apart from a missing one.

### 3.4 `AccessPolicy` and `Workspace`: an organisation and one of its rooms

`AccessPolicy` is `policy.ts`, decision by decision, on the documents a caller has read.
`Workspace` is the handlers that read those documents, decide, and write others:

| Variable | In the code |
|---|---|
| `org` | the organisation's `joinCode` and `allowMemberInvites` |
| `members` | the `memberships` collection (unique on organisation and user) |
| `room`, `roomRole` | the room, once created, and the `room_members` collection (unique on room and user) |
| `req` | each request: what it was asked, the documents it has read, where it is |
| `retired` | history: the invite codes a regeneration has replaced |

*Actions.* As in `Account` one step is one repository call. `Join`, `AddMember`, `Regenerate`,
`ChangeSettings`, `ChangeRole`, `CreateRoom` are the first read of a handler with the decision it allows
(`Asks`); `EntersRoom`, `ReadMembership`, `ReadRoomMembership`, `DecideAccess` are `roomAccess()`, whose two
reads run at once (`Promise.all`); the other actions are the checks and writes that follow, in the code's order.
`WriteOrganization` and `WriteRole` replace the whole document by the copy read before. The initial
states are an organisation at any point of its life, so two requests meet every combination of roles, and the
room may exist or be created.

*Abstractions.* One organisation and one room; at most one initial member of a room; users exist
(the 404 of an unknown e-mail changes nothing); names, audit entries and the `room.created` event are left out.
An invite code is named by the request that drew it, as codes are random. Nothing deletes a membership or a
room, so the model does not either.

`CreatorOwnsRoom` has an exception that the model found. `createRoom()` inserts the room and its owner in two
calls. If an administrator adds the creator by hand in between, and two removals of that member both pass their
check, the first delete makes way for the owner's insert and the second deletes the owner, which
`cannot_remove_owner` is there to prevent. It takes four requests; `AddedByHand` excludes exactly that case.

### 3.5 `RoomRelay`: what the people of a room see

The Durable Object and the tabs together. A socket is two queues (`up`, `down`) that a drop loses; `events`
and `strokes` are the object's lists, memory and storage at once (a handler is one step, as in 3.2); `canvas`,
`doc` and `chat` are what each tab shows.

*Actions.* `acceptSocket` sends the replay; `RelayMessage` is `webSocketMessage()` with its role check, its
bounds and what it records; `RefuseMessage` is a message it closes the socket for; `Draw`, `ClearBoard`,
`SendChat`, `Type`, `Signal` are the page's senders, which paint first and send after; `ReceiveReady` and
`Receive` are its message handler with the replay; `HistoryLoads` the history fetched over HTTP, `Drops` and
`OnClose` the end of a socket. A stroke, an edit and a message are named by a number.

`evicted` (segments that a full board forgot) and `missed` (a joiner whose window held no edit) are the two
losses the bounds of the lists allow, and the properties name exactly them.

### 3.6 `RoomClient`: one tab and its sockets

| Variable | In `room-workspace.tsx` |
|---|---|
| `sock`, `socketRef`, `localId` | each socket's `readyState`, in the order of dialling; the refs |
| `promise`, `readyTimers` | `connectPromiseRef`, what it awaits, and the fifteen-second timers |
| `timers`, `timerRef`, `resetTimer`, `attempts` | reconnect timers, the one that can still be cleared, the stable-connection timer, the count |
| `request`, `live`, `ref`, `on` | uses of the device buttons, tracks that run, what the refs hold, what the page shows |
| `mesh`, `published`, `known`, `people` | `meshRef`, its tracks, `knownPeersRef`, the participants |
| `departed` | history: the last departure, and whether a fetch was under way |

Every event is an action: a button (`Join`, `AskDevice`, `AskScreen`, `TurnOff`, `leave`), a fetch or prompt that
answers (`TicketArrives`, `TicketFails`, `Granted`, `Refused`), a timer (`ReadyTimer`, `ReconnectTimer`,
`StableTimer`), a socket event (`SocketOpens`, `RoomReady`, `Presence`, `OnClose`), the end of the page
(`Unmount`). A callback reads the refs when it runs but belongs to the socket it was made for, which is where
the difficulty lies. A socket's `onclose` comes after it closed, at any time.

### 3.7 `PeerNegotiation` and `FileTransfer`: the mesh

`PeerNegotiation` is two browsers with perfect negotiation over ordered signals. What the code does
(`onnegotiationneeded`, `applySignal` cut at its awaits, `addCandidate`, `flushCandidates`, `setTrack`, restarts) is mapped
to `peer-mesh.ts`; what an `RTCPeerConnection` does (its operation queue, signaling states, implicit rollback, ICE
generations) is external and modelled from how the code uses it. One media slot stands for the three.

`FileTransfer` is `sendFile()`, the channel handlers and `uploadFiles()`: a header, chunks and an end to every open
channel, a receiver with one set of parts per peer, and channels that open and close at any time.

### 3.8 `Usernames`, `RateLimits`, `AccessTokens`, `OAuthGrants`

*`Usernames`*: registration and profile edits, one step per repository call with a failure between any two; the
derived username and its suffix; the unique index, present or not as it is before old duplicates are resolved; and the
script that resolves them beside a running API, one step per call it makes to the database: `ListGroups` is the aggregate,
`FindHolders` the find of one group, `RenameLoser` one update by id, and `ScriptFails` ends it anywhere. It can be run again.
`held` and `outranked` are history: who has had which name, and who has shared one with an older account.

*`RateLimits`*: one key. `RedisRuns` is the window script, which may run although the call timed out (`Timeout`) and
was counted in MongoDB (`StoreCounts`, `StoreInserts`); the server may go down, come up and forget its scripts
(`NOSCRIPT`) or its counters. `lost` records that a store itself lost or split a count.

*`AccessTokens`*: one token and any number of requests. `AuthenticatePat` reads it, `ShouldRecordUse` asks for the
claim, `RecordUse` replaces the document by the copy with a new `lastUsedAt`; `FindPat` and `RevokePat` are the
revocation. `settled` means that it met no request between its read and its write.

*`OAuthGrants`*: a code or refresh token bears the name of the request that created it. `ExchangeCode` and
`RefreshToken` consume what they are shown (one atomic MongoDB call) *before* `Check`, as the code does;
`CreateRefreshToken` and `Answer` follow, with a failure possible anywhere; `Revokes` consumes a refresh token.

### 3.9 `RoomHistory`, `RoomAdmission`, `TurnCredentials`

*`RoomHistory`*: deliveries attempted several times and at once (`IngestEvent`, `writeRoomEvent`), a reader who pages
back, reads the feed, the calendar or the list of rooms, with each room of the filter read on its own while
memberships change. `could` holds the rooms the reader could read at some moment of the request. Room events and
calendar events are separate collections that no request reads together, so a behaviour makes the ones or the others.

*`RoomAdmission`*: `RoomAccess` reads the two memberships one by one, `DecideTicket` decides and signs, `fetch` is the
room's verification, minutes pass. `since` says how long ago each role was held.

*`TurnCredentials`*: the cache is the `Map` in its order of insertion and holds the *promise* of a request; a failure
deletes the entry, but only if it is still its own; a full cache evicts its oldest. Tickets are numbered in the order
they are asked for.

### 3.10 `Stores`

`MemoryRepository` and `MongoRepository` beside each other, both given the same calls: one as sequences in order of insertion, the
other as sets of documents with filters, sorts and unique keys. What a call reads is an operator over the store, so
`SameAnswers` compares every read with every argument after every sequence of writes. A behaviour is about one collection,
or two that are read together. Concurrent inserts are left out: see 4.2.

### 3.11 The pages and the release tools

*`WorkspaceShell`* is the switcher with one page beside it, *`EditingPages`* the pages that edit a list (members of a
workspace, of a room, the settings), *`SignInPages`* forms, guards and recovery codes, *`ProfilePage`* the profile in
several tabs with the topbars and `PATCH /v1/auth/me`. Each follows the component's effects and handlers: what a button
disables is exclusive, everything else overlaps, and an answer may come after a newer one.

*`ReleaseTools`* is the path from a staged file to a release: the guard and the message hook, which can be skipped
(`--no-verify`), the planner, and runs of the workflow that read the tags at one moment and push at another.

## 4. The runs

| Run | Instance | Question and answer |
|---|---|---|
| `delivery_restarts` | 1 document, the board, 2 recordings, limit 3, 1 restart | With a restart anywhere: `NothingLost`, `NoResurrection`, `AlarmPending`, `RetriesBounded` and the refinement of `Outbox` hold. |
| `delivery_drains` | 2 recordings, limit 2, fairness | Without restarts the queue always drains, the newest snapshot is the one kept (`QueueHoldsLatest`), what is queued is watched by an alarm or a sender in time (`QueueIsServed`), and typing cannot postpone a snapshot for ever (`DebounceBounded`). |
| `delivery_orphan` | 1 recording, 1 restart, fairness | **Violated**: a restart during the first background POST leaves a delivery nobody retries. |
| `presence_rooms` | 3 sockets, 2 users, a prompt or a lagging listing, fairness; 303 k states | With a prompt listing the ledger, the agreement of views and the invisible eviction hold, and a departed connection leaves every list; with either, no live connection is hidden from anyone (`NobodyHidden`). |
| `relay_room` | 2 tabs, 3 messages, 3 sockets, a window of 2 and a board of 1; 1.5 M states | `RoomConverges` (board and text), `MessagesDelivered` (chat once, in order, complete; signals private), `ViewersOnlyWatch`. |
| `client_tab` | 3 sockets, 1 automatic reconnection, 2 device requests, 1 remote peer, fairness; 476 k states | `TabIsHonest`, `DepartureIsFinal`, and every attempt to join settles (`AttemptSettles`). |
| `client_ghost` | 1 socket | **Violated**: leaving during the ticket fetch leaves a socket open. |
| `mesh_peers` | 2 changes (tracks or restarts) and 2 peers; 2 files of 2 chunks for 2 receivers; fairness; 942 k states | `NegotiationSound` (no candidate lost, answers meet their offers), `AllDescribedInTheEnd`, `FilesSound`. |
| `account_requests` | 3 requests of every kind, 3 sessions, a link, a code; the pages with 2 workspaces, 3 handlers, 2 visitors, 2 tabs; 950 k states | Secrets serve once, evictions complete, revocation is final once no request is inside `authenticate()`; `PagesSound`: what the pages show catches up with the API. |
| `workspace_requests` | 2 requests of every kind, the owner and one other user of any role, 2 kinds of room; 1.3 M states | Administrators are made by the owner, memberships last, the room's members belong and its creator owns it. |
| `usernames_oldest` | 2 older accounts, 1 registration, 1 edit | **Violated**: an edit between the script's find and its update makes it rename the oldest holder. |
| `edges` | nine small instances, each alone; 1.3 M states | `NamesSound`, `LimitsSound`, `TokensSound`, `GrantsSound`, `HistorySound`, `TicketsSound`, `ReleasesSound`, `StoresAgree`, and `StepsSound` (requests for one user coalesce, tags do not move, the dedupe script renames nobody it should spare). |

`MCEdges` and `MCAccount` join parts that share no state: `part` says which one moves, the others stay at their
first state or at the model value `Off`, so the runs are as many separate checks. A property with `Sound` in its name is the
conjunction of the part's type invariant and of the named properties of its module, each stated there.

*Why the bounds are enough.* The outbox's hazards need two versions of one key and two holders of
a copy (2 recordings, alarm plus background POST). One restart suffices to lose either holder; a limit of 3 lets the two
counts of attempts diverge and be set back. Two users and three sockets give a user two tabs and a
witness. Three requests allow two to race while a third revokes. In `Workspace` two requests are every pair of handlers,
against an organisation in any state. Two tabs and three sockets are one that sends while the other drops and
joins again; a window of 2 in a history of 3 and a board of one segment overflow with three messages. Three sockets
of one page are an old one, its replacement and a joining after a departure; two device requests are a prompt answered late
and a newer one. Two track changes are one from each side, which is glare, or two in a row. In `edges` two requests compete for each
thing that exists once (a name, a limit of one, a claim, a code, a token, a cache entry, a tag); pages of one event
put a boundary between any two. `MaxRecorded`, `MaxCrashes`, `MaxSent`, `MaxJoins`, `MaxSockets`, `MaxChanges`, `MaxClock`, `LastTick`,
`EndOfTime`, `LastTime`, `LastHour`, `LastMoment`, `MaxCommits`, `MaxDocuments`, `MaxLoads`, `MaxReloads` and `MaxEdits` are
guards of the models, not of the program; requests, handlers and sessions are each used once.

*Deadlock* is checked for `DeliveryQueue` only: in the other models every socket, request or message of the
instance may have been used, and nothing is left to do. Symmetry is used in safety runs only.

### 4.1 Fairness

* `DeliveryQueue`: every POST is answered (the fetch resolves or rejects), awaiting code is resumed,
  time passes, and a due alarm fires, as the platform guarantees. Nothing is assumed about
  recording or restarts, and nothing about *how* POSTs are answered: the API may fail every time, and
  the retry limit then drains the queue.
* `RoomPresence`: an event for a sleeping object wakes it (weak fairness of `Wake`), and a
  closed socket's handler runs. The latter is strong fairness, because the object may hibernate
  and wake any number of times in between, which disables the handler meanwhile.
* `RoomClient`: a ticket request is answered or fails, timers fire, a closed socket reports it. A socket need
  not open and the room need not greet it: the fifteen-second timer is what settles the attempt then.
* `PeerNegotiation`: weak fairness of the two browsers together: as long as either has a signal to receive or an
  operation to execute, one of them goes on. The counters are bounded, so this is enough for all of it to be done. Nothing makes a user change a track.
* The other modules state no liveness: a request that fails or is abandoned is one of their cases.

### 4.2 What disagrees with the documentation

Three runs are expected to be violated; `PROJECT.json` quotes the sentences they contradict.

1. `index.ts:501`: `record()` relies on `waitUntil()` and sets no alarm, so the first attempt does not survive a restart (`alarm()`'s comment and `ARCHITECTURE.md` say it does).
2. `room-workspace.tsx:475`: `connectRoom()` goes on after its ticket fetch although the user has left or navigated away, and opens a socket (`docs/frontend.md:281` says it does not).
3. `dedupe-usernames.ts:59`: the script renames by id what it found at line 52. If the keeper gives the name up in between, the other
   holder, by then the oldest and the only one, is renamed too; and a new name that a loser has chosen meanwhile is overwritten (line 14:
   "The oldest account keeps the username"). `SparesOldest` states what remains true: an undisturbed script leaves every name with
   its oldest holder, and a disturbed one renames only accounts that have at some time shared a name with an older one.

The models contain more that a document or comment does not say, met on the way and without a run of their own.
The properties exempt exactly these cases.

*Rooms.*

* `application.ts:74`: the ingest schema has no `whiteboard` event, so a snapshot that reaches the API is refused and
  deleted (`README.md` lists whiteboard updates among what persists).
* `index.ts:493`: a newer snapshot starts with no failed attempts, so an outage is retried at typing speed (`docs/realtime.md` promises
  exponential backoff). A delivery can fail up to `2 * MaxAttempts - 1` times, because each sender counts from its own copy:
  `RetriesBounded` states that bound.
* `index.ts:267` closes the socket of a message over 64,000 characters; the text that was too long stays on the
  typist's screen only. A joiner whose window of recent events has no edit sees an empty editor.
* `room-workspace.tsx:387`: the history fetched over HTTP may answer after the room is ready and overwrite newer text
  (`HistoryMayBeLate`, with which `TextConverges` fails). Its events have other ids than the room's, so a message may be listed twice.
* A device prompt answered after leaving leaves the device on; a second screen share replaces the first one's stream without
  stopping it. `TabIsHonest` is about a mounted page.
* `peer-mesh.ts:138`: files sent together share the channels and mix; a channel that closes fails the transfer for everybody.
* If a closed socket lingers in `getWebSockets()` until another closes, it is restored as a participant and its user's
  departure goes unrecorded; how long the platform may list it is not documented in the repository, so `prompt` may
  be either, and only `NobodyHidden` is claimed when it is false.

*Accounts and organisations.*

* `application.ts:291` and `:306`: the whole document that `authenticate()` and `authenticatePat()` write back can undo a revocation that came in
  between (`docs/security.md`: "revocation remains immediate"). `RevocationSettles` and `RevocationIsFinal` are about the others.
* `application.ts:638`: a reset does not evict a login in flight (comment at line 824).
* `application.ts:1305`: the settings handler can write a regenerated invite code back (`docs/security.md`).
* `repository.ts:595`: a failure between the delete and the insert of recovery codes leaves none.
* `application.ts:1336`: two administrators who step down at once each find the other, and none remains
  (`docs/security.md`); `MembershipKept` says why the organisation is still managed: the owner stays.
* `application.ts:1426`: the exception of `CreatorOwnsRoom` in 3.4.
* `application.ts:429`: a ticket's role may combine memberships of two moments; it lasts as long as the socket.
* `dedupe-usernames.ts:57` cuts the suffix off a name of 32 characters, so the duplicate remains; line 55 throws when nobody holds a
  listed name any more, and the groups after it stay as they are. A registration that fails
  after its first insert leaves a user without credential.
* `cache.ts:189`: a call counted in Redis and in MongoDB can be let through up to twice the limit; `rate_limits` has no unique key,
  so a first upsert can be split.
* `application.ts:1757` and `:1810`: codes and refresh tokens are consumed before they are checked, so a wrong client uses one up; a
  revocation that meets a rotation does not find the successor.
* `application.ts:1116`: paging with a strict `<` skips events of the same instant.
* Concurrent check-then-insert is refused by MongoDB's unique indexes and accepted by `MemoryRepository`;
  its `consumeAccountActionToken` deletes a token also when its type does not match.

*Pages and tools.*

* `dashboard.tsx:117`: a load that answers late replaces a newer selection and is stored as the preference. On the member
  pages too the last answer wins. `settings.tsx`: what is created during the first load can be dropped by its answer.
* `auth-form.tsx:16`: with an existing session the late identity answer redirects from the registration form and destroys the new recovery codes.
* `application.ts:881`: two saves of one profile at once lose one.
* `guard-staged.mjs` skips files that are gone from the worktree. `release.yml` has no concurrency group, so the image tags of a
  major or minor version can move back. A commit of an unknown type made with `--no-verify` is in no notes.

## 5. The proofs

All proofs are for any values of the constants that satisfy the `ASSUME`s of the
modules, with no bound on documents, sockets, tabs, requests or restarts. (Counters that only bound
a model, like `MaxSent`, are any natural number.)

| Module | Theorem | Says | Needs |
|---|---|---|---|
| `DeliveryQueue_proofs` | `TypeCorrect`, `Invariance` | `Spec => []TypeOK`, `Spec => []IInv` | the three assumptions on times, limits, keys |
| | `NewestPending`, `NoEventLost`, `RetryHasAlarm`, `DebounceIsBounded` | `QueueHoldsLatest`, `NothingLost`, `AlarmPending`, `DebounceBounded` are invariants | `IInv` |
| | `Refinement`, `NeverResurrected` | `Spec => Outbox!Spec`; `NoResurrection` | `IInv` |
| | `ServedWithoutRestarts` | `QueueIsServed` is an invariant | `MaxCrashes = 0` |
| | `FailuresBounded` | `RetriesBounded` is an invariant | `MaxAttempts >= 2` |
| `RoomPresence_proofs` | `TypeCorrect` | typing | |
| | `NobodyIsHidden` | `NobodyHidden` is an invariant, however long closed sockets stay listed | |
| | `Invariance`, `LedgerBalances`, `EveryoneSeesTheRoom`, `EvictionInvisible` | `IInv`, `PresenceLedger`, `ViewsAgree`, `HibernationInvisible` are invariants; each speaks of a prompt listing | `IInv` |
| `Account_proofs` | `TypeCorrect`, `Invariance` | typing, `IInv` | the assumptions on names |
| | `SecretsServeOnce`, `AnsweredMeansEvicted`, `SettledForGood` | `SecretsSingleUse`, `EvictionComplete`, `RevocationSettles` | `IInv` |
| `Workspace_proofs` | `TypeCorrect`, `Invariance` | typing, `IInv` | the assumptions on names and kinds |
| | `AdministratorsFromOwner`, `MembershipsLast` | `AdminsGrantedByOwner`, `MembershipKept` | `IInv` |
| | `RoomMembersAreMembers`, `CreatorsOwn` | `RoomMembersBelong`, `CreatorOwnsRoom` | `IInv` |
| | `ClosedRooms` | the policy closes restricted and confidential rooms to ordinary members without a role in them | |
| `RoomClient_proofs` | `TypeCorrect`, `Invariance` | typing, `IInv` | the assumptions on sockets and `Null` |
| | `TabHonest`, `DepartureFinal` | `TabIsHonest`, `DepartureIsFinal` | `IInv` |
| `RoomRelay_proofs` | `Invariance` | types, with the bounds of the two lists, and `IInv` | `RelayAssumption` |
| | `SignalsPrivate`, `OnlyWatching` | `SignalsArePrivate`, `ViewersOnlyWatch` | `IInv` |
| `AccessTokens_proofs` | `Invariance` | `TokensIInv` | `TokensAssumption` |
| | `RevocationFinal`, `Recent`, `Sound` | `RevocationIsFinal`, `UseIsRecent`, `TokensSound` | `TokensIInv` |
| `OAuthGrants_proofs` | `Invariance` | `GrantsIInv` | `GrantsAssumption` |
| | `UsedOnce`, `ForTheAuthorized`, `RevocationEnds`, `Sound` | `SingleUse`, `BoundToClient`, `RevocationEndsGrant`, `GrantsSound` | `GrantsIInv` |

*Why `QueueHoldsLatest` needs strengthening.* Alone it is not inductive: nothing stops a copy in some
POST from carrying another key's id, whose retry would then overwrite a newer delivery. `IInv` adds what
is true of every copy the outbox holds anywhere (`Held`: stored, listed or being POSTed): its id was issued,
an id belongs to one key (`IdNamesKey`), a key holds one delivery (`OnePerKey`), `latest` names issued
ids (`LatestIssued`), an accepted POST has been stored (`AcceptedIsDurable`), and a snapshot's copy
keeps its `queuedAt` (`QueuedAtKept`). Then the id comparison in `deliver()` and
`deleteDeliveryIfCurrent()` is enough: a copy whose id is current *is* the stored
delivery.

*Who serves the queue.* `WakeupInTime` is inductive with the types alone: an alarm is only ever moved up, and a returning
handler takes the earliest time. For `QueueIsWatched` a first POST may end only with its delivery off the queue or an alarm
set, which again is `IdNamesKey`. Both fail once a restart has lost the first POST (`delivery_orphan`), hence `MaxCrashes = 0`.

*How often a delivery fails.* `OneSender` says that the alarm handler is alone, lists an id once and POSTs it once, and that an
event has one first POST. `FailuresCounted` compares the failures of an id with the attempt count of every copy:
while the first POST is unanswered the copies count them all; its own failure may set the stored count back, and at most
`MaxAttempts - 1` failures are then forgotten, once. With a limit of one attempt two failures are possible, hence `MaxAttempts >= 2`
(the code's limit is 8).

*Presence.* The ledger follows from the map, the map from the attachments of the
listed sockets, so `IInv` is the conjunction of these with "nothing lingers", for a prompt listing.
When something may linger, `NobodyForgotten` is left: the map can hold someone too many, never someone too few.

*Account.* A consumed secret is no longer on offer (`SecretsSpent`), which gives single use;
`EvictionProgress` relates the handler's list to the sessions already revoked, with `revived`
recording those that a stale copy brought back.

*Workspace.* The properties speak of decisions made on documents read some calls ago. `ChecksHold` lists what each
handler relies on after its checks, and it is stable because of what *no* handler does: remove a membership,
change its attributes, or make or unmake an owner (`OneOwner`). That stability is the action property
`MembershipKept` itself, so the proof starts with it (`MembersStep`). `OwnPath` and `RoomBegins` say
that one creation made the room and where every handler may be; `OwnerUntouched`, that a pending
removal never aims at the creator's role.

*Room client.* A late callback does harm only if it takes its socket for the current one. `DialsInOrder` says
that sockets are numbered as they are dialled, that only the newest can be connecting, and only for the attempt in flight;
`WaitsForClosed`, that a reconnect timer belongs to a socket that has closed, and that a page without a socket claims
nothing. With these a callback of an older socket fails the comparison with `socketRef` that the code makes. `Captured` is
the same for devices: what runs was captured by a request that is done, so a prompt that is still open holds nothing.
`TypeCorrect` comes first; then each part has a lemma over all actions.

*Room relay.* The room's bounds are kept because it writes through `slice(-n)`: a lemma shows that the end of a list has only
members of the list, and at most so many. A signal is addressed when it is relayed, and a connection is never
renamed while its queue is not empty.

*Access tokens.* `RevokedForGood` says that once a revocation is settled no copy of the token in any request could undo it,
and whoever came later was turned away; `WritesWhatIs`, that only a token that was made is
claimed, used and written; `UseIsRecorded`, that a use is in the document or is being recorded by the holder of the claim.

*OAuth grants.* `InOnePlace`: a grant is in its code, in one refresh token, in one request that has consumed either, or in a
revocation, and never in two of them. Every consume moves it, every create moves it back, and a failure loses it. Single use
follows, and so does the end: a grant that is in a revocation is nowhere else, and never leaves. `ConsumedOnce` says
that what was presented is gone and that one request found it, `AllAuthorized` and `GoesOn` that the client stays the one
of the authorization, `SignedBefore` that nothing is signed for a grant after its revocation.

*Only model-checked:*

* liveness: `Drains`, `DepartureIsSeen`, `AttemptSettles`, `AllDescribedInTheEnd` (liveness under fairness is out of the
  prover's reach);
* `BoardConverges`, `TextConverges`, `ChatIsReplayedOnce` and `ChatComplete`, which fold sequences of messages in flight (an induction over data);
* `NegotiationSound`, `FilesSound`, `NamesSound`, `LimitsSound`, `HistorySound`, `TicketsSound`, `ReleasesSound`,
  `StoresAgree`, `PagesSound` and `StepsSound`.

## 6. Not modelled, and why

* **Cryptography**: hashes, tokens, signatures and tickets are opaque values; that they cannot be guessed or forged is assumed.
* **Audit records**: each is one insert that nothing reads back into a decision.
* **Creating rooms and meetings from their dialogs, the landing page, the API reference, sounds, styles**: one request each,
  or no state. The pages' wording and layout.
* **The OpenAPI document, boot and configuration** beyond the indexes that boot builds: no state whose order of change matters. The
  deployment manifests likewise.
* **The workflows** other than the release: they run the tests.
* **Deployments that end every socket of a room without a close event**: the object is told nothing, so no
  model of its code can react. The departures are then missing from the ledger.
* **What WebRTC, browsers, Redis, MongoDB and the Workers platform do inside** is modelled only as far as the code relies on it; such
  definitions are marked external in `PROJECT.json`.
